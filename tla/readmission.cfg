SPECIFICATION ClockSpec
CONSTANTS
    Addr = {cr, a}
    creator = cr
    None = None
    max_members = 2
    min_members_required = 2
    total_cycles = 1
    contribution_amount = 10
    exit_penalty_percent = 2000
    late_fee_percent = 1000
    platform_fee_percent = 1000
    distribution_threshold = 1
    random_order = FALSE
    create_order = None
    invite_only = TRUE
    strict_mode = FALSE
    auto_refund_if_min_not_met = TRUE
    auto_start_by_members = FALSE
    manual_trigger_enabled = TRUE
    emergency_stop_enabled = TRUE
    CycleDuration = 1
    GracePeriod = 0
    Invited = {}
    Added = {a}
    Blocked = {}
    MaxElapsed = 2
    MaxBank = 53
    MaxPenalties = 2
    MaxMisses = 1
    MaxPending = 0
    Surplus = {0, 3}
    Rewards = {5}
INVARIANTS PendingTotalMatches SettledIsEmpty RoundsFollowTheClock
PROPERTIES ClaimsOnlyWithdrawn
CHECK_DEADLOCK FALSE
