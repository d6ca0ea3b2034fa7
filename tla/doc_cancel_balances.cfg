SPECIFICATION Spec
CONSTANTS
    Addr = {cr, a}
    creator = cr
    None = None
    max_members = 2
    min_members_required = 2
    total_cycles = 2
    contribution_amount = 10
    exit_penalty_percent = 2000
    late_fee_percent = 1000
    platform_fee_percent = 1000
    distribution_threshold = 0
    random_order = FALSE
    create_order = None
    invite_only = TRUE
    strict_mode = TRUE
    auto_refund_if_min_not_met = TRUE
    auto_start_by_members = FALSE
    manual_trigger_enabled = FALSE
    emergency_stop_enabled = FALSE
    CycleDuration = 1
    GracePeriod = 0
    Invited = {a}
    Added = {}
    Blocked = {}
    MaxElapsed = 1
    MaxBank = 1000
    MaxPenalties = 0
    MaxMisses = 0
    MaxPending = 0
    Surplus = {0}
    Rewards = {}
PROPERTIES CancelBalances
CHECK_DEADLOCK FALSE
