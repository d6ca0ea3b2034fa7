SPECIFICATION CoopSpec
CONSTANTS
    Addr = {cr, a, b}
    creator = cr
    None = None
    max_members = 3
    min_members_required = 2
    total_cycles = 1
    contribution_amount = 10
    exit_penalty_percent = 2000
    late_fee_percent = 1000
    platform_fee_percent = 1000
    distribution_threshold = 2
    random_order = TRUE
    create_order = None
    invite_only = TRUE
    strict_mode = FALSE
    auto_refund_if_min_not_met = TRUE
    auto_start_by_members = FALSE
    manual_trigger_enabled = FALSE
    emergency_stop_enabled = FALSE
    CycleDuration = 1
    GracePeriod = 0
    Invited = {a, b}
    Added = {}
    Blocked = {}
    MaxElapsed = 1
    MaxBank = 1000
    MaxPenalties = 0
    MaxMisses = 0
    MaxPending = 0
    Surplus = {0}
    Rewards = {}
INVARIANTS AccountsBalance
PROPERTIES RunningCompletes
CHECK_DEADLOCK FALSE
