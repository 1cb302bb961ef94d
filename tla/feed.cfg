SPECIFICATION RecoverySpec
CONSTANTS
    Watcher = {w1}
    Content = {a, b}
    Bad = Bad
    NoContent = NoContent
INVARIANTS TriggerHonoured EveryTriggerRead
PROPERTIES Converges
