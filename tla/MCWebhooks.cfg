\* One event emitted twice to two hooks, two attempts, a death and a lost answer.
CONSTANTS
    Events = {e1}
    Hooks = {1, 2}
    Workers = {1, 2}
    Attempts = 2
    MaxEmits = 2
    MaxFaults = 1
    MaxUpsets = 1
SPECIFICATION FairWebhookSpec
INVARIANTS
    NoCallOnceDelivered
    EveryHookHears
PROPERTIES
    EveryDeliveryEnds
