\* Two messages, two alarms and a watcher; alarms are set for times the clock
\* reaches and for a time it does not reach.
CONSTANTS
    Msgs = {m1, m2}
    Alarms = {a1, a2}
    Watchers = {w1}
    MaxTime = 2
    MaxNow = 1
    None = None
    MsgPipe = MsgPipe
SPECIFICATION Spec
INVARIANTS
    TypeOK
    NoLostWakeup
    PipeSound
    WakeupInv
    QueueSound
    IoRequestsExact
PROPERTIES
    NoAlarmOvertaken
    AlarmFires
    WatcherServed
    ImplementsMailbox
