------------------------------ MODULE MCScheduler ------------------------------
EXTENDS Scheduler, Integers

VARIABLES task, asked

CONSTANTS s1, s2, t1, t2

\* One task, with no option on one server.
Plain == [servers |-> {s1}, tasks |-> <<t1>>, exclusive |-> {}, oneServer |-> {},
          background |-> {}, evenMaintenance |-> <<t1>>, conditional |-> {}, hooked |-> {}]

\* A conditional background task, and one with hooks.
ConditionalTask == [Plain EXCEPT !.exclusive = {t1}, !.background = {t1}, !.conditional = {t1},
                         !.evenMaintenance = <<>>]
HookedTask == [Plain EXCEPT !.exclusive = {t1}, !.background = {t1}, !.hooked = {t1}]

\* A hooked task with the single-server lock, on one server.
OneProcess == [Plain EXCEPT !.oneServer = {t1}, !.exclusive = {t1}, !.hooked = {t1},
                       !.tasks = <<t2, t1>>]

\* Both locks, on two servers.
BothLocks == [Plain EXCEPT !.servers = {s1, s2}, !.exclusive = {t1}, !.oneServer = {t1}]

\* No scheduler runs: the schedule is being written.
Writing == [Plain EXCEPT !.servers = {}, !.tasks = <<>>, !.evenMaintenance = <<>>]

SetupsAll == {Writing, ConditionalTask, HookedTask, OneProcess, BothLocks}

\* What is given to cron(): every 7 minutes and two hours of the first half of the
\* year, some days of the month, and a field too many.
All == <<[from |-> -2, to |-> -1, step |-> -1]>>
SomeWritten ==
    {<<<<[from |-> -2, to |-> -1, step |-> 7]>>,
       <<[from |-> 0, to |-> -1, step |-> -1], [from |-> 4, to |-> -1, step |-> -1]>>,
       All, <<[from |-> 1, to |-> 6, step |-> -1]>>, All>>,
     <<<<[from |-> 0, to |-> -1, step |-> -1]>>, <<[from |-> 2, to |-> -1, step |-> -1]>>,
       <<[from |-> 1, to |-> 28, step |-> -1]>>, All, <<[from |-> 1, to |-> 5, step |-> -1]>>>>,
     <<All, All, All, All, All, All>>}

\* February has 28 days or 29, the other two months 31.
SomeMoments ==
    {m \in [minute : {0, 7, 14}, hour : {0, 2, 4}, day : {1, 28, 31}, month : {1, 2, 7},
            weekday : {0, 1, 5}, lastDay : BOOLEAN] :
        /\ m.day = 31 => (m.month # 2 /\ m.lastDay)
        /\ m.lastDay => (m.day = 31 \/ (m.day = 28 /\ m.month = 2))}

Builder == INSTANCE Cron WITH
    Minutes <- {7}, Hours <- {0, 2}, Days <- {1}, Months <- {7},
    Windows <- {<<0, 126>>, <<127, 240>>}, Moments <- SomeMoments, Written <- SomeWritten

builderVars == <<task, asked>>

MCInit == Init /\ Builder!Init
MCNext ==
    \/ Next /\ UNCHANGED builderVars
    \/ Servers = {} /\ Builder!Next /\ UNCHANGED vars
MCFairSpec == MCInit /\ [][MCNext]_<<vars, builderVars>> /\ Fairness

DueAsAsked == Servers = {} => Builder!DueAsAsked
================================================================================
