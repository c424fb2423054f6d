------------------------------- MODULE Cache -------------------------------
(***************************************************************************)
(* The cache (src/cache/index.ts): three drivers behind CacheManager, each *)
(* with its own steps, shared by concurrent calls of any number of         *)
(* processes, and Cache.remember over data that changes.  A file is        *)
(* emptied and then written; the database driver looks a row up and then   *)
(* updates or creates it; an expired file or row is read and then removed. *)
(*                                                                         *)
(* Time counts seconds.  Left out: encryption, the prefix of the keys, and *)
(* a driver that cannot be reached.                                        *)
(***************************************************************************)
EXTENDS Naturals, Sequences, FiniteSets

CONSTANTS Keys, Calls,
          Null,       \* what get returns for nothing
          Ttl,        \* seconds a remembered value is kept; 0 for ever
          MaxTime,    \* bound: seconds of a behaviour
          MaxUpdates, \* bound: changes of the source
          MaxStarts   \* bound: calls that are started

VARIABLES driver,  \* CACHE_DRIVER
          disk,    \* key |-> what the store holds
          now,
          call,    \* each call: where it is, its pending driver step, its results
          source,  \* the version of the data that is cached
          starts   \* how many calls have been started
cacheVars == <<driver, disk, now, call, source, starts>>

Drivers == {"file", "database", "redis"}
\* What a store holds under a key: nothing, an emptied file, or a value.  A
\* file created anew is another file (id): who has the old one open writes there.
Nothing(id) == [is |-> "nothing", val |-> Null, exp |-> 0, id |-> id]
Emptied(id) == [is |-> "emptied", val |-> Null, exp |-> 0, id |-> id]
Value(val, exp, id) == [is |-> "value", val |-> val, exp |-> exp, id |-> id]
NoIo == [op |-> "none", key |-> Null, val |-> Null, exp |-> 0, id |-> 0, had |-> FALSE]
Fresh == [pc |-> "idle", io |-> NoIo, got |-> Null, over |-> FALSE]

(* --- drivers --- *)

\* FileCache and DBCache compare with >, Redis drops a key when its time is up.
Expired(e) == e.is = "value" /\ e.exp # 0 /\ IF driver = "redis" THEN now >= e.exp ELSE now > e.exp
Held(key) == IF disk[key].is = "value" /\ ~Expired(disk[key]) THEN disk[key].val ELSE Null
ExpiresAt(ttl) == IF ttl = 0 THEN 0 ELSE now + ttl

\* get, has: c is to go on as `next`, which knows the value read; an expired
\* file or row is removed before get returns.
Read(c, key, next) ==
    /\ call' = [call EXCEPT ![c] =
          IF Expired(disk[key]) /\ driver # "redis"
            THEN [next EXCEPT !.io = [NoIo EXCEPT !.op = "remove", !.key = key]]
            ELSE next]
    /\ UNCHANGED disk

\* set
Write(c, key, val, ttl, next) ==
    LET e == disk[key]
        pending == [NoIo EXCEPT !.key = key, !.val = val, !.exp = ExpiresAt(ttl), !.id = e.id]
    IN CASE driver = "redis" ->
              /\ disk' = [disk EXCEPT ![key] = Value(val, ExpiresAt(ttl), e.id)]
              /\ call' = [call EXCEPT ![c] = next]
         [] driver = "file" ->
              /\ disk' = [disk EXCEPT ![key] = Emptied(e.id)]
              /\ call' = [call EXCEPT ![c] = [next EXCEPT !.io = [pending EXCEPT !.op = "fill"]]]
         [] driver = "database" ->
              /\ disk' = disk
              /\ call' = [call EXCEPT ![c] = [next EXCEPT !.io =
                    [pending EXCEPT !.op = "save", !.had = e.is = "value"]]]

\* del
Delete(c, key, next) ==
    /\ disk' = [disk EXCEPT ![key] = IF @.is = "nothing" THEN @ ELSE Nothing(@.id + 1)]
    /\ call' = [call EXCEPT ![c] = next]

\* The second half of a driver's operation.
Finish(c) ==
    LET io == call[c].io
        e == disk[io.key]
        done == [call EXCEPT ![c].io = NoIo]
    IN /\ io.op # "none"
       /\ \/ /\ io.op = "remove"
             /\ disk' = [disk EXCEPT ![io.key] = IF @.is = "nothing" THEN @ ELSE Nothing(@.id + 1)]
             /\ call' = done
          \/ /\ io.op = "fill"                   \* writeFile, into the file it opened
             /\ disk' = IF e.id = io.id THEN [disk EXCEPT ![io.key] = Value(io.val, io.exp, io.id)]
                        ELSE disk
             /\ call' = done
          \/ /\ io.op = "save" /\ io.had         \* UPDATE, of no row if it is gone
             /\ disk' = IF e.is = "value" THEN [disk EXCEPT ![io.key] = Value(io.val, io.exp, io.id)]
                        ELSE disk
             /\ call' = done
          \/ /\ io.op = "save" /\ ~io.had        \* INSERT, refused if k exists by now
             /\ IF e.is = "value"
                  THEN disk' = disk /\ call' = [done EXCEPT ![c].pc = "threw"]
                  ELSE /\ disk' = [disk EXCEPT ![io.key] = Value(io.val, io.exp, io.id)]
                       /\ call' = done
       /\ UNCHANGED <<driver, now, source, starts>>

At(c, pc) == call[c].pc = pc /\ call[c].io.op = "none"

CacheInit == /\ driver \in Drivers
             /\ disk = [k \in Keys |-> Nothing(0)]
             /\ now = 0
             /\ call = [c \in Calls |-> Fresh]
             /\ source = 0
             /\ starts = 0

(* --- remember, and the code that changes what is remembered --- *)

Item == "item"
ASSUME CacheAssumption == Item \in Keys /\ Ttl \in Nat

Start(c, begun) == /\ call[c].pc = "idle" /\ starts < MaxStarts
                   /\ call' = [call EXCEPT ![c] = begun]
                   /\ starts' = starts + 1
                   /\ UNCHANGED <<driver, disk, now, source>>

Remember(c) ==
    \/ Start(c, [Fresh EXCEPT !.pc = "look"])
    \/ /\ At(c, "look")
       /\ Read(c, Item, [call[c] EXCEPT !.got = Held(Item),
                                        !.pc = IF Held(Item) # Null THEN "return" ELSE "compute"])
       /\ UNCHANGED <<driver, now, source, starts>>
    \/ /\ At(c, "compute")                       \* await callback()
       /\ call' = [call EXCEPT ![c].got = [version |-> source, over |-> FALSE], ![c].pc = "keep"]
       /\ UNCHANGED <<driver, disk, now, source, starts>>
    \/ /\ At(c, "keep")
       /\ Write(c, Item, [call[c].got EXCEPT !.over = call[c].over], Ttl, [call[c] EXCEPT !.pc = "return"])
       /\ UNCHANGED <<driver, now, source, starts>>
    \/ /\ At(c, "return") \/ At(c, "threw")
       /\ call' = [call EXCEPT ![c] = Fresh]
       /\ UNCHANGED <<driver, disk, now, source, starts>>

\* Calls under way that have computed a value note that it has been
\* invalidated since: they are about to store it.
Overtaken(cs) == [c \in Calls |->
    IF cs[c].pc = "keep" THEN [cs[c] EXCEPT !.over = TRUE]
    ELSE IF cs[c].io.op \in {"fill", "save"} /\ cs[c].io.key = Item
      THEN [cs[c] EXCEPT !.io.val.over = TRUE]
    ELSE cs[c]]

\* Mutant: the key is forgotten before the data changes.
ForgetThenUpdate(c) ==
    \/ Start(c, [Fresh EXCEPT !.pc = "forget"])
    \/ /\ At(c, "forget")
       /\ disk' = [disk EXCEPT ![Item] = IF @.is = "nothing" THEN @ ELSE Nothing(@.id + 1)]
       /\ call' = [Overtaken(call) EXCEPT ![c].pc = "change"]
       /\ UNCHANGED <<driver, now, source, starts>>
    \/ /\ At(c, "change") /\ source < MaxUpdates
       /\ source' = source + 1
       /\ call' = [call EXCEPT ![c] = [Fresh EXCEPT !.pc = "return"]]
       /\ UNCHANGED <<driver, disk, now, starts>>

\* The data changes and then its key is forgotten.
Update(c) ==
    \/ Start(c, [Fresh EXCEPT !.pc = "change"])
    \/ /\ At(c, "change") /\ source < MaxUpdates
       /\ source' = source + 1
       /\ call' = [call EXCEPT ![c].pc = "forget"]
       /\ UNCHANGED <<driver, disk, now, starts>>
    \/ /\ At(c, "forget")
       /\ disk' = [disk EXCEPT ![Item] = IF @.is = "nothing" THEN @ ELSE Nothing(@.id + 1)]
       /\ call' = [Overtaken(call) EXCEPT ![c] = [Fresh EXCEPT !.pc = "return"]]
       /\ UNCHANGED <<driver, now, source, starts>>

\* cache:clear, Cache.flush
Clear == /\ disk' = [k \in Keys |-> IF disk[k].is = "nothing" THEN disk[k] ELSE Nothing(disk[k].id + 1)]
         /\ starts < MaxStarts /\ starts' = starts + 1
         /\ UNCHANGED <<driver, now, call, source>>

Tick == /\ now < MaxTime
        /\ now' = now + 1
        /\ UNCHANGED <<driver, disk, call, source, starts>>

CacheNext == Tick \/ Clear \/ \E c \in Calls : Remember(c) \/ Update(c) \/ Finish(c)
CacheSpec == CacheInit /\ [][CacheNext]_cacheVars

-----------------------------------------------------------------------------
(* Properties *)

\* A cached value is out of date only while the change that made it so has
\* still to forget the key, or when remember computed it before the key was
\* forgotten and stored it afterwards.
StaleOnlyIfOvertaken ==
    Held(Item) = Null \/ Held(Item).version = source \/ Held(Item).over
      \/ \E c \in Calls : call[c].pc = "forget"
=============================================================================
