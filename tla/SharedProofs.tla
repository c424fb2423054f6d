---------------------------- MODULE SharedProofs ----------------------------
(***************************************************************************)
(* Proofs about what processes share: the cache, the rate limiter on top   *)
(* of it, and the lock of the migrations.                                  *)
(*                                                                         *)
(* What remember stores: StaleInv says of every copy of the value that is  *)
(* under way (computed, or half written by a driver) what                  *)
(* StaleOnlyIfOvertaken says of the stored one, expired or not.            *)
(*                                                                         *)
(* What the limiter lets through: the requests are those of windows, each  *)
(* as long as its timer's entry (Windows, WindowOpen).  SerialInv says     *)
(* that the counter outlives the timer and has counted the window's        *)
(* requests, at each step of the request whose turn it is (Good), so that  *)
(* a window lets no more than the largest limit through.  WaitingInv says  *)
(* that who is told to wait is told of a moment when the timer has run     *)
(* out.                                                                    *)
(*                                                                         *)
(* Who migrates: HeldInv says which lock a runner at work holds.           *)
(***************************************************************************)
EXTENDS Throttle, Migrations, FiniteSetTheorems, TLAPS

Remembered == [version : Nat, over : BOOLEAN]

Ops == {"none", "remove", "fill", "save"}

RememberIo == [op : Ops, key : Keys \cup {Null}, val : Remembered \cup {Null}, exp : Nat, id : Nat,
               had : BOOLEAN]

RememberPcs == {"idle", "look", "compute", "keep", "return", "threw", "change", "forget"}

RememberCall == [pc : RememberPcs, io : RememberIo, got : Remembered \cup {Null}, over : BOOLEAN]

RememberEntry == [is : {"nothing", "emptied", "value"}, val : Remembered \cup {Null}, exp : Nat, id : Nat]

RememberTypes ==
    /\ driver \in Drivers
    /\ disk \in [Keys -> RememberEntry]
    /\ now \in Nat /\ source \in Nat /\ starts \in Nat
    /\ call \in [Calls -> RememberCall]

\* A driver's pending step is about the remembered key; what is to be stored
\* and what is stored are values.
Storing(io) == io.op \in {"fill", "save"}

RememberShape ==
    /\ \A c \in Calls : /\ call[c].io.op # "none" => call[c].io.key = Item
                        /\ call[c].pc = "keep" => call[c].got \in Remembered
                        /\ Storing(call[c].io) => call[c].io.val \in Remembered /\ call[c].pc = "return"
    /\ disk[Item].is = "value" => disk[Item].val \in Remembered

Forgetting == \E c \in Calls : call[c].pc = "forget"

Excused(v, over) == v.version = source \/ over \/ Forgetting

StaleInv ==
    /\ \A c \in Calls : /\ call[c].pc = "keep" => Excused(call[c].got, call[c].over)
                        /\ Storing(call[c].io) => Excused(call[c].io.val, call[c].io.val.over)
    /\ disk[Item].is = "value" => Excused(disk[Item].val, disk[Item].val.over)

RememberInv == RememberTypes /\ RememberShape /\ StaleInv

-----------------------------------------------------------------------------
(* Remembered values. *)

\* The pending step a read leaves, if any: the removal of an expired entry.
LEMMA ReadType ==
    ASSUME RememberTypes, RememberShape, NEW c \in Calls, NEW next \in RememberCall,
           next.io.op = "none", Read(c, Item, next)
    PROVE  /\ disk' = disk
           /\ \E n \in RememberCall :
                 /\ call' = [call EXCEPT ![c] = n]
                 /\ n.pc = next.pc /\ n.got = next.got /\ n.over = next.over
                 /\ ~Storing(n.io) /\ (n.io.op # "none" => n.io.key = Item)
<1>1. [next EXCEPT !.io = [NoIo EXCEPT !.op = "remove", !.key = Item]] \in RememberCall
  BY CacheAssumption DEF RememberCall, RememberIo, NoIo, Ops
<1>2. NoIo.op = "none" /\ [NoIo EXCEPT !.op = "remove", !.key = Item].op = "remove"
      /\ [NoIo EXCEPT !.op = "remove", !.key = Item].key = Item
  BY DEF NoIo
<1>3. CASE Expired(disk[Item]) /\ driver # "redis"
  <2>1. call' = [call EXCEPT ![c] = [next EXCEPT !.io = [NoIo EXCEPT !.op = "remove", !.key = Item]]]
    BY <1>3 DEF Read
  <2>2. QED
    BY <1>1, <1>2, <2>1 DEF Read, RememberCall, Storing
<1>4. CASE ~(Expired(disk[Item]) /\ driver # "redis")
  <2>1. call' = [call EXCEPT ![c] = next]
    BY <1>4 DEF Read
  <2>2. QED
    BY <1>2, <2>1 DEF Read, Storing
<1>5. QED
  BY <1>3, <1>4

\* What a write leaves: the value stored, or a pending step that will store it.
LEMMA WriteType ==
    ASSUME RememberTypes, RememberShape, NEW c \in Calls, NEW val \in Remembered,
           NEW next \in RememberCall, next.io.op = "none", Write(c, Item, val, Ttl, next)
    PROVE  \E n \in RememberCall, e \in RememberEntry :
              /\ call' = [call EXCEPT ![c] = n] /\ disk' = [disk EXCEPT ![Item] = e]
              /\ n.pc = next.pc /\ n.got = next.got /\ n.over = next.over
              /\ n.io.op # "none" => n.io.key = Item
              /\ Storing(n.io) => n.io.val = val
              /\ e.is = "value" => e.val = val \/ e = disk[Item]
<1> DEFINE e0 == disk[Item]
           io0 == [NoIo EXCEPT !.key = Item, !.val = val, !.exp = ExpiresAt(Ttl), !.id = e0.id]
<1>0. e0 \in RememberEntry /\ ExpiresAt(Ttl) \in Nat
  BY CacheAssumption DEF RememberTypes, ExpiresAt
<1>1. io0 \in RememberIo /\ io0.key = Item /\ io0.val = val
  BY <1>0, CacheAssumption DEF RememberIo, RememberEntry, NoIo, Ops
<1>2. NoIo.op = "none"
  BY DEF NoIo
<1>3. CASE driver = "redis"
  <2>1. Value(val, ExpiresAt(Ttl), e0.id) \in RememberEntry /\ Value(val, ExpiresAt(Ttl), e0.id).val = val
    BY <1>0 DEF RememberEntry, Value
  <2>2. /\ disk' = [disk EXCEPT ![Item] = Value(val, ExpiresAt(Ttl), e0.id)]
        /\ call' = [call EXCEPT ![c] = next]
    BY <1>3 DEF Write
  <2>3. QED
    BY <1>2, <2>1, <2>2 DEF Storing
<1>4. CASE driver = "file"
  <2> DEFINE n == [next EXCEPT !.io = [io0 EXCEPT !.op = "fill"]]
  <2>1. Emptied(e0.id) \in RememberEntry /\ Emptied(e0.id).is # "value"
    BY <1>0 DEF RememberEntry, Emptied
  <2>2. n \in RememberCall /\ n.pc = next.pc /\ n.got = next.got /\ n.over = next.over
        /\ n.io.key = Item /\ n.io.val = val
    BY <1>1 DEF RememberCall, RememberIo, Ops
  <2>3. /\ disk' = [disk EXCEPT ![Item] = Emptied(e0.id)]
        /\ call' = [call EXCEPT ![c] = n]
    BY <1>4 DEF Write
  <2> HIDE DEF n
  <2>4. QED
    BY <2>1, <2>2, <2>3
<1>5. CASE driver = "database"
  <2> DEFINE n == [next EXCEPT !.io = [io0 EXCEPT !.op = "save", !.had = e0.is = "value"]]
  <2>2. n \in RememberCall /\ n.pc = next.pc /\ n.got = next.got /\ n.over = next.over
        /\ n.io.key = Item /\ n.io.val = val
    BY <1>1 DEF RememberCall, RememberIo, Ops
  <2>3. /\ disk' = disk
        /\ call' = [call EXCEPT ![c] = n]
    BY <1>5 DEF Write
  <2>4. disk' = [disk EXCEPT ![Item] = e0]
    BY <2>3 DEF RememberTypes
  <2> HIDE DEF n
  <2>5. QED
    BY <1>0, <2>2, <2>3, <2>4
<1>6. QED
  BY <1>3, <1>4, <1>5 DEF RememberTypes, Drivers

\* One call goes on, the rest stay: what each call is about to store is
\* excused, and so is what the store holds.
LEMMA OneCallGoesOn ==
    ASSUME RememberInv, NEW c \in Calls, NEW n \in RememberCall, NEW e \in RememberEntry,
           call' = [call EXCEPT ![c] = n], disk' = [disk EXCEPT ![Item] = e],
           driver' = driver, now' = now, source' = source, starts' \in Nat,
           call[c].pc = "forget" => n.pc = "forget",
           n.io.op # "none" => n.io.key = Item,
           n.pc = "keep" => n.got \in Remembered /\ Excused(n.got, n.over),
           Storing(n.io) => n.io.val \in Remembered /\ Excused(n.io.val, n.io.val.over) /\ n.pc = "return",
           e.is = "value" => e.val \in Remembered /\ Excused(e.val, e.val.over)
    PROVE  RememberInv'
<1>1. RememberTypes'
  BY DEF RememberInv, RememberTypes
<1>2. \A d \in Calls : call'[d] = IF d = c THEN n ELSE call[d]
  BY DEF RememberInv, RememberTypes
<1>3. disk'[Item] = e
  BY CacheAssumption DEF RememberInv, RememberTypes
<1>4. RememberShape'
  BY <1>2, <1>3 DEF RememberInv, RememberShape, Storing
<1>5. Forgetting => Forgetting'
  BY <1>2 DEF Forgetting
<1>6. \A v, over : Excused(v, over) => Excused(v, over)'
  BY <1>5 DEF Excused
<1>7. StaleInv'
  <2>1. \A d \in Calls : call'[d].pc = "keep" => Excused(call'[d].got, call'[d].over)
    BY <1>2 DEF RememberInv, StaleInv
  <2>2. \A d \in Calls : Storing(call'[d].io) => Excused(call'[d].io.val, call'[d].io.val.over)
    BY <1>2 DEF RememberInv, StaleInv
  <2>3. disk'[Item].is = "value" => Excused(disk'[Item].val, disk'[Item].val.over)
    BY <1>3
  <2>4. QED
    BY <1>5, <2>1, <2>2, <2>3 DEF StaleInv, Excused
<1>8. QED
  BY <1>1, <1>4, <1>7 DEF RememberInv

LEMMA EntryStays == RememberInv => disk[Item] \in RememberEntry /\ disk = [disk EXCEPT ![Item] = disk[Item]]
                      /\ (disk[Item].is = "value" => disk[Item].val \in Remembered
                                                     /\ Excused(disk[Item].val, disk[Item].val.over))
BY CacheAssumption DEF RememberInv, RememberTypes, RememberShape, StaleInv

LEMMA RememberKept == ASSUME RememberInv, NEW c \in Calls, Remember(c) PROVE RememberInv'
<1> USE DEF At
<1>0. Fresh \in RememberCall /\ Fresh.io = NoIo /\ NoIo.op = "none"
  BY DEF Fresh, RememberCall, RememberIo, NoIo, Ops, RememberPcs
<1>00. call[c] \in RememberCall
  BY DEF RememberInv, RememberTypes
<1>1. CASE Start(c, [Fresh EXCEPT !.pc = "look"])
  <2> DEFINE n == [Fresh EXCEPT !.pc = "look"]
  <2>1. n \in RememberCall /\ n.pc = "look" /\ n.io = NoIo
    BY <1>0 DEF RememberCall, RememberPcs
  <2>2. /\ call' = [call EXCEPT ![c] = n] /\ disk' = disk /\ starts' \in Nat
        /\ UNCHANGED <<driver, now, source>> /\ call[c].pc # "forget"
    BY <1>1 DEF Start, RememberInv, RememberTypes
  <2> HIDE DEF n
  <2>3. QED
    BY <1>0, <2>1, <2>2, EntryStays, OneCallGoesOn DEF Storing
<1>2. CASE At(c, "look") /\ Read(c, Item, [call[c] EXCEPT !.got = Held(Item),
                                  !.pc = IF Held(Item) # Null THEN "return" ELSE "compute"])
           /\ UNCHANGED <<driver, now, source, starts>>
  <2> DEFINE next == [call[c] EXCEPT !.got = Held(Item), !.pc = IF Held(Item) # Null THEN "return" ELSE "compute"]
  <2>1. Held(Item) \in Remembered \cup {Null}
    BY EntryStays DEF Held
  <2>2. next \in RememberCall /\ next.pc # "keep" /\ next.io.op = "none"
    BY <1>00, <1>2, <2>1 DEF RememberCall, RememberPcs
  <2>3. Read(c, Item, next) /\ UNCHANGED <<driver, now, source, starts>>
    BY <1>2
  <2> HIDE DEF next
  <2>4. PICK n \in RememberCall : /\ call' = [call EXCEPT ![c] = n]
                                  /\ n.pc = next.pc /\ n.got = next.got /\ n.over = next.over
                                  /\ ~Storing(n.io) /\ (n.io.op # "none" => n.io.key = Item)
    BY <2>2, <2>3, ReadType DEF RememberInv
  <2>5. disk' = disk
    BY <2>2, <2>3, ReadType DEF RememberInv
  <2>6. QED
    BY <1>2, <2>2, <2>3, <2>4, <2>5, EntryStays, OneCallGoesOn DEF RememberInv, RememberTypes
<1>3. CASE /\ At(c, "compute")
           /\ call' = [call EXCEPT ![c].got = [version |-> source, over |-> FALSE], ![c].pc = "keep"]
           /\ UNCHANGED <<driver, disk, now, source, starts>>
  <2> DEFINE n == [call[c] EXCEPT !.got = [version |-> source, over |-> FALSE], !.pc = "keep"]
  <2>1. [version |-> source, over |-> FALSE] \in Remembered
    BY DEF Remembered, RememberInv, RememberTypes
  <2>2. n \in RememberCall /\ n.io.op = "none" /\ n.got \in Remembered /\ n.got.version = source
    BY <1>00, <1>3, <2>1 DEF RememberCall, RememberPcs
  <2>3. call' = [call EXCEPT ![c] = n]
    BY <1>3
  <2>4. Excused(n.got, n.over) /\ ~Storing(n.io)
    BY <2>2 DEF Excused, Storing
  <2> HIDE DEF n
  <2>5. QED
    <3>1. starts' \in Nat /\ call[c].pc # "forget" /\ UNCHANGED <<driver, disk, now, source>>
      BY <1>3 DEF RememberInv, RememberTypes
    <3>2. QED
      BY <2>2, <2>3, <2>4, <3>1, EntryStays, OneCallGoesOn
<1>4. CASE /\ At(c, "keep")
           /\ Write(c, Item, [call[c].got EXCEPT !.over = call[c].over], Ttl, [call[c] EXCEPT !.pc = "return"])
           /\ UNCHANGED <<driver, now, source, starts>>
  <2> DEFINE next == [call[c] EXCEPT !.pc = "return"]
             val == [call[c].got EXCEPT !.over = call[c].over]
  <2>1. call[c].got \in Remembered /\ Excused(call[c].got, call[c].over) /\ call[c].over \in BOOLEAN
    BY <1>00, <1>4 DEF RememberInv, RememberShape, StaleInv, RememberCall
  <2>2. val \in Remembered /\ val.version = call[c].got.version /\ val.over = call[c].over
    BY <2>1 DEF Remembered
  <2>3. Excused(val, val.over)
    BY <2>1, <2>2 DEF Excused
  <2>4. next \in RememberCall /\ next.pc = "return" /\ next.io.op = "none"
    BY <1>00, <1>4 DEF RememberCall, RememberPcs
  <2>5. Write(c, Item, val, Ttl, next) /\ UNCHANGED <<driver, now, source, starts>>
    BY <1>4
  <2> HIDE DEF next, val
  <2>6. PICK n \in RememberCall, e \in RememberEntry :
              /\ call' = [call EXCEPT ![c] = n] /\ disk' = [disk EXCEPT ![Item] = e]
              /\ n.pc = next.pc /\ n.got = next.got /\ n.over = next.over
              /\ n.io.op # "none" => n.io.key = Item
              /\ Storing(n.io) => n.io.val = val
              /\ e.is = "value" => e.val = val \/ e = disk[Item]
    BY <2>2, <2>4, <2>5, WriteType DEF RememberInv
  <2>7. e.is = "value" => e.val \in Remembered /\ Excused(e.val, e.val.over)
    BY <2>2, <2>3, <2>6, EntryStays
  <2>8. QED
    BY <1>4, <2>2, <2>3, <2>4, <2>5, <2>6, <2>7, OneCallGoesOn DEF RememberInv, RememberTypes
<1>5. CASE /\ At(c, "return") \/ At(c, "threw")
           /\ call' = [call EXCEPT ![c] = Fresh]
           /\ UNCHANGED <<driver, disk, now, source, starts>>
  <2>1. Fresh.pc = "idle"
    BY DEF Fresh
  <2>2. QED
    BY <1>0, <1>5, <2>1, EntryStays, OneCallGoesOn DEF Storing, RememberInv, RememberTypes
<1>6. QED
  BY <1>1, <1>2, <1>3, <1>4, <1>5 DEF Remember

LEMMA UpdateKept == ASSUME RememberInv, NEW c \in Calls, Update(c) PROVE RememberInv'
<1> USE DEF At
<1>0. Fresh \in RememberCall /\ Fresh.io.op = "none" /\ Fresh.pc = "idle"
  BY DEF Fresh, RememberCall, RememberIo, NoIo, Ops, RememberPcs
<1>00. call[c] \in RememberCall
  BY DEF RememberInv, RememberTypes
<1>1. CASE Start(c, [Fresh EXCEPT !.pc = "change"])
  <2> DEFINE n == [Fresh EXCEPT !.pc = "change"]
  <2>1. n \in RememberCall /\ n.pc = "change" /\ n.io.op = "none"
    BY <1>0 DEF RememberCall, RememberPcs
  <2>2. /\ call' = [call EXCEPT ![c] = n] /\ disk' = disk /\ starts' \in Nat
        /\ UNCHANGED <<driver, now, source>> /\ call[c].pc # "forget"
    BY <1>1 DEF Start, RememberInv, RememberTypes
  <2> HIDE DEF n
  <2>3. QED
    BY <2>1, <2>2, EntryStays, OneCallGoesOn DEF Storing
<1>2. CASE /\ At(c, "change") /\ source < MaxUpdates
           /\ source' = source + 1
           /\ call' = [call EXCEPT ![c].pc = "forget"]
           /\ UNCHANGED <<driver, disk, now, starts>>
  <2>1. call'[c].pc = "forget" /\ call'[c].io = call[c].io /\ call' \in [Calls -> RememberCall]
    BY <1>00, <1>2 DEF RememberInv, RememberTypes, RememberCall, RememberPcs
  <2>2. \A d \in Calls : d # c => call'[d] = call[d]
    BY <1>2 DEF RememberInv, RememberTypes
  <2>3. RememberTypes'
    BY <1>2, <2>1 DEF RememberInv, RememberTypes
  <2>4. RememberShape'
    BY <1>2, <2>1, <2>2 DEF RememberInv, RememberShape
  <2>5. Forgetting'
    BY <2>1 DEF Forgetting
  <2>6. StaleInv'
    BY <2>5 DEF StaleInv, Excused
  <2>7. QED
    BY <2>3, <2>4, <2>6 DEF RememberInv
<1>3. CASE /\ At(c, "forget")
           /\ disk' = [disk EXCEPT ![Item] = IF @.is = "nothing" THEN @ ELSE Nothing(@.id + 1)]
           /\ call' = [Overtaken(call) EXCEPT ![c] = [Fresh EXCEPT !.pc = "return"]]
           /\ UNCHANGED <<driver, now, source, starts>>
  <2> DEFINE n == [Fresh EXCEPT !.pc = "return"]
             o(d) == IF call[d].pc = "keep" THEN [call[d] EXCEPT !.over = TRUE]
                     ELSE IF Storing(call[d].io) /\ call[d].io.key = Item THEN [call[d] EXCEPT !.io.val.over = TRUE]
                     ELSE call[d]
  <2>1. n \in RememberCall /\ n.pc = "return" /\ n.io.op = "none"
    BY <1>0 DEF RememberCall, RememberPcs
  <2>2. \A d \in Calls : call'[d] = IF d = c THEN n ELSE o(d)
    BY <1>3 DEF Overtaken, Storing
  <2>3. ASSUME NEW d \in Calls
        PROVE  /\ o(d) \in RememberCall
               /\ o(d).io.op = call[d].io.op /\ o(d).io.key = call[d].io.key /\ o(d).pc = call[d].pc
               /\ o(d).pc = "keep" => o(d).over /\ o(d).got \in Remembered
               /\ o(d).pc # "keep" /\ Storing(o(d).io) => o(d).io.val.over /\ o(d).io.val \in Remembered
    <3>1. /\ call[d] \in RememberCall
          /\ call[d].io.op # "none" => call[d].io.key = Item
          /\ call[d].pc = "keep" => call[d].got \in Remembered
          /\ Storing(call[d].io) => call[d].io.val \in Remembered /\ call[d].pc # "keep"
      BY DEF RememberInv, RememberTypes, RememberShape
    <3>2. CASE call[d].pc = "keep"
      BY <3>1, <3>2 DEF RememberCall
    <3>3. CASE call[d].pc # "keep" /\ Storing(call[d].io) /\ call[d].io.key = Item
      <4>1. [call[d].io.val EXCEPT !.over = TRUE] \in Remembered /\ [call[d].io.val EXCEPT !.over = TRUE].over
        BY <3>1, <3>3 DEF Remembered
      <4>2. o(d) = [call[d] EXCEPT !.io = [call[d].io EXCEPT !.val = [call[d].io.val EXCEPT !.over = TRUE]]]
        BY <3>1, <3>3 DEF RememberCall, RememberIo
      <4>3. QED
        BY <3>1, <3>3, <4>1, <4>2 DEF RememberCall, RememberIo
    <3>4. CASE call[d].pc # "keep" /\ ~(Storing(call[d].io) /\ call[d].io.key = Item)
      BY <3>1, <3>4 DEF Storing
    <3>5. QED
      BY <3>2, <3>3, <3>4
  <2>4. RememberTypes'
    <3>1. disk' \in [Keys -> RememberEntry]
      BY <1>3, CacheAssumption DEF RememberInv, RememberTypes, RememberEntry, Nothing
    <3>2. DOMAIN call' = Calls /\ call' = [d \in Calls |-> call'[d]]
      BY <1>3 DEF Overtaken
    <3>3. \A d \in Calls : call'[d] \in RememberCall
      BY <2>1, <2>2, <2>3
    <3>4. call' \in [Calls -> RememberCall]
      BY <3>2, <3>3
    <3>5. QED
      BY <1>3, <3>1, <3>4 DEF RememberInv, RememberTypes
  <2>5. disk'[Item].is # "value"
    BY <1>3, CacheAssumption DEF RememberInv, RememberTypes, RememberEntry, Nothing
  <2>6. \A d \in Calls : ~Storing(n.io) /\ (Storing(o(d).io) <=> Storing(call[d].io))
    BY <2>1, <2>3 DEF Storing
  <2>7. \A d \in Calls : call[d].pc = "keep" => ~Storing(call[d].io)
    BY DEF RememberInv, RememberShape
  <2> HIDE DEF n, o
  <2>8. RememberShape'
    <3>1. ASSUME NEW d \in Calls
          PROVE  /\ call'[d].io.op # "none" => call'[d].io.key = Item
                 /\ call'[d].pc = "keep" => call'[d].got \in Remembered
                 /\ Storing(call'[d].io) => call'[d].io.val \in Remembered /\ call'[d].pc = "return"
      <4>1. CASE d = c
        BY <2>1, <2>2, <2>6, <4>1
      <4>2. CASE d # c
        BY <2>2, <2>3, <2>6, <2>7, <4>2 DEF RememberInv, RememberShape
      <4>3. QED
        BY <4>1, <4>2
    <3>2. QED
      BY <2>5, <3>1 DEF RememberShape, Storing
  <2>9. StaleInv'
    <3>1. ASSUME NEW d \in Calls
          PROVE  /\ call'[d].pc = "keep" => call'[d].over
                 /\ Storing(call'[d].io) => call'[d].io.val.over
      BY <2>1, <2>2, <2>3, <2>6, <2>7
    <3>2. QED
      BY <2>5, <3>1 DEF StaleInv, Excused, Storing
  <2>10. QED
    BY <2>4, <2>8, <2>9 DEF RememberInv
<1>4. QED
  BY <1>1, <1>2, <1>3 DEF Update

LEMMA FinishKept == ASSUME RememberInv, NEW c \in Calls, Finish(c) PROVE RememberInv'
<1> DEFINE io == call[c].io
           n == [call[c] EXCEPT !.io = NoIo]
<1>1. /\ io \in RememberIo /\ io.key = Item /\ call[c] \in RememberCall
      /\ Storing(io) => io.val \in Remembered /\ Excused(io.val, io.val.over) /\ call[c].pc = "return"
      /\ call[c].pc = "keep" => call[c].got \in Remembered /\ Excused(call[c].got, call[c].over)
  BY DEF Finish, RememberInv, RememberTypes, RememberShape, StaleInv, RememberCall
<1>2. n \in RememberCall /\ ~Storing(n.io) /\ n.io.op = "none"
      /\ n.pc = call[c].pc /\ n.got = call[c].got /\ n.over = call[c].over
  BY <1>1 DEF RememberCall, RememberIo, NoIo, Ops, Storing
<1>3. [call EXCEPT ![c].io = NoIo] = [call EXCEPT ![c] = n] /\ UNCHANGED <<driver, now, source, starts>>
      /\ disk[Item] \in RememberEntry
  BY CacheAssumption DEF Finish, RememberInv, RememberTypes
<1>4. ASSUME NEW e \in RememberEntry, disk' = [disk EXCEPT ![Item] = e],
             e.is = "value" => e.val \in Remembered /\ Excused(e.val, e.val.over),
             call' = [call EXCEPT ![c] = n]
      PROVE  RememberInv'
  <2>1. starts' \in Nat
    BY <1>3 DEF RememberInv, RememberTypes
  <2> HIDE DEF n
  <2>2. QED
    BY <1>1, <1>2, <1>3, <1>4, <2>1, OneCallGoesOn
<1>5. CASE io.op = "remove" /\ disk' = [disk EXCEPT ![io.key] = IF @.is = "nothing" THEN @ ELSE Nothing(@.id + 1)]
           /\ call' = [call EXCEPT ![c].io = NoIo]
  <2>1. Nothing(disk[Item].id + 1) \in RememberEntry /\ Nothing(disk[Item].id + 1).is # "value"
    BY <1>3 DEF RememberEntry, Nothing
  <2>2. CASE disk[Item].is = "nothing"
    BY <1>1, <1>3, <1>4, <1>5, <2>2, EntryStays
  <2>3. CASE disk[Item].is # "nothing"
    BY <1>1, <1>3, <1>4, <1>5, <2>1, <2>3
  <2>4. QED
    BY <2>2, <2>3
<1>6. ASSUME Storing(io)
      PROVE  /\ Value(io.val, io.exp, io.id) \in RememberEntry
             /\ Value(io.val, io.exp, io.id).val = io.val
  BY <1>1, <1>6 DEF Value, RememberEntry, RememberIo
<1>7. CASE Storing(io) /\ call' = [call EXCEPT ![c].io = NoIo]
           /\ (disk' = disk \/ disk' = [disk EXCEPT ![io.key] = Value(io.val, io.exp, io.id)])
  <2>1. CASE disk' = disk
    BY <1>3, <1>4, <1>7, <2>1, EntryStays
  <2>2. CASE disk' = [disk EXCEPT ![io.key] = Value(io.val, io.exp, io.id)]
    BY <1>1, <1>3, <1>4, <1>6, <1>7, <2>2
  <2>3. QED
    BY <1>7, <2>1, <2>2
<1>8. CASE Storing(io) /\ disk' = disk /\ call' = [[call EXCEPT ![c].io = NoIo] EXCEPT ![c].pc = "threw"]
  <2> DEFINE m == [n EXCEPT !.pc = "threw"]
  <2>1. call' = [call EXCEPT ![c] = m]
    BY <1>3, <1>8 DEF RememberInv, RememberTypes
  <2>2. m \in RememberCall /\ ~Storing(m.io) /\ m.io.op = "none" /\ m.pc = "threw"
    BY <1>2 DEF RememberCall, RememberPcs
  <2>3. starts' \in Nat /\ disk' = disk /\ call[c].pc # "forget"
    BY <1>1, <1>3, <1>8 DEF RememberInv, RememberTypes
  <2> HIDE DEF m, n, io
  <2>4. QED
    BY <1>3, <2>1, <2>2, <2>3, EntryStays, OneCallGoesOn
<1>9. QED
  BY <1>5, <1>7, <1>8, <1>1, <1>3 DEF Finish, Storing

LEMMA RememberInvInit == CacheInit => RememberInv
<1> SUFFICES ASSUME CacheInit PROVE RememberInv
  OBVIOUS
<1>1. Fresh \in RememberCall /\ Fresh.io.op = "none" /\ Fresh.pc = "idle"
  BY DEF Fresh, RememberCall, RememberIo, NoIo, Ops, RememberPcs
<1>2. Nothing(0) \in RememberEntry /\ Nothing(0).is # "value"
  BY DEF Nothing, RememberEntry
<1>3. QED
  BY <1>1, <1>2, CacheAssumption DEF CacheInit, RememberInv, RememberTypes, RememberShape, StaleInv, Storing

LEMMA RememberInvStep == RememberInv /\ [CacheNext]_cacheVars => RememberInv'
<1> SUFFICES ASSUME RememberInv, [CacheNext]_cacheVars PROVE RememberInv'
  OBVIOUS
<1>1. CASE Tick
  <2>1. now' \in Nat /\ UNCHANGED <<driver, disk, call, source, starts>>
    BY <1>1 DEF Tick, RememberInv, RememberTypes
  <2>2. QED
    BY <2>1 DEF RememberInv, RememberTypes, RememberShape, StaleInv, Excused, Forgetting, Storing
<1>2. CASE Clear
  <2>1. disk' \in [Keys -> RememberEntry] /\ disk'[Item].is # "value"
    BY <1>2, CacheAssumption DEF Clear, RememberInv, RememberTypes, RememberEntry, Nothing
  <2>2. starts' \in Nat /\ UNCHANGED <<driver, now, call, source>>
    BY <1>2 DEF Clear, RememberInv, RememberTypes
  <2>3. QED
    BY <2>1, <2>2 DEF RememberInv, RememberTypes, RememberShape, StaleInv, Excused, Forgetting, Storing
<1>3. CASE \E c \in Calls : Remember(c) \/ Update(c) \/ Finish(c)
  BY <1>3, RememberKept, UpdateKept, FinishKept
<1>4. CASE UNCHANGED cacheVars
  BY <1>4 DEF cacheVars, RememberInv, RememberTypes, RememberShape, StaleInv, Excused, Forgetting, Storing
<1>5. QED
  BY <1>1, <1>2, <1>3, <1>4 DEF CacheNext

\* remember keeps nothing out of date once the change that made it so has been
\* told to the cache, unless it was computed before and stored after: for any
\* number of calls, each driver, and whatever expires or is cleared meanwhile.
THEOREM NothingStaleKept == CacheSpec => []StaleOnlyIfOvertaken
<1>1. RememberInv => StaleOnlyIfOvertaken
  BY DEF RememberInv, StaleInv, StaleOnlyIfOvertaken, Held, Excused, Forgetting
<1>2. QED
  BY <1>1, RememberInvInit, RememberInvStep, PTL DEF CacheSpec
-----------------------------------------------------------------------------
(* The rate limiter. *)

\* An entry is live while it can be read.
Live(e) == e.is = "value" /\ ~Expired(e)

AskingPcs == {"tooMany", "limited", "reset", "resetTimer", "hit", "hasTimer", "setTimer", "setCounter",
              "getTimer", "count", "info", "infoTimer", "availableIn", "infoLimited",
              "infoLimitedTimer", "admit", "reject", "threw"}

AskingIo == [op : Ops, key : Keys \cup {Null}, val : Nat \cup {Null}, exp : Nat, id : Nat, had : BOOLEAN]

Asking == [pc : AskingPcs, io : AskingIo, got : Nat, over : BOOLEAN, max : Limits, timer : Nat,
           alone : BOOLEAN, waited : BOOLEAN]

CountEntry == [is : {"nothing", "emptied", "value"}, val : Nat \cup {Null}, exp : Nat, id : Nat]

ThrottleTypes ==
    /\ driver \in Drivers
    /\ disk \in [Keys -> CountEntry]
    /\ now \in Nat /\ starts \in Nat
    /\ call \in [Calls -> {Fresh} \cup Asking]
    /\ admitted \in Seq(Nat) /\ met \in BOOLEAN /\ until \in Nat \cup {Null}

\* What a request is about to store, and when; what is stored are numbers that
\* run out, and the timer's entry says itself when it does.
AskShape(r) ==
    /\ r.io.op # "none" => r.io.key \in {Counter, Timer}
    /\ Storing(r.io) => /\ r.io.val \in Nat /\ r.io.exp # 0
                        /\ \/ r.pc = "setCounter" /\ r.io.key = Timer /\ r.io.val = r.io.exp
                           \/ r.pc = "info" /\ r.io.key = Counter

EntryShape(k, e) == e.is = "value" => e.val \in Nat /\ e.exp # 0 /\ (k = Timer => e.val = e.exp)

ThrottleShape == (\A c \in Calls : AskShape(call[c])) /\ \A k \in {Counter, Timer} : EntryShape(k, disk[k])

\* A request that nobody has overlapped was told the truth about the timer, and
\* is not turned away if it waited: the timer has run out.
TurnedAway == {"availableIn", "infoLimited", "infoLimitedTimer", "reject"}

WaitsWell(r, timer) ==
    r.alone => /\ r.pc \in TurnedAway \ {"availableIn"} /\ timer.is = "value" => timer.exp <= Later(r.timer, now)
               /\ r.waited => /\ r.pc \notin TurnedAway
                              /\ r.pc \in {"tooMany", "limited"} => ~Live(timer)

\* Who is alone is; while a client waits nobody asks, and at the end of its wait
\* the timer has run out.
WaitingInv ==
    /\ \A c, d \in Calls : Busy(c) /\ call[c].alone /\ Busy(d) => c = d
    /\ until # Null => /\ \A c \in Calls : ~Busy(c)
                       /\ disk[Timer].is = "value" => disk[Timer].exp <= until
    /\ \A c \in Calls : Busy(c) => WaitsWell(call[c], disk[Timer])

\* The largest limit.
Top == CHOOSE m \in Limits : \A n \in Limits : m >= n

\* Requests of the window that began at `began` are those after the q-th, those of
\* the one before it those after the p-th.
Windows(p, q, began) ==
    /\ p <= q /\ q <= Len(admitted) /\ began <= now
    /\ q - p <= Top /\ Len(admitted) - q <= Top
    /\ \A i \in 1 .. Len(admitted) : /\ admitted[i] <= now
                                     /\ i <= q => admitted[i] <= began
                                     /\ i <= p => admitted[i] + Decay <= began

\* What holds of the request r under way (Fresh if there is none), the counter's
\* and the timer's entries, when `since` requests of the window have been let
\* through.  The window lasts for as long as the timer is in the cache, or about
\* to be, ...
WindowOpen(r, timer, q, began) ==
    \/ q = 0
    \/ began + Decay <= now
    \/ timer.is = "value" /\ timer.exp = began + Decay
    \/ Storing(r.io) /\ r.io.key = Timer

\* ... the counter outlives the timer and has counted the window's requests, the
\* one about to be let through included, except while it is being written, ...
Admitting == {"info", "infoTimer", "admit"}

CounterHolds(r, count, timer, since) ==
    r.pc # "setCounter" /\ ~Storing(r.io) /\ Live(timer) =>
        /\ count.is = "value" /\ count.exp >= timer.exp /\ count.val >= since
        /\ r.pc \in Admitting => count.val > since

\* ... and the request goes by what it has read.
Phase(r, count, timer, since, began) ==
    /\ r.pc # "threw"
    /\ r.pc = "hit" => (Live(count) => count.val < r.max)
    /\ r.pc = "resetTimer" => count.is # "value"
    /\ r.pc \in {"reset", "resetTimer", "setTimer"} => ~Live(timer)
    /\ r.pc \in {"hasTimer", "setTimer", "setCounter", "getTimer", "count"} => r.got < r.max
    /\ r.pc = "hasTimer" => (Live(timer) => r.got >= since)
    /\ r.pc \in {"getTimer", "count"} => r.got >= since
    /\ r.pc = "setCounter" => since = 0 /\ (timer.is = "value" => timer.exp <= began + Decay)
    /\ r.pc = "count" => (Live(timer) => r.timer = timer.exp)
    /\ r.pc \in Admitting => since < Top

\* Its pending step meets what it left.
HitPending(r, count, timer, since, began) ==
    LET io == r.io
        e == IF io.key = Timer THEN timer ELSE count
    IN /\ io.op = "remove" => ~Live(e)
       /\ io.op = "fill" => e.is = "emptied" /\ e.id = io.id
       /\ io.op = "save" => (io.had <=> e.is = "value")
       /\ Storing(io) /\ io.key = Timer => io.exp = began + Decay
       /\ Storing(io) /\ io.key = Counter => io.val > since /\ (Live(timer) => io.exp >= timer.exp)

Good(r, count, timer, q, began) ==
    LET since == Len(admitted) - q
    IN /\ WindowOpen(r, timer, q, began) /\ CounterHolds(r, count, timer, since)
       /\ Phase(r, count, timer, since, began) /\ HitPending(r, count, timer, since, began)

\* Of the calls cs: one at a time, and the one whose turn it is.
InTurn(cs) == \A c, d \in Calls : cs[c].pc # "idle" /\ cs[d].pc # "idle" => c = d

Turn(cs) == IF \E c \in Calls : cs[c].pc # "idle" THEN cs[CHOOSE c \in Calls : cs[c].pc # "idle"] ELSE Fresh

SerialInv ==
    ~met => /\ InTurn(call)
            /\ SerialRequestsLimited
            /\ \E p, q \in 0 .. Len(admitted), began \in 0 .. now :
                 Windows(p, q, began) /\ Good(Turn(call), disk[Counter], disk[Timer], q, began)

ThrottleInv == ThrottleTypes /\ ThrottleShape /\ WaitingInv /\ SerialInv

\* But for where it is and what it has pending, the request is as it was.
Alike(n, r) == n.got = r.got /\ n.max = r.max /\ n.timer = r.timer /\ n.alone = r.alone /\ n.waited = r.waited

LEMMA TurnIs ==
    ASSUME NEW cs, InTurn(cs), NEW c \in Calls, cs[c].pc # "idle"
    PROVE  Turn(cs) = cs[c]
<1> DEFINE x == CHOOSE d \in Calls : cs[d].pc # "idle"
<1>1. x \in Calls /\ cs[x].pc # "idle"
  OBVIOUS
<1>2. x = c
  BY <1>1 DEF InTurn
<1>3. QED
  BY <1>2 DEF Turn

LEMMA BusyAsks == ASSUME ThrottleTypes, NEW c \in Calls PROVE Busy(c) <=> call[c] \in Asking
<1>1. Fresh.pc = "idle" /\ Fresh \notin Asking
  BY DEF Fresh, Asking, AskingPcs
<1>2. call[c] \in Asking \cup {Fresh}
  BY DEF ThrottleTypes
<1>3. \A r \in Asking : r.pc # "idle"
  BY DEF Asking, AskingPcs
<1>4. QED
  BY <1>1, <1>2, <1>3 DEF Busy

\* A read leaves the request as it is to go on, with an expired entry to remove
\* or nothing pending.
LEMMA AskRead ==
    ASSUME ThrottleTypes, NEW c \in Calls, NEW k \in {Counter, Timer}, NEW next \in Asking,
           next.io.op = "none", Read(c, k, next)
    PROVE  /\ disk' = disk
           /\ \E n \in Asking :
                 /\ call' = [call EXCEPT ![c] = n] /\ n.pc = next.pc /\ Alike(n, next)
                 /\ n.io.op \in {"none", "remove"}
                 /\ n.io.op = "remove" => n.io.key = k /\ ~Live(disk[k])
<1> DEFINE io == [NoIo EXCEPT !.op = "remove", !.key = k]
<1>1. io \in AskingIo /\ io.op = "remove" /\ io.key = k
  BY ThrottleAssumption DEF AskingIo, NoIo, Ops
<1>2. [next EXCEPT !.io = io] \in Asking /\ [next EXCEPT !.io = io].io = io
      /\ [next EXCEPT !.io = io].pc = next.pc /\ Alike([next EXCEPT !.io = io], next)
  BY <1>1 DEF Asking, Alike
<1>3. Alike(next, next)
  BY DEF Alike
<1>4. CASE Expired(disk[k]) /\ driver # "redis"
  <2>1. call' = [call EXCEPT ![c] = [next EXCEPT !.io = io]]
    BY <1>4 DEF Read
  <2>2. ~Live(disk[k]) /\ disk' = disk
    BY <1>4 DEF Live, Read
  <2> HIDE DEF io
  <2>3. QED
    BY <1>1, <1>2, <2>1, <2>2
<1>5. CASE ~(Expired(disk[k]) /\ driver # "redis")
  <2>1. call' = [call EXCEPT ![c] = next] /\ disk' = disk
    BY <1>5 DEF Read
  <2>2. QED
    BY <1>3, <2>1
<1>6. QED
  BY <1>4, <1>5

\* What a write has stored, or has left to be stored in the entry it prepared.
LEMMA AskWrite ==
    ASSUME ThrottleTypes, NEW c \in Calls, NEW k \in {Counter, Timer}, NEW val \in Nat,
           NEW ttl \in Nat \ {0}, NEW next \in Asking, next.io.op = "none", Write(c, k, val, ttl, next)
    PROVE  \E n \in Asking, e \in CountEntry :
              /\ call' = [call EXCEPT ![c] = n] /\ disk' = [disk EXCEPT ![k] = e]
              /\ n.pc = next.pc /\ Alike(n, next)
              /\ \/ n.io.op = "none" /\ e.is = "value" /\ e.val = val /\ e.exp = now + ttl
                 \/ /\ Storing(n.io) /\ n.io.key = k /\ n.io.val = val /\ n.io.exp = now + ttl
                    /\ n.io.op = "fill" => e.is = "emptied" /\ e.id = n.io.id
                    /\ n.io.op = "save" => e = disk[k] /\ (n.io.had <=> e.is = "value")
<1> DEFINE e0 == disk[k]
           io0 == [NoIo EXCEPT !.key = k, !.val = val, !.exp = ExpiresAt(ttl), !.id = e0.id]
<1>0. e0 \in CountEntry /\ ExpiresAt(ttl) = now + ttl /\ now + ttl \in Nat /\ k \in Keys
  BY ThrottleAssumption DEF ThrottleTypes, ExpiresAt
<1>1. io0 \in AskingIo /\ io0.key = k /\ io0.val = val /\ io0.exp = now + ttl /\ io0.id = e0.id
  BY <1>0 DEF AskingIo, CountEntry, NoIo, Ops
<1>3. CASE driver = "redis"
  <2> DEFINE e == Value(val, ExpiresAt(ttl), e0.id)
  <2>1. e \in CountEntry /\ e.is = "value" /\ e.val = val /\ e.exp = now + ttl
    BY <1>0 DEF CountEntry, Value
  <2>2. disk' = [disk EXCEPT ![k] = e] /\ call' = [call EXCEPT ![c] = next] /\ Alike(next, next)
    BY <1>3 DEF Write, Alike
  <2> HIDE DEF e
  <2>3. QED
    BY <2>1, <2>2
<1>4. CASE driver = "file"
  <2> DEFINE io == [io0 EXCEPT !.op = "fill"]
             n == [next EXCEPT !.io = io]
             e == Emptied(e0.id)
  <2>1. e \in CountEntry /\ e.is = "emptied" /\ e.id = e0.id
    BY <1>0 DEF CountEntry, Emptied
  <2>2. io \in AskingIo /\ Storing(io) /\ io.op # "save" /\ io.key = k /\ io.val = val
        /\ io.exp = now + ttl /\ io.id = e0.id
    BY <1>1 DEF AskingIo, Ops, Storing
  <2>3. disk' = [disk EXCEPT ![k] = e] /\ call' = [call EXCEPT ![c] = n]
    BY <1>4 DEF Write
  <2> HIDE DEF io, e, io0, e0
  <2>4. n \in Asking /\ n.io = io /\ n.pc = next.pc /\ Alike(n, next)
    BY <2>2 DEF Asking, Alike
  <2> HIDE DEF n
  <2>5. QED
    BY <2>1, <2>2, <2>3, <2>4
<1>5. CASE driver = "database"
  <2> DEFINE io == [io0 EXCEPT !.op = "save", !.had = e0.is = "value"]
             n == [next EXCEPT !.io = io]
  <2>2. io \in AskingIo /\ Storing(io) /\ io.op # "fill" /\ io.key = k /\ io.val = val
        /\ io.exp = now + ttl /\ (io.had <=> e0.is = "value")
    BY <1>1 DEF AskingIo, Ops, Storing
  <2>3. disk' = [disk EXCEPT ![k] = e0] /\ call' = [call EXCEPT ![c] = n]
    <3>1. disk' = disk /\ call' = [call EXCEPT ![c] = n]
      BY <1>5 DEF Write
    <3>2. disk = [disk EXCEPT ![k] = e0]
      BY DEF ThrottleTypes
    <3>3. QED
      BY <3>1, <3>2
  <2> HIDE DEF io, io0
  <2>4. n \in Asking /\ n.io = io /\ n.pc = next.pc /\ Alike(n, next)
    BY <2>2 DEF Asking, Alike
  <2> HIDE DEF n
  <2>5. QED
    BY <1>0, <2>2, <2>3, <2>4
<1>6. QED
  BY <1>3, <1>4, <1>5 DEF ThrottleTypes, Drivers

\* A deleted entry is not there.
LEMMA AskDelete ==
    ASSUME ThrottleTypes, NEW k \in {Counter, Timer},
           disk' = [disk EXCEPT ![k] = IF @.is = "nothing" THEN @ ELSE Nothing(@.id + 1)]
    PROVE  \E e \in CountEntry : disk' = [disk EXCEPT ![k] = e] /\ e.is # "value"
<1>0. disk[k] \in CountEntry
  BY ThrottleAssumption DEF ThrottleTypes
<1>1. Nothing(disk[k].id + 1) \in CountEntry /\ Nothing(disk[k].id + 1).is # "value"
  BY <1>0 DEF CountEntry, Nothing
<1>2. CASE disk[k].is = "nothing"
  BY <1>0, <1>2
<1>3. CASE disk[k].is # "nothing"
  BY <1>1, <1>3
<1>4. QED
  BY <1>2, <1>3

\* A pending step removes the entry or stores the value, as it was prepared to:
\* if the entry is not as it left it, nothing is stored or the cache throws.
LEMMA AskFinish ==
    ASSUME ThrottleTypes, ThrottleShape, NEW c \in Calls, Finish(c)
    PROVE  LET r == call[c]
               k == r.io.key
           IN /\ r \in Asking /\ k \in {Counter, Timer}
              /\ UNCHANGED <<driver, now, source, starts>>
              /\ \E n \in Asking, e \in CountEntry :
                    /\ call' = [call EXCEPT ![c] = n] /\ disk' = [disk EXCEPT ![k] = e]
                    /\ n.io.op = "none" /\ Alike(n, r) /\ n.pc \in {r.pc, "threw"}
                    /\ r.io.op = "remove" => e.is # "value" /\ n.pc = r.pc
                    /\ r.io.op # "remove" => /\ Storing(r.io)
                                             /\ e = disk[k] \/ (e.is = "value" /\ e.val = r.io.val /\ e.exp = r.io.exp)
                    /\ (\/ r.io.op = "fill" /\ disk[k].id = r.io.id
                        \/ r.io.op = "save" /\ (r.io.had <=> disk[k].is = "value"))
                       => n.pc = r.pc /\ e.is = "value" /\ e.val = r.io.val /\ e.exp = r.io.exp
<1> DEFINE r == call[c]
           io == r.io
           k == r.io.key
           v == Value(io.val, io.exp, io.id)
           done == [r EXCEPT !.io = NoIo]
<1>0. NoIo.op = "none" /\ NoIo \in AskingIo
  BY DEF NoIo, AskingIo, Ops
<1>1. r \in Asking
  <2>1. io.op # "none"
    BY DEF Finish
  <2>2. Fresh.io.op = "none" /\ call[c] \in Asking \cup {Fresh}
    BY <1>0 DEF Fresh, ThrottleTypes
  <2>3. QED
    BY <2>1, <2>2
<1>2. /\ io.op \in Ops \ {"none"} /\ k \in {Counter, Timer} /\ io \in AskingIo
      /\ UNCHANGED <<driver, now, source, starts>>
  BY <1>1 DEF Finish, ThrottleShape, AskShape, Asking, AskingIo
<1>3. disk[k] \in CountEntry /\ disk = [disk EXCEPT ![k] = disk[k]]
  BY <1>2, ThrottleAssumption DEF ThrottleTypes
<1>4. [call EXCEPT ![c].io = NoIo] = [call EXCEPT ![c] = done]
  OBVIOUS
<1>5. v \in CountEntry /\ v.is = "value" /\ v.val = io.val /\ v.exp = io.exp
  BY <1>2 DEF AskingIo, Value, CountEntry
<1>6. done \in Asking /\ done.io.op = "none" /\ Alike(done, r) /\ done.pc = r.pc
  BY <1>0, <1>1 DEF Asking, Alike
<1> DEFINE meets == \/ io.op = "fill" /\ disk[k].id = io.id
                    \/ io.op = "save" /\ (io.had <=> disk[k].is = "value")
           Ended(n, e) ==
              /\ call' = [call EXCEPT ![c] = n] /\ disk' = [disk EXCEPT ![k] = e]
              /\ n.io.op = "none" /\ Alike(n, r) /\ n.pc \in {r.pc, "threw"}
              /\ io.op = "remove" => e.is # "value" /\ n.pc = r.pc
              /\ io.op # "remove" => /\ Storing(io)
                                     /\ e = disk[k] \/ (e.is = "value" /\ e.val = io.val /\ e.exp = io.exp)
              /\ meets => n.pc = r.pc /\ e.is = "value" /\ e.val = io.val /\ e.exp = io.exp
<1>7. ASSUME io.op = "remove"
      PROVE  \E n \in Asking, e \in CountEntry : Ended(n, e)
  <2>1. disk' = [disk EXCEPT ![k] = IF @.is = "nothing" THEN @ ELSE Nothing(@.id + 1)]
        /\ call' = [call EXCEPT ![c] = done]
    BY <1>4, <1>7 DEF Finish
  <2>2. PICK e \in CountEntry : disk' = [disk EXCEPT ![k] = e] /\ e.is # "value"
    BY <1>2, <2>1, AskDelete
  <2>3. Ended(done, e)
    BY <1>6, <1>7, <2>1, <2>2
  <2> HIDE DEF done, Ended
  <2>4. QED
    BY <1>6, <2>3
<1>8. ASSUME Storing(io), meets
      PROVE  \E n \in Asking, e \in CountEntry : Ended(n, e)
  <2>1. disk' = [disk EXCEPT ![k] = v] /\ call' = [call EXCEPT ![c].io = NoIo]
    <3>1. CASE io.op = "fill" /\ disk[k].id = io.id
      BY <3>1 DEF Finish
    <3>2. CASE io.op = "save" /\ io.had /\ disk[k].is = "value"
      BY <3>2 DEF Finish
    <3>3. CASE io.op = "save" /\ ~io.had /\ disk[k].is # "value"
      BY <3>3 DEF Finish
    <3>4. QED
      BY <1>2, <1>8, <3>1, <3>2, <3>3 DEF AskingIo
  <2>2. Ended(done, v)
    <3> HIDE DEF done, v
    <3>1. QED
      BY <1>4, <1>5, <1>6, <1>8, <2>1 DEF Storing
  <2> HIDE DEF done, v, Ended
  <2>3. QED
    BY <1>5, <1>6, <2>2
<1>9. ASSUME Storing(io), ~meets
      PROVE  \E n \in Asking, e \in CountEntry : Ended(n, e)
  <2> DEFINE m == [done EXCEPT !.pc = "threw"]
  <2>1. m \in Asking /\ m.io.op = "none" /\ Alike(m, r) /\ m.pc = "threw"
    BY <1>6 DEF Asking, AskingPcs, Alike
  <2>2. [[call EXCEPT ![c].io = NoIo] EXCEPT ![c].pc = "threw"] = [call EXCEPT ![c] = m]
    BY DEF ThrottleTypes
  <2>3. disk' = disk /\ \/ call' = [call EXCEPT ![c].io = NoIo]
                        \/ call' = [[call EXCEPT ![c].io = NoIo] EXCEPT ![c].pc = "threw"]
    <3>1. CASE io.op = "fill" /\ disk[k].id # io.id
      BY <3>1 DEF Finish
    <3>2. CASE io.op = "save" /\ io.had /\ disk[k].is # "value"
      BY <3>2 DEF Finish
    <3>3. CASE io.op = "save" /\ ~io.had /\ disk[k].is = "value"
      BY <3>3 DEF Finish
    <3>4. QED
      <4>1. io.op = "fill" \/ io.op = "save"
        BY <1>9 DEF Storing
      <4>2. io.op = "fill" => disk[k].id # io.id
        BY <1>9
      <4>3. io.op = "save" => (io.had /\ disk[k].is # "value") \/ (~io.had /\ disk[k].is = "value")
        <5>1. io.had \in BOOLEAN /\ ~(io.op = "save" /\ (io.had <=> disk[k].is = "value"))
          BY <1>2, <1>9 DEF AskingIo
        <5>2. QED
          BY <5>1, Zenon
      <4>4. QED
        BY <3>1, <3>2, <3>3, <4>1, <4>2, <4>3
  <2>4. Ended(done, disk[k]) \/ Ended(m, disk[k])
    <3>1. io.op # "remove"
      BY <1>9 DEF Storing
    <3>2. CASE call' = [call EXCEPT ![c] = done]
      <4> HIDE DEF done, m, meets
      <4>1. Ended(done, disk[k])
        BY <1>3, <1>6, <1>9, <2>3, <3>1, <3>2
      <4>2. QED
        BY <4>1
    <3>3. CASE call' = [call EXCEPT ![c] = m]
      <4> HIDE DEF done, m, meets
      <4>1. Ended(m, disk[k])
        BY <1>3, <1>9, <2>1, <2>3, <3>1, <3>3
      <4>2. QED
        BY <4>1
    <3>4. QED
      BY <1>4, <2>2, <2>3, <3>2, <3>3
  <2> HIDE DEF done, m, Ended
  <2>5. QED
    BY <1>3, <1>6, <2>1, <2>4
<1>10. io.op = "remove" \/ Storing(io)
  BY <1>2 DEF Ops, Storing
<1>11. \E n \in Asking, e \in CountEntry : Ended(n, e)
  <2> HIDE DEF Ended, meets
  <2>1. QED
    BY <1>7, <1>8, <1>9, <1>10
<1>12. QED
  BY <1>1, <1>2, <1>11, Zenon

\* One request goes on and the others stay.
LEMMA OneAskGoesOn ==
    ASSUME ThrottleInv, NEW c \in Calls, Busy(c), NEW n \in Asking,
           NEW k \in {Counter, Timer}, NEW e \in CountEntry, NEW count, NEW timer,
           call' = [call EXCEPT ![c] = n], disk' = [disk EXCEPT ![k] = e],
           count = IF k = Counter THEN e ELSE disk[Counter], timer = IF k = Timer THEN e ELSE disk[Timer],
           UNCHANGED <<driver, now, starts, admitted, met, until>>,
           AskShape(n), EntryShape(k, e), n.alone = call[c].alone, WaitsWell(n, timer),
           ~met => \A p, q \in 0 .. Len(admitted), began \in 0 .. now :
              Windows(p, q, began) /\ Good(call[c], disk[Counter], disk[Timer], q, began) =>
                 \E p2, q2 \in 0 .. Len(admitted), began2 \in 0 .. now :
                    Windows(p2, q2, began2) /\ Good(n, count, timer, q2, began2)
    PROVE  ThrottleInv'
<1>0. /\ call \in [Calls -> {Fresh} \cup Asking] /\ disk \in [Keys -> CountEntry]
      /\ k \in Keys /\ Counter \in Keys /\ Timer \in Keys /\ n.pc # "idle" /\ Counter # Timer
  BY ThrottleAssumption DEF ThrottleInv, ThrottleTypes, Asking, AskingPcs, Counter, Timer
<1>1. /\ call'[c] = n /\ \A d \in Calls \ {c} : call'[d] = call[d]
      /\ \A d \in Calls : call'[d].pc # "idle" <=> call[d].pc # "idle"
      /\ \A d \in Calls : call'[d].pc # "idle" => call'[d].alone = call[d].alone
  BY <1>0 DEF Busy
<1>2. disk'[Counter] = count /\ disk'[Timer] = timer
  BY <1>0
<1>3. ThrottleTypes'
  BY <1>0 DEF ThrottleInv, ThrottleTypes
<1>4. ThrottleShape'
  <2>1. \A d \in Calls : AskShape(call'[d])
    BY <1>1 DEF ThrottleInv, ThrottleShape
  <2>2. \A j \in {Counter, Timer} : EntryShape(j, disk'[j])
    BY <1>0, <1>2 DEF ThrottleInv, ThrottleShape
  <2>3. QED
    BY <2>1, <2>2 DEF ThrottleShape, AskShape, EntryShape, Storing
<1>5. WaitingInv'
  <2>1. \A d, f \in Calls : Busy(d)' /\ call'[d].alone /\ Busy(f)' => d = f
    BY <1>1 DEF ThrottleInv, WaitingInv, Busy
  <2>2. until = Null /\ until' = Null
    BY DEF ThrottleInv, WaitingInv
  <2>3. ASSUME NEW d \in Calls, Busy(d)' PROVE WaitsWell(call[d], disk[Timer])'
    <3>1. CASE d = c
      BY <1>1, <1>2, <3>1 DEF WaitsWell, Live, Expired, Later
    <3>2. CASE d # c
      <4>1. ~call'[d].alone
        BY <1>1, <2>1, <2>3, <3>2 DEF Busy
      <4>2. QED
        BY <4>1 DEF WaitsWell
    <3>3. QED
      BY <3>1, <3>2
  <2>4. QED
    BY <2>1, <2>2, <2>3 DEF WaitingInv
<1>6. SerialInv'
  <2> SUFFICES ASSUME ~met PROVE SerialInv'
    BY DEF SerialInv
  <2>1. InTurn(call) /\ SerialRequestsLimited
    BY DEF ThrottleInv, SerialInv
  <2>2. InTurn(call')
    BY <1>1, <2>1 DEF InTurn
  <2>3. Turn(call) = call[c] /\ Turn(call') = n
    BY <1>1, <2>1, <2>2, TurnIs DEF Busy
  <2>4. PICK p2, q2 \in 0 .. Len(admitted), began2 \in 0 .. now :
              Windows(p2, q2, began2) /\ Good(n, count, timer, q2, began2)
    BY <2>3 DEF ThrottleInv, SerialInv
  <2>5. Windows(p2, q2, began2)'
    BY <2>4 DEF Windows
  <2>6. Good(n, count, timer, q2, began2)'
    BY SMTT(30), <2>4 DEF Good, WindowOpen, CounterHolds, Phase, HitPending, Live, Expired
  <2>7. SerialRequestsLimited'
    BY <2>1 DEF SerialRequestsLimited
  <2>8. p2 \in 0 .. Len(admitted') /\ q2 \in 0 .. Len(admitted') /\ began2 \in 0 .. now'
    OBVIOUS
  <2>9. Good(Turn(call), disk[Counter], disk[Timer], q2, began2)'
    BY <1>2, <2>3, <2>6
  <2>10. QED
    BY <2>2, <2>5, <2>7, <2>8, <2>9 DEF SerialInv
<1>7. QED
  BY <1>3, <1>4, <1>5, <1>6 DEF ThrottleInv

LEMMA EntriesThere == ThrottleTypes => /\ disk[Counter] \in CountEntry /\ disk[Timer] \in CountEntry
                                       /\ Counter # Timer
BY ThrottleAssumption DEF ThrottleTypes, Counter, Timer

\* A read: the request goes by what it has read, and may have to remove an
\* entry that has run out.
LEMMA ReadGoesOn ==
    ASSUME ThrottleInv, NEW c \in Calls, call[c] \in Asking, call[c].io.op = "none", call[c].pc # "setCounter",
           NEW k \in {Counter, Timer}, NEW next \in Asking, next.io.op = "none", Read(c, k, next),
           UNCHANGED <<driver, now, starts, admitted, met, until>>,
           next.alone = call[c].alone, WaitsWell(next, disk[Timer]),
           next.pc \in Admitting => call[c].pc \in Admitting,
           \A q \in 0 .. Len(admitted), began \in 0 .. now :
              Good(call[c], disk[Counter], disk[Timer], q, began) =>
                 Phase(next, disk[Counter], disk[Timer], Len(admitted) - q, began)
    PROVE  ThrottleInv'
<1>1. ThrottleTypes /\ disk' = disk
  BY AskRead DEF ThrottleInv
<1>2. PICK n \in Asking : /\ call' = [call EXCEPT ![c] = n] /\ n.pc = next.pc /\ Alike(n, next)
                          /\ n.io.op \in {"none", "remove"}
                          /\ n.io.op = "remove" => n.io.key = k /\ ~Live(disk[k])
  BY <1>1, AskRead
<1>3. /\ disk[k] \in CountEntry /\ disk' = [disk EXCEPT ![k] = disk[k]] /\ EntryShape(k, disk[k])
      /\ Counter # Timer
  BY <1>1, EntriesThere DEF ThrottleTypes, ThrottleInv, ThrottleShape
<1>4. disk[Counter] = (IF k = Counter THEN disk[k] ELSE disk[Counter])
      /\ disk[Timer] = (IF k = Timer THEN disk[k] ELSE disk[Timer])
  OBVIOUS
<1>5. AskShape(n) /\ ~Storing(n.io)
  BY <1>2 DEF AskShape, Storing
<1>6. n.alone = call[c].alone /\ WaitsWell(n, disk[Timer])
  BY <1>2 DEF Alike, WaitsWell
<1>7. ASSUME NEW q \in 0 .. Len(admitted), NEW began \in 0 .. now,
             Good(call[c], disk[Counter], disk[Timer], q, began)
      PROVE  Good(n, disk[Counter], disk[Timer], q, began)
  <2> DEFINE since == Len(admitted) - q
             count == disk[Counter]
             timer == disk[Timer]
  <2>1. ~Storing(call[c].io)
    BY DEF Storing
  <2>2. WindowOpen(n, timer, q, began)
    BY <1>7, <2>1 DEF Good, WindowOpen
  <2>3. CounterHolds(n, count, timer, since)
    BY <1>2, <1>7, <2>1 DEF Good, CounterHolds
  <2>4. Phase(n, count, timer, since, began)
    <3>1. Phase(next, count, timer, since, began)
      BY <1>7
    <3> HIDE DEF since, count, timer
    <3>2. QED
      BY <1>2, <3>1 DEF Phase, Alike
  <2>5. HitPending(n, count, timer, since, began)
    BY <1>2, <1>3, <1>5 DEF HitPending, Storing
  <2>6. QED
    BY <2>2, <2>3, <2>4, <2>5 DEF Good
<1>8. Busy(c)
  BY <1>1, BusyAsks
<1>9. QED
  BY <1>2, <1>3, <1>4, <1>5, <1>6, <1>7, <1>8, OneAskGoesOn

\* An entry is held for as long as it is live; what the timer's holds is when it
\* runs out.
LEMMA HeldIsLive ==
    ASSUME ThrottleInv
    PROVE  /\ \A k \in {Counter, Timer} : /\ Held(k) = Null <=> ~Live(disk[k])
                                          /\ Live(disk[k]) => Held(k) = disk[k].val /\ Held(k) \in Nat
           /\ Live(disk[Timer]) => Held(Timer) = disk[Timer].exp
           /\ Live(disk[Counter]) => Attempts = disk[Counter].val
           /\ ~Live(disk[Counter]) => Attempts = 0
           /\ Attempts \in Nat
<1>1. \A k \in {Counter, Timer} : EntryShape(k, disk[k])
  BY DEF ThrottleInv, ThrottleShape
<1>2. \A k \in {Counter, Timer} : /\ Held(k) = Null <=> ~Live(disk[k])
                                  /\ Live(disk[k]) => Held(k) = disk[k].val /\ Held(k) \in Nat
  BY <1>1, ThrottleAssumption DEF Held, Live, EntryShape
<1>3. Live(disk[Timer]) => Held(Timer) = disk[Timer].exp
  BY <1>1, <1>2 DEF EntryShape, Live
<1>4. QED
  BY <1>2, <1>3, ThrottleAssumption DEF Attempts

LEMMA LimitFacts == \A m \in Limits : m \in Nat \ {0} /\ Top \in Limits /\ m <= Top
<1>1. PICK x \in Limits : \A n \in Limits : x >= n
  BY ThrottleAssumption
<1>2. Top \in Limits /\ \A n \in Limits : Top >= n
  BY <1>1 DEF Top
<1>3. Top \in Nat /\ \A m \in Limits : m \in Nat \ {0}
  BY <1>2, ThrottleAssumption
<1>4. QED
  BY <1>2, <1>3

\* What the request whose turn it is knows.
LEMMA MyTurn ==
    ASSUME ThrottleInv, NEW c \in Calls, NEW pc \in AskingPcs, At(c, pc)
    PROVE  /\ call[c] \in Asking /\ call[c].pc = pc /\ call[c].io.op = "none" /\ Busy(c)
           /\ WaitsWell(call[c], disk[Timer])
<1>1. call[c].pc = pc /\ call[c].io.op = "none" /\ Busy(c)
  BY DEF At, Busy, AskingPcs
<1>2. QED
  BY <1>1, BusyAsks DEF ThrottleInv, WaitingInv

\* Whether an entry is live, by the clock.
LEMMA LiveWhen ==
    ASSUME ThrottleInv, NEW k \in {Counter, Timer}, disk[k].is = "value"
    PROVE  /\ disk[k].exp \in Nat \ {0} /\ disk[k].val \in Nat /\ now \in Nat
           /\ Live(disk[k]) => now <= disk[k].exp
           /\ ~Live(disk[k]) => disk[k].exp <= now
           /\ k = Counter /\ Live(disk[Timer]) /\ disk[k].exp >= disk[Timer].exp => Live(disk[k])
<1>1. /\ disk[k].exp \in Nat \ {0} /\ disk[k].val \in Nat /\ now \in Nat /\ disk[Timer].exp \in Nat
  BY EntriesThere DEF ThrottleInv, ThrottleTypes, ThrottleShape, EntryShape, CountEntry
<1>2. disk[Timer].is = "value" => disk[Timer].exp # 0
  BY DEF ThrottleInv, ThrottleShape, EntryShape
<1>3. QED
  BY <1>1, <1>2 DEF Live, Expired

LEMMA TooManyReads ==
    ASSUME ThrottleInv, NEW c \in Calls, 
           At(c, "tooMany"), Read(c, Counter, Go(c, IF CountReached(c) THEN "limited" ELSE "hit")),
           UNCHANGED <<driver, now, source, starts, admitted, met, until>>
    PROVE  ThrottleInv'
<1> DEFINE r == call[c]
           next == Go(c, IF CountReached(c) THEN "limited" ELSE "hit")
<1>1. /\ r \in Asking /\ r.pc = "tooMany" /\ r.io.op = "none" /\ WaitsWell(r, disk[Timer])
  BY MyTurn DEF AskingPcs
<1>2. /\ next \in Asking /\ next.io.op = "none" /\ next.alone = r.alone /\ next.waited = r.waited
      /\ next.max = r.max /\ next.got = r.got /\ next.timer = r.timer
      /\ (next.pc = "limited" \/ (next.pc = "hit" /\ Attempts < r.max))
  BY <1>1, HeldIsLive, LimitFacts DEF Asking, AskingPcs, Go, CountReached, TimerRuns
<1>3. WaitsWell(next, disk[Timer])
  BY <1>1, <1>2, HeldIsLive DEF WaitsWell, TurnedAway, Later, Live, Expired
<1>4. ASSUME NEW q \in 0 .. Len(admitted), NEW began \in 0 .. now, Good(r, disk[Counter], disk[Timer], q, began)
      PROVE  Phase(next, disk[Counter], disk[Timer], Len(admitted) - q, began)
  <2>1. /\ Phase(r, disk[Counter], disk[Timer], Len(admitted) - q, began)
        /\ CounterHolds(r, disk[Counter], disk[Timer], Len(admitted) - q)
    BY <1>4 DEF Good
  <2> HIDE DEF r, next
  <2>2. QED
    BY <1>1, <1>2, <2>1, HeldIsLive, LimitFacts DEF Phase, CounterHolds, Admitting, Storing, Asking
<1>5. QED
  <2>1. next.pc \in Admitting => r.pc \in Admitting
    BY <1>1, <1>2 DEF Admitting
  <2>2. Read(c, Counter, next) /\ r.pc # "setCounter"
    BY <1>1
  <2> HIDE DEF next
  <2>3. QED
    BY <1>1, <1>2, <1>3, <1>4, <2>1, <2>2, ReadGoesOn

LEMMA LimitedReads ==
    ASSUME ThrottleInv, NEW c \in Calls, 
           At(c, "limited"), Read(c, Timer, Go(c, IF TimerRuns THEN "availableIn" ELSE "reset")),
           UNCHANGED <<driver, now, source, starts, admitted, met, until>>
    PROVE  ThrottleInv'
<1> DEFINE r == call[c]
           next == Go(c, IF TimerRuns THEN "availableIn" ELSE "reset")
<1>1. /\ r \in Asking /\ r.pc = "limited" /\ r.io.op = "none" /\ WaitsWell(r, disk[Timer])
  BY MyTurn DEF AskingPcs
<1>2. /\ next \in Asking /\ next.io.op = "none" /\ next.alone = r.alone /\ next.waited = r.waited
      /\ next.max = r.max /\ next.got = r.got /\ next.timer = r.timer
      /\ ((next.pc = "availableIn" /\ Live(disk[Timer])) \/ (next.pc = "reset" /\ ~Live(disk[Timer])))
  BY <1>1, HeldIsLive, LimitFacts DEF Asking, AskingPcs, Go, CountReached, TimerRuns
<1>3. WaitsWell(next, disk[Timer])
  BY <1>1, <1>2, HeldIsLive DEF WaitsWell, TurnedAway, Later, Live, Expired
<1>4. ASSUME NEW q \in 0 .. Len(admitted), NEW began \in 0 .. now, Good(r, disk[Counter], disk[Timer], q, began)
      PROVE  Phase(next, disk[Counter], disk[Timer], Len(admitted) - q, began)
  <2>1. /\ Phase(r, disk[Counter], disk[Timer], Len(admitted) - q, began)
        /\ CounterHolds(r, disk[Counter], disk[Timer], Len(admitted) - q)
    BY <1>4 DEF Good
  <2> HIDE DEF r, next
  <2>2. QED
    BY <1>1, <1>2, <2>1, HeldIsLive, LimitFacts DEF Phase, CounterHolds, Admitting, Storing, Asking
<1>5. QED
  <2>1. next.pc \in Admitting => r.pc \in Admitting
    BY <1>1, <1>2 DEF Admitting
  <2>2. Read(c, Timer, next) /\ r.pc # "setCounter"
    BY <1>1
  <2> HIDE DEF next
  <2>3. QED
    BY <1>1, <1>2, <1>3, <1>4, <2>1, <2>2, ReadGoesOn

LEMMA HitReads ==
    ASSUME ThrottleInv, NEW c \in Calls, 
           At(c, "hit"), Read(c, Counter, [Go(c, "hasTimer") EXCEPT !.got = Attempts]),
           UNCHANGED <<driver, now, source, starts, admitted, met, until>>
    PROVE  ThrottleInv'
<1> DEFINE r == call[c]
           next == [Go(c, "hasTimer") EXCEPT !.got = Attempts]
<1>1. /\ r \in Asking /\ r.pc = "hit" /\ r.io.op = "none" /\ WaitsWell(r, disk[Timer])
  BY MyTurn DEF AskingPcs
<1>2. /\ next \in Asking /\ next.io.op = "none" /\ next.alone = r.alone /\ next.waited = r.waited
      /\ next.max = r.max /\ next.got = Attempts /\ next.timer = r.timer /\ next.pc = "hasTimer"
  BY <1>1, HeldIsLive, LimitFacts DEF Asking, AskingPcs, Go, CountReached, TimerRuns
<1>3. WaitsWell(next, disk[Timer])
  BY <1>1, <1>2, HeldIsLive DEF WaitsWell, TurnedAway, Later, Live, Expired
<1>4. ASSUME NEW q \in 0 .. Len(admitted), NEW began \in 0 .. now, Good(r, disk[Counter], disk[Timer], q, began)
      PROVE  Phase(next, disk[Counter], disk[Timer], Len(admitted) - q, began)
  <2>1. /\ Phase(r, disk[Counter], disk[Timer], Len(admitted) - q, began)
        /\ CounterHolds(r, disk[Counter], disk[Timer], Len(admitted) - q)
    BY <1>4 DEF Good
  <2>2. Live(disk[Timer]) => Attempts >= Len(admitted) - q
    <3>1. SUFFICES ASSUME Live(disk[Timer]) PROVE Attempts >= Len(admitted) - q
      OBVIOUS
    <3>2. /\ disk[Counter].is = "value" /\ disk[Counter].exp >= disk[Timer].exp
          /\ disk[Counter].val >= Len(admitted) - q
      BY <1>1, <2>1, <3>1 DEF CounterHolds, Storing
    <3>3. Live(disk[Counter])
      BY <3>1, <3>2, LiveWhen
    <3>4. QED
      BY <3>2, <3>3, HeldIsLive
  <2>3. Attempts < r.max
    <3>1. CASE Live(disk[Counter])
      BY <1>1, <2>1, <3>1, HeldIsLive DEF Phase
    <3>2. CASE ~Live(disk[Counter])
      BY <1>1, <3>2, HeldIsLive, LimitFacts DEF Asking
    <3>3. QED
      BY <3>1, <3>2
  <2>4. r.pc # "threw"
    BY <1>1
  <2> HIDE DEF r, next
  <2>5. QED
    BY <1>2, <2>2, <2>3, <2>4 DEF Phase, Admitting
<1>5. QED
  <2>1. next.pc \in Admitting => r.pc \in Admitting
    BY <1>1, <1>2 DEF Admitting
  <2>2. Read(c, Counter, next) /\ r.pc # "setCounter"
    BY <1>1
  <2> HIDE DEF next
  <2>3. QED
    BY <1>1, <1>2, <1>3, <1>4, <2>1, <2>2, ReadGoesOn

LEMMA TimerSought ==
    ASSUME ThrottleInv, NEW c \in Calls, 
           At(c, "hasTimer"), Read(c, Timer, Go(c, IF Held(Timer) = Null THEN "setTimer" ELSE "getTimer")),
           UNCHANGED <<driver, now, source, starts, admitted, met, until>>
    PROVE  ThrottleInv'
<1> DEFINE r == call[c]
           next == Go(c, IF Held(Timer) = Null THEN "setTimer" ELSE "getTimer")
<1>1. /\ r \in Asking /\ r.pc = "hasTimer" /\ r.io.op = "none" /\ WaitsWell(r, disk[Timer])
  BY MyTurn DEF AskingPcs
<1>2. /\ next \in Asking /\ next.io.op = "none" /\ next.alone = r.alone /\ next.waited = r.waited
      /\ next.max = r.max /\ next.got = r.got /\ next.timer = r.timer
      /\ ((next.pc = "setTimer" /\ ~Live(disk[Timer])) \/ (next.pc = "getTimer" /\ Live(disk[Timer])))
  BY <1>1, HeldIsLive, LimitFacts DEF Asking, AskingPcs, Go, CountReached, TimerRuns
<1>3. WaitsWell(next, disk[Timer])
  BY <1>1, <1>2, HeldIsLive DEF WaitsWell, TurnedAway, Later, Live, Expired
<1>4. ASSUME NEW q \in 0 .. Len(admitted), NEW began \in 0 .. now, Good(r, disk[Counter], disk[Timer], q, began)
      PROVE  Phase(next, disk[Counter], disk[Timer], Len(admitted) - q, began)
  <2>1. /\ Phase(r, disk[Counter], disk[Timer], Len(admitted) - q, began)
        /\ CounterHolds(r, disk[Counter], disk[Timer], Len(admitted) - q)
    BY <1>4 DEF Good
  <2> HIDE DEF r, next
  <2>2. QED
    BY <1>1, <1>2, <2>1, HeldIsLive, LimitFacts DEF Phase, CounterHolds, Admitting, Storing, Asking
<1>5. QED
  <2>1. next.pc \in Admitting => r.pc \in Admitting
    BY <1>1, <1>2 DEF Admitting
  <2>2. Read(c, Timer, next) /\ r.pc # "setCounter"
    BY <1>1
  <2> HIDE DEF next
  <2>3. QED
    BY <1>1, <1>2, <1>3, <1>4, <2>1, <2>2, ReadGoesOn

LEMMA TimerRead ==
    ASSUME ThrottleInv, NEW c \in Calls, 
           At(c, "getTimer"), Read(c, Timer, [Go(c, "count") EXCEPT !.timer = IF Held(Timer) = Null THEN 0 ELSE Held(Timer)]),
           UNCHANGED <<driver, now, source, starts, admitted, met, until>>
    PROVE  ThrottleInv'
<1> DEFINE r == call[c]
           next == [Go(c, "count") EXCEPT !.timer = IF Held(Timer) = Null THEN 0 ELSE Held(Timer)]
<1>1. /\ r \in Asking /\ r.pc = "getTimer" /\ r.io.op = "none" /\ WaitsWell(r, disk[Timer])
  BY MyTurn DEF AskingPcs
<1>2. /\ next \in Asking /\ next.io.op = "none" /\ next.alone = r.alone /\ next.waited = r.waited
      /\ next.max = r.max /\ next.got = r.got /\ next.pc = "count"
      /\ next.timer = (IF Held(Timer) = Null THEN 0 ELSE Held(Timer))
  BY <1>1, HeldIsLive, LimitFacts DEF Asking, AskingPcs, Go, CountReached, TimerRuns
<1>3. WaitsWell(next, disk[Timer])
  BY <1>1, <1>2, HeldIsLive DEF WaitsWell, TurnedAway, Later, Live, Expired
<1>4. ASSUME NEW q \in 0 .. Len(admitted), NEW began \in 0 .. now, Good(r, disk[Counter], disk[Timer], q, began)
      PROVE  Phase(next, disk[Counter], disk[Timer], Len(admitted) - q, began)
  <2>1. /\ Phase(r, disk[Counter], disk[Timer], Len(admitted) - q, began)
        /\ CounterHolds(r, disk[Counter], disk[Timer], Len(admitted) - q)
    BY <1>4 DEF Good
  <2> HIDE DEF r, next
  <2>2. QED
    BY <1>1, <1>2, <2>1, HeldIsLive, LimitFacts DEF Phase, CounterHolds, Admitting, Storing, Asking
<1>5. QED
  <2>1. next.pc \in Admitting => r.pc \in Admitting
    BY <1>1, <1>2 DEF Admitting
  <2>2. Read(c, Timer, next) /\ r.pc # "setCounter"
    BY <1>1
  <2> HIDE DEF next
  <2>3. QED
    BY <1>1, <1>2, <1>3, <1>4, <2>1, <2>2, ReadGoesOn

LEMMA InfoReads ==
    ASSUME ThrottleInv, NEW c \in Calls, 
           At(c, "info"), Read(c, Counter, Go(c, "infoTimer")),
           UNCHANGED <<driver, now, source, starts, admitted, met, until>>
    PROVE  ThrottleInv'
<1> DEFINE r == call[c]
           next == Go(c, "infoTimer")
<1>1. /\ r \in Asking /\ r.pc = "info" /\ r.io.op = "none" /\ WaitsWell(r, disk[Timer])
  BY MyTurn DEF AskingPcs
<1>2. /\ next \in Asking /\ next.io.op = "none" /\ next.alone = r.alone /\ next.waited = r.waited
      /\ next.max = r.max /\ next.got = r.got /\ next.timer = r.timer /\ next.pc = "infoTimer"
  BY <1>1, HeldIsLive, LimitFacts DEF Asking, AskingPcs, Go, CountReached, TimerRuns
<1>3. WaitsWell(next, disk[Timer])
  BY <1>1, <1>2, HeldIsLive DEF WaitsWell, TurnedAway, Later, Live, Expired
<1>4. ASSUME NEW q \in 0 .. Len(admitted), NEW began \in 0 .. now, Good(r, disk[Counter], disk[Timer], q, began)
      PROVE  Phase(next, disk[Counter], disk[Timer], Len(admitted) - q, began)
  <2>1. /\ Phase(r, disk[Counter], disk[Timer], Len(admitted) - q, began)
        /\ CounterHolds(r, disk[Counter], disk[Timer], Len(admitted) - q)
    BY <1>4 DEF Good
  <2> HIDE DEF r, next
  <2>2. QED
    BY <1>1, <1>2, <2>1, HeldIsLive, LimitFacts DEF Phase, CounterHolds, Admitting, Storing, Asking
<1>5. QED
  <2>1. next.pc \in Admitting => r.pc \in Admitting
    BY <1>1, <1>2 DEF Admitting
  <2>2. Read(c, Counter, next) /\ r.pc # "setCounter"
    BY <1>1
  <2> HIDE DEF next
  <2>3. QED
    BY <1>1, <1>2, <1>3, <1>4, <2>1, <2>2, ReadGoesOn

LEMMA InfoTimerReads ==
    ASSUME ThrottleInv, NEW c \in Calls, 
           At(c, "infoTimer"), Read(c, Timer, Go(c, "admit")),
           UNCHANGED <<driver, now, source, starts, admitted, met, until>>
    PROVE  ThrottleInv'
<1> DEFINE r == call[c]
           next == Go(c, "admit")
<1>1. /\ r \in Asking /\ r.pc = "infoTimer" /\ r.io.op = "none" /\ WaitsWell(r, disk[Timer])
  BY MyTurn DEF AskingPcs
<1>2. /\ next \in Asking /\ next.io.op = "none" /\ next.alone = r.alone /\ next.waited = r.waited
      /\ next.max = r.max /\ next.got = r.got /\ next.timer = r.timer /\ next.pc = "admit"
  BY <1>1, HeldIsLive, LimitFacts DEF Asking, AskingPcs, Go, CountReached, TimerRuns
<1>3. WaitsWell(next, disk[Timer])
  BY <1>1, <1>2, HeldIsLive DEF WaitsWell, TurnedAway, Later, Live, Expired
<1>4. ASSUME NEW q \in 0 .. Len(admitted), NEW began \in 0 .. now, Good(r, disk[Counter], disk[Timer], q, began)
      PROVE  Phase(next, disk[Counter], disk[Timer], Len(admitted) - q, began)
  <2>1. /\ Phase(r, disk[Counter], disk[Timer], Len(admitted) - q, began)
        /\ CounterHolds(r, disk[Counter], disk[Timer], Len(admitted) - q)
    BY <1>4 DEF Good
  <2> HIDE DEF r, next
  <2>2. QED
    BY <1>1, <1>2, <2>1, HeldIsLive, LimitFacts DEF Phase, CounterHolds, Admitting, Storing, Asking
<1>5. QED
  <2>1. next.pc \in Admitting => r.pc \in Admitting
    BY <1>1, <1>2 DEF Admitting
  <2>2. Read(c, Timer, next) /\ r.pc # "setCounter"
    BY <1>1
  <2> HIDE DEF next
  <2>3. QED
    BY <1>1, <1>2, <1>3, <1>4, <2>1, <2>2, ReadGoesOn

LEMMA AvailableInReads ==
    ASSUME ThrottleInv, NEW c \in Calls, 
           At(c, "availableIn"), Read(c, Timer, [Go(c, "infoLimited") EXCEPT !.timer = IF Held(Timer) = Null THEN 0 ELSE Held(Timer)]),
           UNCHANGED <<driver, now, source, starts, admitted, met, until>>
    PROVE  ThrottleInv'
<1> DEFINE r == call[c]
           next == [Go(c, "infoLimited") EXCEPT !.timer = IF Held(Timer) = Null THEN 0 ELSE Held(Timer)]
<1>1. /\ r \in Asking /\ r.pc = "availableIn" /\ r.io.op = "none" /\ WaitsWell(r, disk[Timer])
  BY MyTurn DEF AskingPcs
<1>2. /\ next \in Asking /\ next.io.op = "none" /\ next.alone = r.alone /\ next.waited = r.waited
      /\ next.max = r.max /\ next.got = r.got /\ next.pc = "infoLimited"
      /\ next.timer = (IF Held(Timer) = Null THEN 0 ELSE Held(Timer))
  BY <1>1, HeldIsLive, LimitFacts DEF Asking, AskingPcs, Go, CountReached, TimerRuns
<1>3. WaitsWell(next, disk[Timer])
  <2>1. disk[Timer].is = "value" => disk[Timer].exp <= Later(next.timer, now)
    <3>1. CASE disk[Timer].is = "value" /\ Live(disk[Timer])
      <4>1. next.timer = disk[Timer].exp
        BY <1>2, <3>1, HeldIsLive
      <4> HIDE DEF next
      <4>2. QED
        BY <3>1, <4>1, LiveWhen DEF Later
    <3>2. CASE disk[Timer].is = "value" /\ ~Live(disk[Timer])
      <4>1. next.timer \in Nat
        BY <1>2 DEF Asking
      <4> HIDE DEF next
      <4>2. QED
        BY <3>2, <4>1, LiveWhen DEF Later
    <3>3. QED
      BY <3>1, <3>2
  <2> HIDE DEF next
  <2>2. QED
    BY <1>1, <1>2, <2>1 DEF WaitsWell, TurnedAway
<1>4. ASSUME NEW q \in 0 .. Len(admitted), NEW began \in 0 .. now, Good(r, disk[Counter], disk[Timer], q, began)
      PROVE  Phase(next, disk[Counter], disk[Timer], Len(admitted) - q, began)
  <2>1. /\ Phase(r, disk[Counter], disk[Timer], Len(admitted) - q, began)
        /\ CounterHolds(r, disk[Counter], disk[Timer], Len(admitted) - q)
    BY <1>4 DEF Good
  <2> HIDE DEF r, next
  <2>2. QED
    BY <1>1, <1>2, <2>1, HeldIsLive, LimitFacts DEF Phase, CounterHolds, Admitting, Storing, Asking
<1>5. QED
  <2>1. next.pc \in Admitting => r.pc \in Admitting
    BY <1>1, <1>2 DEF Admitting
  <2>2. Read(c, Timer, next) /\ r.pc # "setCounter"
    BY <1>1
  <2> HIDE DEF next
  <2>3. QED
    BY <1>1, <1>2, <1>3, <1>4, <2>1, <2>2, ReadGoesOn

LEMMA InfoLimitedReads ==
    ASSUME ThrottleInv, NEW c \in Calls, 
           At(c, "infoLimited"), Read(c, Counter, Go(c, "infoLimitedTimer")),
           UNCHANGED <<driver, now, source, starts, admitted, met, until>>
    PROVE  ThrottleInv'
<1> DEFINE r == call[c]
           next == Go(c, "infoLimitedTimer")
<1>1. /\ r \in Asking /\ r.pc = "infoLimited" /\ r.io.op = "none" /\ WaitsWell(r, disk[Timer])
  BY MyTurn DEF AskingPcs
<1>2. /\ next \in Asking /\ next.io.op = "none" /\ next.alone = r.alone /\ next.waited = r.waited
      /\ next.max = r.max /\ next.got = r.got /\ next.timer = r.timer /\ next.pc = "infoLimitedTimer"
  BY <1>1, HeldIsLive, LimitFacts DEF Asking, AskingPcs, Go, CountReached, TimerRuns
<1>3. WaitsWell(next, disk[Timer])
  BY <1>1, <1>2, HeldIsLive DEF WaitsWell, TurnedAway, Later, Live, Expired
<1>4. ASSUME NEW q \in 0 .. Len(admitted), NEW began \in 0 .. now, Good(r, disk[Counter], disk[Timer], q, began)
      PROVE  Phase(next, disk[Counter], disk[Timer], Len(admitted) - q, began)
  <2>1. /\ Phase(r, disk[Counter], disk[Timer], Len(admitted) - q, began)
        /\ CounterHolds(r, disk[Counter], disk[Timer], Len(admitted) - q)
    BY <1>4 DEF Good
  <2> HIDE DEF r, next
  <2>2. QED
    BY <1>1, <1>2, <2>1, HeldIsLive, LimitFacts DEF Phase, CounterHolds, Admitting, Storing, Asking
<1>5. QED
  <2>1. next.pc \in Admitting => r.pc \in Admitting
    BY <1>1, <1>2 DEF Admitting
  <2>2. Read(c, Counter, next) /\ r.pc # "setCounter"
    BY <1>1
  <2> HIDE DEF next
  <2>3. QED
    BY <1>1, <1>2, <1>3, <1>4, <2>1, <2>2, ReadGoesOn

LEMMA InfoLimitedTimerReads ==
    ASSUME ThrottleInv, NEW c \in Calls, 
           At(c, "infoLimitedTimer"), Read(c, Timer, Go(c, "reject")),
           UNCHANGED <<driver, now, source, starts, admitted, met, until>>
    PROVE  ThrottleInv'
<1> DEFINE r == call[c]
           next == Go(c, "reject")
<1>1. /\ r \in Asking /\ r.pc = "infoLimitedTimer" /\ r.io.op = "none" /\ WaitsWell(r, disk[Timer])
  BY MyTurn DEF AskingPcs
<1>2. /\ next \in Asking /\ next.io.op = "none" /\ next.alone = r.alone /\ next.waited = r.waited
      /\ next.max = r.max /\ next.got = r.got /\ next.timer = r.timer /\ next.pc = "reject"
  BY <1>1, HeldIsLive, LimitFacts DEF Asking, AskingPcs, Go, CountReached, TimerRuns
<1>3. WaitsWell(next, disk[Timer])
  BY <1>1, <1>2, HeldIsLive DEF WaitsWell, TurnedAway, Later, Live, Expired
<1>4. ASSUME NEW q \in 0 .. Len(admitted), NEW began \in 0 .. now, Good(r, disk[Counter], disk[Timer], q, began)
      PROVE  Phase(next, disk[Counter], disk[Timer], Len(admitted) - q, began)
  <2>1. /\ Phase(r, disk[Counter], disk[Timer], Len(admitted) - q, began)
        /\ CounterHolds(r, disk[Counter], disk[Timer], Len(admitted) - q)
    BY <1>4 DEF Good
  <2> HIDE DEF r, next
  <2>2. QED
    BY <1>1, <1>2, <2>1, HeldIsLive, LimitFacts DEF Phase, CounterHolds, Admitting, Storing, Asking
<1>5. QED
  <2>1. next.pc \in Admitting => r.pc \in Admitting
    BY <1>1, <1>2 DEF Admitting
  <2>2. Read(c, Timer, next) /\ r.pc # "setCounter"
    BY <1>1
  <2> HIDE DEF next
  <2>3. QED
    BY <1>1, <1>2, <1>3, <1>4, <2>1, <2>2, ReadGoesOn

\* A window stays open, or is past, when the timer's entry is gone because it
\* has run out.
LEMMA WindowPast ==
    ASSUME ThrottleInv, ~Live(disk[Timer]), NEW r, ~Storing(r.io), NEW q \in 0 .. Len(admitted),
           NEW began \in 0 .. now, WindowOpen(r, disk[Timer], q, began)
    PROVE  q = 0 \/ began + Decay <= now
BY LiveWhen DEF WindowOpen

\* Both entries of a window that is past are deleted.
LEMMA ResetCounter ==
    ASSUME ThrottleInv, NEW c \in Calls, At(c, "reset"), Delete(c, Counter, Go(c, "resetTimer")),
           UNCHANGED <<driver, now, source, starts, admitted, met, until>>
    PROVE  ThrottleInv'
<1> DEFINE r == call[c]
           n == Go(c, "resetTimer")
<1>1. /\ r \in Asking /\ r.pc = "reset" /\ r.io.op = "none" /\ Busy(c) /\ WaitsWell(r, disk[Timer])
  BY MyTurn DEF AskingPcs
<1>2. PICK e \in CountEntry : disk' = [disk EXCEPT ![Counter] = e] /\ e.is # "value"
  BY AskDelete DEF Delete, ThrottleInv
<1>3. /\ n \in Asking /\ n.io.op = "none" /\ n.pc = "resetTimer" /\ Alike(n, r)
      /\ call' = [call EXCEPT ![c] = n]
  BY <1>1 DEF Asking, AskingPcs, Go, Alike, Delete
<1>4. AskShape(n) /\ EntryShape(Counter, e) /\ ~Storing(n.io) /\ ~Storing(r.io)
  BY <1>1, <1>2, <1>3 DEF AskShape, EntryShape, Storing
<1>5. n.alone = r.alone /\ WaitsWell(n, disk[Timer])
  BY <1>1, <1>3 DEF WaitsWell, TurnedAway, Alike
<1>6. ASSUME NEW q \in 0 .. Len(admitted), NEW began \in 0 .. now, Good(r, disk[Counter], disk[Timer], q, began)
      PROVE  Good(n, e, disk[Timer], q, began)
  <2>1. ~Live(disk[Timer])
    BY <1>1, <1>6 DEF Good, Phase
  <2> HIDE DEF n
  <2>2. WindowOpen(n, disk[Timer], q, began)
    BY <1>4, <1>6 DEF Good, WindowOpen
  <2>3. CounterHolds(n, e, disk[Timer], Len(admitted) - q)
    BY <2>1 DEF CounterHolds
  <2>4. Phase(n, e, disk[Timer], Len(admitted) - q, began)
    BY <1>2, <1>3, <2>1 DEF Phase, Admitting
  <2>5. HitPending(n, e, disk[Timer], Len(admitted) - q, began)
    BY <1>3 DEF HitPending, Storing
  <2>6. QED
    BY <2>2, <2>3, <2>4, <2>5 DEF Good
<1>7. Counter # Timer
  BY EntriesThere DEF ThrottleInv
<1>8. QED
  <2> HIDE DEF n
  <2>1. QED
    BY <1>1, <1>2, <1>3, <1>4, <1>5, <1>6, <1>7, OneAskGoesOn

LEMMA ResetTimer ==
    ASSUME ThrottleInv, NEW c \in Calls, At(c, "resetTimer"), Delete(c, Timer, Go(c, "hit")),
           UNCHANGED <<driver, now, source, starts, admitted, met, until>>
    PROVE  ThrottleInv'
<1> DEFINE r == call[c]
           n == Go(c, "hit")
<1>1. /\ r \in Asking /\ r.pc = "resetTimer" /\ r.io.op = "none" /\ Busy(c) /\ WaitsWell(r, disk[Timer])
  BY MyTurn DEF AskingPcs
<1>2. PICK e \in CountEntry : disk' = [disk EXCEPT ![Timer] = e] /\ e.is # "value"
  BY AskDelete DEF Delete, ThrottleInv
<1>3. /\ n \in Asking /\ n.io.op = "none" /\ n.pc = "hit" /\ Alike(n, r)
      /\ call' = [call EXCEPT ![c] = n]
  BY <1>1 DEF Asking, AskingPcs, Go, Alike, Delete
<1>4. AskShape(n) /\ EntryShape(Timer, e) /\ ~Storing(n.io) /\ ~Storing(r.io)
  BY <1>1, <1>2, <1>3 DEF AskShape, EntryShape, Storing
<1>5. n.alone = r.alone /\ WaitsWell(n, e)
  BY <1>1, <1>3 DEF WaitsWell, TurnedAway, Alike
<1>6. ASSUME NEW q \in 0 .. Len(admitted), NEW began \in 0 .. now, Good(r, disk[Counter], disk[Timer], q, began)
      PROVE  Good(n, disk[Counter], e, q, began)
  <2>1. ~Live(disk[Timer]) /\ disk[Counter].is # "value"
    BY <1>1, <1>6 DEF Good, Phase
  <2>2. WindowOpen(r, disk[Timer], q, began)
    BY <1>6 DEF Good
  <2> HIDE DEF n, r
  <2>3. WindowOpen(n, e, q, began)
    BY <1>4, <2>1, <2>2, WindowPast DEF WindowOpen
  <2>4. CounterHolds(n, disk[Counter], e, Len(admitted) - q)
    BY <1>2 DEF CounterHolds, Live
  <2>5. Phase(n, disk[Counter], e, Len(admitted) - q, began)
    BY <1>3, <2>1 DEF Phase, Admitting, Live
  <2>6. HitPending(n, disk[Counter], e, Len(admitted) - q, began)
    BY <1>3 DEF HitPending, Storing
  <2>7. QED
    BY <2>3, <2>4, <2>5, <2>6 DEF Good
<1>7. Counter # Timer
  BY EntriesThere DEF ThrottleInv
<1>8. QED
  <2> HIDE DEF n
  <2>1. QED
    BY <1>1, <1>2, <1>3, <1>4, <1>5, <1>6, <1>7, OneAskGoesOn

\* The timer is set, and a window begins: the requests of the one before it
\* came before it ran out.
LEMMA TimerSet ==
    ASSUME ThrottleInv, NEW c \in Calls, At(c, "setTimer"), Write(c, Timer, now + Decay, Decay, Go(c, "setCounter")),
           UNCHANGED <<driver, now, source, starts, admitted, met, until>>
    PROVE  ThrottleInv'
<1> DEFINE r == call[c]
           next == Go(c, "setCounter")
           total == Len(admitted)
<1>0. now \in Nat /\ now + Decay \in Nat \ {0} /\ Decay \in Nat \ {0} /\ total \in Nat /\ admitted \in Seq(Nat)
  BY ThrottleAssumption DEF ThrottleInv, ThrottleTypes
<1>1. /\ r \in Asking /\ r.pc = "setTimer" /\ r.io.op = "none" /\ Busy(c) /\ WaitsWell(r, disk[Timer])
  BY MyTurn DEF AskingPcs
<1>2. next \in Asking /\ next.io.op = "none" /\ next.pc = "setCounter" /\ Alike(next, r)
  BY <1>1 DEF Asking, AskingPcs, Go, Alike
<1>3. PICK n \in Asking, e \in CountEntry :
              /\ call' = [call EXCEPT ![c] = n] /\ disk' = [disk EXCEPT ![Timer] = e]
              /\ n.pc = next.pc /\ Alike(n, next)
              /\ \/ n.io.op = "none" /\ e.is = "value" /\ e.val = now + Decay /\ e.exp = now + Decay
                 \/ /\ Storing(n.io) /\ n.io.key = Timer /\ n.io.val = now + Decay /\ n.io.exp = now + Decay
                    /\ n.io.op = "fill" => e.is = "emptied" /\ e.id = n.io.id
                    /\ n.io.op = "save" => e = disk[Timer] /\ (n.io.had <=> e.is = "value")
  <2>1. Write(c, Timer, now + Decay, Decay, next)
    OBVIOUS
  <2> HIDE DEF next
  <2>2. QED
    BY <1>0, <1>2, <2>1, AskWrite DEF ThrottleInv
<1>4. n.pc = "setCounter" /\ n.got = r.got /\ n.max = r.max /\ n.alone = r.alone /\ n.waited = r.waited
  BY <1>2, <1>3 DEF Alike
<1>5. AskShape(n) /\ EntryShape(Timer, e)
  <2>1. EntryShape(Timer, disk[Timer])
    BY DEF ThrottleInv, ThrottleShape
  <2> HIDE DEF next
  <2>2. QED
    BY <1>0, <1>3, <1>4, <2>1 DEF AskShape, EntryShape, Storing
<1>6. WaitsWell(n, e)
  BY <1>1, <1>4 DEF WaitsWell, TurnedAway
<1>7. ASSUME NEW p \in 0 .. total, NEW q \in 0 .. total, NEW began \in 0 .. now,
             Windows(p, q, began), Good(r, disk[Counter], disk[Timer], q, began)
      PROVE  Windows(q, total, now) /\ Good(n, disk[Counter], e, total, now)
  <2>1. ~Live(disk[Timer]) /\ r.got < r.max
    BY <1>1, <1>7 DEF Good, Phase
  <2>2. q = 0 \/ began + Decay <= now
    BY <1>1, <1>7, <2>1, WindowPast DEF Good, Storing
  <2>3. Windows(q, total, now)
    <3>1. \A i \in 1 .. total : i <= q => admitted[i] + Decay <= now
      <4>1. \A i \in 1 .. total : i <= q => admitted[i] <= began /\ admitted[i] \in Nat /\ q # 0
        BY SMTT(30), <1>0, <1>7 DEF Windows
      <4>2. QED
        BY <1>0, <2>2, <4>1
    <3>2. Top \in Nat
      BY LimitFacts, <1>1 DEF Asking
    <3>3. QED
      BY <1>0, <1>7, <3>1, <3>2 DEF Windows
  <2>4. e.is = "value" => e.exp <= now + Decay
    <3>1. e = disk[Timer] /\ e.is = "value" => e.exp <= now
      BY <2>1, LiveWhen
    <3>2. e.exp \in Nat
      BY DEF CountEntry
    <3> HIDE DEF next
    <3>3. QED
      BY <1>0, <1>3, <3>1, <3>2 DEF Storing
  <2> HIDE DEF next, r
  <2>5. WindowOpen(n, e, total, now)
    BY <1>3 DEF WindowOpen
  <2>6. CounterHolds(n, disk[Counter], e, total - total)
    BY <1>4 DEF CounterHolds
  <2>7. Phase(n, disk[Counter], e, total - total, now)
    BY <1>0, <1>4, <2>1, <2>4 DEF Phase, Admitting
  <2>8. HitPending(n, disk[Counter], e, total - total, now)
    BY <1>3, EntriesThere DEF HitPending, Storing, ThrottleInv
  <2>9. QED
    BY <2>3, <2>5, <2>6, <2>7, <2>8 DEF Good
<1>8. ~met => \A p, q \in 0 .. Len(admitted), began \in 0 .. now :
              Windows(p, q, began) /\ Good(call[c], disk[Counter], disk[Timer], q, began) =>
                 \E p2, q2 \in 0 .. Len(admitted), began2 \in 0 .. now :
                    Windows(p2, q2, began2) /\ Good(n, disk[Counter], e, q2, began2)
  <2>1. total \in 0 .. total /\ now \in 0 .. now
    BY <1>0
  <2>2. QED
    BY <1>7, <2>1
<1>9. QED
  <2>1. Counter # Timer
    BY EntriesThere DEF ThrottleInv
  <2> HIDE DEF next
  <2>2. QED
    BY <1>1, <1>3, <1>4, <1>5, <1>6, <1>8, <2>1, OneAskGoesOn

\* The counter is written: it counts one request more than the window has let
\* through, and is kept for at least as long as the timer.
LEMMA CounterWritten ==
    ASSUME ThrottleInv, NEW c \in Calls, NEW pc \in {"setCounter", "count"}, At(c, pc), NEW ttl \in Nat \ {0},
           Write(c, Counter, call[c].got + 1, ttl, Go(c, "info")),
           UNCHANGED <<driver, now, source, starts, admitted, met, until>>,
           \A q \in 0 .. Len(admitted), began \in 0 .. now :
              Good(call[c], disk[Counter], disk[Timer], q, began) =>
                 /\ call[c].got >= Len(admitted) - q /\ call[c].got < call[c].max
                 /\ Live(disk[Timer]) => now + ttl >= disk[Timer].exp
    PROVE  ThrottleInv'
<1> DEFINE r == call[c]
           next == Go(c, "info")
           val == r.got + 1
           total == Len(admitted)
           timer == disk[Timer]
<1>0. now \in Nat /\ now + ttl \in Nat \ {0} /\ total \in Nat
  BY DEF ThrottleInv, ThrottleTypes
<1>1. /\ r \in Asking /\ r.pc = pc /\ r.io.op = "none" /\ Busy(c) /\ WaitsWell(r, timer)
      /\ val \in Nat /\ r.max \in Limits
  BY MyTurn DEF AskingPcs, Asking
<1>2. next \in Asking /\ next.io.op = "none" /\ next.pc = "info" /\ Alike(next, r)
  BY <1>1 DEF Asking, AskingPcs, Go, Alike
<1>3. PICK n \in Asking, e \in CountEntry :
              /\ call' = [call EXCEPT ![c] = n] /\ disk' = [disk EXCEPT ![Counter] = e]
              /\ n.pc = next.pc /\ Alike(n, next)
              /\ \/ n.io.op = "none" /\ e.is = "value" /\ e.val = val /\ e.exp = now + ttl
                 \/ /\ Storing(n.io) /\ n.io.key = Counter /\ n.io.val = val /\ n.io.exp = now + ttl
                    /\ n.io.op = "fill" => e.is = "emptied" /\ e.id = n.io.id
                    /\ n.io.op = "save" => e = disk[Counter] /\ (n.io.had <=> e.is = "value")
  <2>1. Write(c, Counter, val, ttl, next)
    OBVIOUS
  <2> HIDE DEF next, val
  <2>2. QED
    BY <1>1, <1>2, <2>1, AskWrite DEF ThrottleInv
<1>4. n.pc = "info" /\ n.got = r.got /\ n.max = r.max /\ n.alone = r.alone /\ n.waited = r.waited
  BY <1>2, <1>3 DEF Alike
<1>5. Counter # Timer /\ timer.exp \in Nat
  BY EntriesThere DEF ThrottleInv, CountEntry
<1>6. AskShape(n) /\ EntryShape(Counter, e)
  <2>1. EntryShape(Counter, disk[Counter])
    BY DEF ThrottleInv, ThrottleShape
  <2> HIDE DEF next, val
  <2>2. QED
    BY <1>0, <1>1, <1>3, <1>4, <1>5, <2>1 DEF AskShape, EntryShape, Storing
<1>7. WaitsWell(n, timer)
  BY <1>1, <1>4 DEF WaitsWell, TurnedAway
<1>8. ASSUME NEW q \in 0 .. total, NEW began \in 0 .. now, Good(r, disk[Counter], timer, q, began)
      PROVE  Good(n, e, timer, q, began)
  <2>1. /\ r.got >= total - q /\ r.got < r.max
        /\ Live(timer) => now + ttl >= timer.exp
    BY <1>8
  <2>2. val > total - q /\ total - q < Top
    BY SMTT(30), <1>0, <1>1, <2>1, LimitFacts DEF Asking
  <2> HIDE DEF next, val, timer
  <2>3. WindowOpen(n, timer, q, began)
    BY <1>1, <1>5, <1>8 DEF Good, WindowOpen, Storing
  <2>4. CounterHolds(n, e, timer, total - q)
    <3>1. SUFFICES ASSUME ~Storing(n.io), Live(timer)
                   PROVE  e.is = "value" /\ e.exp >= timer.exp /\ e.val >= total - q /\ e.val > total - q
      BY DEF CounterHolds
    <3>2. e.is = "value" /\ e.val = val /\ e.exp = now + ttl
      BY <1>3, <3>1
    <3>3. QED
      BY <1>0, <1>1, <2>1, <2>2, <3>1, <3>2
  <2>5. Phase(n, e, timer, total - q, began)
    BY <1>4, <2>2 DEF Phase
  <2>6. HitPending(n, e, timer, total - q, began)
    BY <1>3, <1>5, <2>1, <2>2 DEF HitPending, Storing
  <2>7. QED
    BY <2>3, <2>4, <2>5, <2>6 DEF Good
<1>9. QED
  <2> HIDE DEF next, val
  <2>1. QED
    BY <1>1, <1>3, <1>4, <1>5, <1>6, <1>7, <1>8, OneAskGoesOn

LEMMA FirstCounted ==
    ASSUME ThrottleInv, NEW c \in Calls, At(c, "setCounter"),
           Write(c, Counter, call[c].got + 1, Decay, Go(c, "info")),
           UNCHANGED <<driver, now, source, starts, admitted, met, until>>
    PROVE  ThrottleInv'
<1>1. call[c] \in Asking /\ call[c].pc = "setCounter" /\ now \in Nat /\ call[c].got \in Nat
  BY MyTurn DEF AskingPcs, ThrottleInv, ThrottleTypes, Asking
<1>2. disk[Timer].exp \in Nat /\ Decay \in Nat \ {0}
  BY EntriesThere, ThrottleAssumption DEF ThrottleInv, CountEntry
<1>3. ASSUME NEW q \in 0 .. Len(admitted), NEW began \in 0 .. now,
             Good(call[c], disk[Counter], disk[Timer], q, began)
      PROVE  /\ call[c].got >= Len(admitted) - q /\ call[c].got < call[c].max
             /\ Live(disk[Timer]) => now + Decay >= disk[Timer].exp
  BY <1>1, <1>2, <1>3 DEF Good, Phase, Live
<1>4. QED
  BY <1>2, <1>3, CounterWritten

LEMMA NextCounted ==
    ASSUME ThrottleInv, NEW c \in Calls, At(c, "count"),
           LET expiresAt == call[c].timer
               ttl == IF expiresAt = 0 THEN Decay
                      ELSE IF expiresAt > now THEN expiresAt - now ELSE 1
           IN Write(c, Counter, call[c].got + 1, ttl, Go(c, "info")),
           UNCHANGED <<driver, now, source, starts, admitted, met, until>>
    PROVE  ThrottleInv'
<1> DEFINE t == call[c].timer
           ttl == IF t = 0 THEN Decay ELSE IF t > now THEN t - now ELSE 1
<1>1. /\ call[c] \in Asking /\ call[c].pc = "count" /\ now \in Nat /\ call[c].got \in Nat /\ t \in Nat
  BY MyTurn DEF AskingPcs, ThrottleInv, ThrottleTypes, Asking
<1>2. disk[Timer].exp \in Nat /\ Decay \in Nat \ {0} /\ ttl \in Nat \ {0}
  BY <1>1, EntriesThere, ThrottleAssumption DEF ThrottleInv, CountEntry
<1>3. ASSUME NEW q \in 0 .. Len(admitted), NEW began \in 0 .. now,
             Good(call[c], disk[Counter], disk[Timer], q, began)
      PROVE  /\ call[c].got >= Len(admitted) - q /\ call[c].got < call[c].max
             /\ Live(disk[Timer]) => now + ttl >= disk[Timer].exp
  <2>1. call[c].got >= Len(admitted) - q /\ call[c].got < call[c].max
    BY <1>1, <1>3 DEF Good, Phase
  <2>2. SUFFICES ASSUME Live(disk[Timer]) PROVE now + ttl >= disk[Timer].exp
    BY <2>1
  <2>3. t = disk[Timer].exp /\ t # 0
    BY <1>1, <1>3, <2>2, LiveWhen DEF Good, Phase, Live
  <2>4. QED
    BY <1>1, <2>3
<1>4. Write(c, Counter, call[c].got + 1, ttl, Go(c, "info"))
  OBVIOUS
<1>5. QED
  <2> HIDE DEF t, ttl
  <2>1. QED
    BY <1>2, <1>3, <1>4, CounterWritten

\* What was pending is done.
LEMMA AskFinished ==
    ASSUME ThrottleInv, NEW c \in Calls, Finish(c), UNCHANGED <<admitted, met, until>>
    PROVE  ThrottleInv'
<1> DEFINE r == call[c]
           k == r.io.key
<1>0. ThrottleTypes /\ ThrottleShape
  BY DEF ThrottleInv
<1>1. r \in Asking /\ k \in {Counter, Timer} /\ UNCHANGED <<driver, now, source, starts>>
  BY <1>0, AskFinish
<1>2. PICK n \in Asking, e \in CountEntry :
                    /\ call' = [call EXCEPT ![c] = n] /\ disk' = [disk EXCEPT ![k] = e]
                    /\ n.io.op = "none" /\ Alike(n, r) /\ n.pc \in {r.pc, "threw"}
                    /\ r.io.op = "remove" => e.is # "value" /\ n.pc = r.pc
                    /\ r.io.op # "remove" => /\ Storing(r.io)
                                             /\ e = disk[k] \/ (e.is = "value" /\ e.val = r.io.val /\ e.exp = r.io.exp)
                    /\ (\/ r.io.op = "fill" /\ disk[k].id = r.io.id
                        \/ r.io.op = "save" /\ (r.io.had <=> disk[k].is = "value"))
                       => n.pc = r.pc /\ e.is = "value" /\ e.val = r.io.val /\ e.exp = r.io.exp
  BY <1>0, AskFinish
<1>3. AskShape(r) /\ EntryShape(k, disk[k]) /\ Busy(c) /\ WaitsWell(r, disk[Timer])
  BY <1>0, <1>1, BusyAsks DEF ThrottleInv, ThrottleShape, WaitingInv
<1>4. AskShape(n) /\ EntryShape(k, e)
  <2>1. n.io.op = "none"
    BY <1>2
  <2>2. CASE r.io.op = "remove"
    BY <1>2, <2>1, <2>2 DEF AskShape, EntryShape, Storing
  <2>3. CASE r.io.op # "remove"
    BY <1>2, <1>3, <2>1, <2>3, EntriesThere, <1>0 DEF AskShape, EntryShape, Storing
  <2>4. QED
    BY <2>2, <2>3
<1>5. PICK count, timer : count = (IF k = Counter THEN e ELSE disk[Counter])
                          /\ timer = (IF k = Timer THEN e ELSE disk[Timer])
  OBVIOUS
<1>6. n.alone = r.alone /\ WaitsWell(n, timer)
  <2>1. n.alone = r.alone /\ n.waited = r.waited /\ n.timer = r.timer /\ n.pc \in {r.pc, "threw"}
    BY <1>2 DEF Alike
  <2>2. r.io.op = "remove" => timer = disk[Timer] \/ timer.is # "value"
    BY <1>2, <1>5
  <2>3. r.io.op # "remove" => r.pc \in {"setCounter", "info"}
    BY <1>2, <1>3 DEF AskShape
  <2> HIDE DEF r
  <2>4. QED
    BY <1>3, <2>1, <2>2, <2>3 DEF WaitsWell, TurnedAway, Live
<1>7. ASSUME NEW q \in 0 .. Len(admitted), NEW began \in 0 .. now, Good(r, disk[Counter], disk[Timer], q, began)
      PROVE  Good(n, count, timer, q, began)
  <2> DEFINE since == Len(admitted) - q
  <2>1. Counter # Timer /\ ~Storing(n.io)
    BY <1>0, <1>2, EntriesThere DEF Storing
  <2>2. /\ WindowOpen(r, disk[Timer], q, began) /\ CounterHolds(r, disk[Counter], disk[Timer], since)
        /\ Phase(r, disk[Counter], disk[Timer], since, began) /\ HitPending(r, disk[Counter], disk[Timer], since, began)
    BY <1>7 DEF Good
  <2>3. Alike(n, r)
    BY <1>2
  <2>4. CASE r.io.op = "remove"
    <3>1. n.pc = r.pc /\ e.is # "value" /\ ~Storing(r.io)
      BY <1>2, <2>4 DEF Storing
    <3>2. ~Live(disk[k])
      BY <1>1, <2>1, <2>2, <2>4 DEF HitPending
    <3>3. WindowOpen(n, timer, q, began)
      <4>1. CASE k = Timer
        BY <1>5, <2>2, <3>1, <3>2, <4>1, WindowPast DEF WindowOpen
      <4>2. CASE k = Counter
        BY <1>5, <2>1, <2>2, <3>1, <4>2 DEF WindowOpen
      <4>3. QED
        BY <1>1, <4>1, <4>2
    <3>4. Live(timer) => timer = disk[Timer] /\ Live(disk[Timer])
      BY <1>5, <3>1 DEF Live
    <3>5. Live(count) => count = disk[Counter] /\ Live(disk[Counter])
      BY <1>5, <3>1 DEF Live
    <3>6. timer.is = "value" => timer = disk[Timer]
      BY <1>5, <3>1
    <3>7. count.is = "value" => count = disk[Counter]
      BY <1>5, <3>1
    <3>8. CounterHolds(n, count, timer, since)
      <4>1. SUFFICES ASSUME n.pc # "setCounter", Live(timer)
                     PROVE  /\ count.is = "value" /\ count.exp >= timer.exp /\ count.val >= since
                            /\ n.pc \in Admitting => count.val > since
        BY DEF CounterHolds
      <4>2. /\ disk[Counter].is = "value" /\ disk[Counter].exp >= disk[Timer].exp /\ disk[Counter].val >= since
            /\ r.pc \in Admitting => disk[Counter].val > since
        BY <2>2, <3>1, <3>4, <4>1 DEF CounterHolds
      <4>3. Live(disk[Counter])
        BY <3>4, <4>1, <4>2, LiveWhen
      <4>4. count = disk[Counter]
        BY <1>1, <1>5, <2>1, <3>2, <4>3
      <4>5. QED
        BY <3>1, <3>4, <4>1, <4>2, <4>4
    <3>9. Phase(n, count, timer, since, began)
      <4> HIDE DEF since, r, k
      <4>1. QED
        BY <2>2, <2>3, <3>1, <3>4, <3>5, <3>6, <3>7 DEF Phase, Alike
    <3>10. HitPending(n, count, timer, since, began)
      BY <1>2, <2>1 DEF HitPending
    <3>11. QED
      BY <3>3, <3>8, <3>9, <3>10 DEF Good
  <2>5. CASE r.io.op # "remove"
    <3>1. Storing(r.io)
      BY <1>2, <2>5
    <3>2. n.pc = r.pc /\ e.is = "value" /\ e.val = r.io.val /\ e.exp = r.io.exp
      <4>1. disk[k] = IF k = Timer THEN disk[Timer] ELSE disk[Counter]
        BY <1>1
      <4>2. /\ r.io.op = "fill" => disk[k].id = r.io.id
            /\ r.io.op = "save" => (r.io.had <=> disk[k].is = "value")
        BY <2>2, <4>1 DEF HitPending
      <4>3. r.io.op = "fill" \/ r.io.op = "save"
        BY <3>1 DEF Storing
      <4>4. QED
        BY <1>2, <4>2, <4>3
    <3>3. CASE k = Timer
      <4>1. timer = e /\ count = disk[Counter] /\ timer.exp = began + Decay /\ r.pc = "setCounter"
        BY <1>3, <1>5, <2>1, <2>2, <3>1, <3>2, <3>3 DEF HitPending, AskShape
      <4>2. WindowOpen(n, timer, q, began)
        BY <3>2, <4>1, <1>5 DEF WindowOpen
      <4>3. CounterHolds(n, count, timer, since)
        BY <3>2, <4>1 DEF CounterHolds
      <4>4. Phase(n, count, timer, since, began)
        <5>1. since = 0 /\ r.got < r.max /\ now \in Nat /\ Decay \in Nat
          BY <1>0, <2>2, <4>1, ThrottleAssumption DEF Phase, ThrottleTypes
        <5> HIDE DEF since, r
        <5>2. QED
          BY <2>3, <3>2, <4>1, <5>1 DEF Phase, Alike, Admitting
      <4>5. HitPending(n, count, timer, since, began)
        BY <1>2, <2>1 DEF HitPending
      <4>6. QED
        BY <4>2, <4>3, <4>4, <4>5 DEF Good
    <3>4. CASE k = Counter
      <4>1. count = e /\ timer = disk[Timer] /\ r.pc = "info"
        BY <1>3, <1>5, <2>1, <3>1, <3>4 DEF AskShape
      <4>2. WindowOpen(n, timer, q, began)
        BY <2>1, <2>2, <3>4, <4>1 DEF WindowOpen
      <4>3. CounterHolds(n, count, timer, since)
        <5>1. count.val > since /\ (Live(timer) => count.exp >= timer.exp)
          BY <2>2, <3>1, <3>2, <3>4, <4>1 DEF HitPending
        <5>2. count.val \in Nat /\ since \in Nat
          BY <1>3, <1>0, <3>1, <3>2, <4>1 DEF AskShape, ThrottleTypes
        <5> HIDE DEF since
        <5>3. QED
          BY <3>2, <4>1, <5>1, <5>2 DEF CounterHolds
      <4>4. Phase(n, count, timer, since, began)
        <5>1. since < Top
          BY <2>2, <4>1 DEF Phase, Admitting
        <5> HIDE DEF since, r
        <5>2. QED
          BY <3>2, <4>1, <5>1 DEF Phase
      <4>5. HitPending(n, count, timer, since, began)
        BY <1>2, <2>1 DEF HitPending
      <4>6. QED
        BY <4>2, <4>3, <4>4, <4>5 DEF Good
    <3>5. QED
      BY <1>1, <3>3, <3>4
  <2>6. QED
    BY <2>4, <2>5
<1>8. QED
  <2>1. call' = [call EXCEPT ![c] = n] /\ disk' = [disk EXCEPT ![k] = e]
    BY <1>2
  <2> HIDE DEF k
  <2>2. QED
    BY <1>1, <1>3, <1>4, <1>5, <1>6, <1>7, <2>1, OneAskGoesOn

\* A request that is over: nobody is being served then, if it was alone.
LEMMA OneLess ==
    ASSUME ThrottleInv, NEW c \in Calls, Busy(c), call' = [call EXCEPT ![c] = Fresh],
           UNCHANGED <<driver, disk, now, starts, met>>, admitted' \in Seq(Nat),
           until' # Null => /\ until' \in Nat /\ call[c].alone
                            /\ disk[Timer].is = "value" => disk[Timer].exp <= until'
    PROVE  /\ ThrottleTypes' /\ ThrottleShape' /\ WaitingInv'
           /\ ~met => InTurn(call) /\ InTurn(call') /\ Turn(call) = call[c] /\ Turn(call') = Fresh
<1>0. call \in [Calls -> {Fresh} \cup Asking] /\ Fresh.pc = "idle" /\ Fresh.io.op = "none"
  BY DEF ThrottleInv, ThrottleTypes, Fresh, NoIo
<1>1. /\ call'[c] = Fresh /\ \A d \in Calls \ {c} : call'[d] = call[d]
      /\ \A d \in Calls : call'[d].pc # "idle" => d # c /\ Busy(d)
  BY <1>0 DEF Busy
<1>2. ThrottleTypes'
  BY <1>0 DEF ThrottleInv, ThrottleTypes
<1>3. ThrottleShape'
  <2>1. \A d \in Calls : AskShape(call'[d])
    BY <1>0, <1>1 DEF ThrottleInv, ThrottleShape, AskShape, Storing
  <2>2. QED
    BY <2>1 DEF ThrottleInv, ThrottleShape, AskShape, EntryShape, Storing
<1>4. WaitingInv'
  <2>1. \A d, f \in Calls : Busy(d)' /\ call'[d].alone /\ Busy(f)' => d = f
    BY <1>1 DEF ThrottleInv, WaitingInv, Busy
  <2>2. ASSUME until' # Null PROVE \A d \in Calls : ~Busy(d)'
    BY <1>1, <2>2 DEF ThrottleInv, WaitingInv, Busy
  <2>3. ASSUME NEW d \in Calls, Busy(d)' PROVE WaitsWell(call[d], disk[Timer])'
    BY <1>1, <2>3 DEF ThrottleInv, WaitingInv, Busy, WaitsWell, Live, Expired, Later
  <2>4. QED
    BY <2>1, <2>2, <2>3 DEF WaitingInv
<1>5. ASSUME ~met PROVE InTurn(call) /\ InTurn(call') /\ Turn(call) = call[c] /\ Turn(call') = Fresh
  <2>1. InTurn(call)
    BY <1>5 DEF ThrottleInv, SerialInv
  <2>2. \A d \in Calls : call'[d].pc = "idle"
    BY <1>1, <2>1 DEF InTurn, Busy
  <2>3. QED
    BY <2>1, <2>2, TurnIs DEF InTurn, Turn, Busy
<1>6. QED
  BY <1>2, <1>3, <1>4, <1>5

\* What holds of a window when nobody is being served.
LEMMA GoodAtRest ==
    ASSUME NEW r, NEW n, NEW count, NEW timer, NEW q \in 0 .. Len(admitted), NEW began,
           Good(r, count, timer, q, began), ~Storing(r.io), r.pc # "setCounter",
           n.pc \in {"idle", "tooMany"}, n.io.op = "none"
    PROVE  Good(n, count, timer, q, began)
<1> DEFINE since == Len(admitted) - q
<1>1. WindowOpen(n, timer, q, began)
  BY DEF Good, WindowOpen
<1>2. CounterHolds(n, count, timer, since)
  BY DEF Good, CounterHolds, Admitting
<1>3. Phase(n, count, timer, since, began)
  BY DEF Phase, Admitting
<1>4. HitPending(n, count, timer, since, began)
  BY DEF HitPending, Storing
<1>5. QED
  BY <1>1, <1>2, <1>3, <1>4 DEF Good

LEMMA Rejected ==
    ASSUME ThrottleInv, NEW c \in Calls, Reject(c)
    PROVE  ThrottleInv'
<1>1. /\ call[c] \in Asking /\ call[c].pc = "reject" /\ call[c].io.op = "none" /\ Busy(c)
      /\ WaitsWell(call[c], disk[Timer])
  BY MyTurn DEF Reject, AskingPcs
<1>2. /\ call' = [call EXCEPT ![c] = Fresh] /\ UNCHANGED <<driver, disk, now, starts, met>>
      /\ admitted' = admitted /\ admitted \in Seq(Nat)
  BY DEF Reject, ThrottleInv, ThrottleTypes
<1>3. until' # Null => /\ until' \in Nat /\ call[c].alone
                       /\ disk[Timer].is = "value" => disk[Timer].exp <= until'
  <2>1. Later(call[c].timer, now) \in Nat
    BY <1>1 DEF Later, Asking, ThrottleInv, ThrottleTypes
  <2>2. QED
    BY <1>1, <2>1 DEF Reject, WaitsWell, TurnedAway
<1>4. /\ ThrottleTypes' /\ ThrottleShape' /\ WaitingInv'
      /\ ~met => InTurn(call) /\ InTurn(call') /\ Turn(call) = call[c] /\ Turn(call') = Fresh
  BY <1>1, <1>2, <1>3, OneLess
<1>5. SerialInv'
  <2> SUFFICES ASSUME ~met PROVE SerialInv'
    BY <1>2 DEF SerialInv
  <2>1. PICK p, q \in 0 .. Len(admitted), began \in 0 .. now :
           Windows(p, q, began) /\ Good(call[c], disk[Counter], disk[Timer], q, began)
    BY <1>4 DEF ThrottleInv, SerialInv
  <2>2. Fresh.pc = "idle" /\ Fresh.io.op = "none"
    BY DEF Fresh, NoIo
  <2>3. Good(Fresh, disk[Counter], disk[Timer], q, began)
    BY <1>1, <2>1, <2>2, GoodAtRest DEF Storing
  <2>4. Good(Fresh, disk[Counter], disk[Timer], q, began)'
    BY <1>2, <2>3 DEF Good, WindowOpen, CounterHolds, Phase, HitPending, Live, Expired
  <2>5. Good(Turn(call), disk[Counter], disk[Timer], q, began)'
    BY <1>4, <2>4
  <2>6. Windows(p, q, began)'
    BY <1>2, <2>1 DEF Windows
  <2>7. SerialRequestsLimited'
    BY <1>2 DEF ThrottleInv, SerialInv, SerialRequestsLimited
  <2>8. p \in 0 .. Len(admitted') /\ q \in 0 .. Len(admitted') /\ began \in 0 .. now'
    BY <1>2
  <2>9. QED
    BY <1>4, <2>5, <2>6, <2>7, <2>8 DEF SerialInv
<1>6. QED
  BY <1>4, <1>5 DEF ThrottleInv

\* A request that is let through is one of its window, which had not let the
\* largest limit through; the one that came twice the limit before it is of a
\* window before that, which lasted until this one began.
LEMMA Admitted ==
    ASSUME ThrottleInv, NEW c \in Calls, Admit(c)
    PROVE  ThrottleInv'
<1> DEFINE total == Len(admitted)
<1>1. /\ call[c] \in Asking /\ call[c].pc \in {"admit", "threw"} /\ call[c].io.op = "none" /\ Busy(c)
  BY MyTurn DEF Admit, AskingPcs
<1>2. /\ call' = [call EXCEPT ![c] = Fresh] /\ UNCHANGED <<driver, disk, now, starts, met>>
      /\ until' = Null
  BY DEF Admit
<1>3. /\ admitted \in Seq(Nat) /\ now \in Nat /\ total \in Nat
      /\ admitted' \in Seq(Nat) /\ Len(admitted') = total + 1 /\ admitted'[total + 1] = now
      /\ \A i \in 1 .. total : admitted'[i] = admitted[i] /\ admitted[i] \in Nat
  BY DEF Admit, ThrottleInv, ThrottleTypes
<1>4. /\ ThrottleTypes' /\ ThrottleShape' /\ WaitingInv'
      /\ ~met => InTurn(call) /\ InTurn(call') /\ Turn(call) = call[c] /\ Turn(call') = Fresh
  BY <1>1, <1>2, <1>3, OneLess
<1>5. SerialInv'
  <2> SUFFICES ASSUME ~met PROVE SerialInv'
    BY <1>2 DEF SerialInv
  <2>0. Top \in Nat \ {0} /\ Decay \in Nat
    BY <1>1, LimitFacts, ThrottleAssumption DEF Asking
  <2>1. PICK p, q \in 0 .. total, began \in 0 .. now :
           Windows(p, q, began) /\ Good(call[c], disk[Counter], disk[Timer], q, began)
    BY <1>4 DEF ThrottleInv, SerialInv
  <2>2. total - q < Top /\ call[c].pc = "admit"
    BY <1>1, <2>1 DEF Good, Phase, Admitting
  <2>3. Windows(p, q, began)'
    <3>1. /\ p <= q /\ q <= total + 1 /\ began <= now /\ q - p <= Top /\ total + 1 - q <= Top
      BY <1>3, <2>0, <2>1, <2>2 DEF Windows
    <3>2. ASSUME NEW i \in 1 .. total + 1
          PROVE  /\ admitted'[i] <= now
                 /\ i <= q => admitted'[i] <= began
                 /\ i <= p => admitted'[i] + Decay <= began
      <4>1. CASE i = total + 1
        BY <1>3, <2>1, <4>1
      <4>2. CASE i # total + 1
        <5>1. i \in 1 .. total
          BY <1>3, <4>2
        <5>2. QED
          BY <1>3, <2>1, <5>1 DEF Windows
      <4>3. QED
        BY <4>1, <4>2
    <3>3. QED
      BY <1>2, <1>3, <3>1, <3>2 DEF Windows
  <2>4. Good(Fresh, disk[Counter], disk[Timer], q, began)'
    <3>0. Fresh.pc = "idle" /\ Fresh.io.op = "none" /\ ~Storing(Fresh.io) /\ ~Storing(call[c].io)
      BY <1>1 DEF Fresh, NoIo, Storing
    <3>1. WindowOpen(Fresh, disk[Timer], q, began)'
      BY <1>2, <2>1, <3>0 DEF Good, WindowOpen
    <3>2. CounterHolds(Fresh, disk[Counter], disk[Timer], Len(admitted) - q)'
      <4>1. SUFFICES ASSUME Live(disk[Timer])
                     PROVE  disk[Counter].is = "value" /\ disk[Counter].exp >= disk[Timer].exp
                            /\ disk[Counter].val >= total + 1 - q
        BY <1>2, <1>3, <3>0 DEF CounterHolds, Live, Expired, Admitting
      <4>2. disk[Counter].is = "value" /\ disk[Counter].exp >= disk[Timer].exp /\ disk[Counter].val > total - q
        BY <2>1, <2>2, <3>0, <4>1 DEF Good, CounterHolds, Admitting
      <4>3. disk[Counter].val \in Nat
        BY <4>2, LiveWhen
      <4>4. total \in Nat /\ q \in 0 .. total
        BY <1>3, <2>1
      <4> HIDE DEF total
      <4>5. disk[Counter].val >= total + 1 - q
        BY <4>2, <4>3, <4>4
      <4>6. QED
        BY <4>2, <4>5
    <3>3. Phase(Fresh, disk[Counter], disk[Timer], Len(admitted) - q, began)'
      BY <3>0 DEF Phase, Admitting
    <3>4. HitPending(Fresh, disk[Counter], disk[Timer], Len(admitted) - q, began)'
      BY <3>0 DEF HitPending, Storing
    <3>5. QED
      BY <3>1, <3>2, <3>3, <3>4 DEF Good
  <2>5. Good(Turn(call), disk[Counter], disk[Timer], q, began)'
    BY <1>4, <2>4
  <2>6. SerialRequestsLimited'
    <3>1. SUFFICES ASSUME NEW i \in 1 .. total + 1, i + 2 * Top \in 1 .. total + 1
                   PROVE  admitted'[i + 2 * Top] >= admitted'[i] + Decay
      <4>1. DOMAIN admitted' = 1 .. total + 1
        BY <1>3
      <4>2. QED
        BY <1>2, <4>1 DEF SerialRequestsLimited, Top
    <3>2. i \in 1 .. total
      BY <1>3, <2>0, <3>1
    <3>3. CASE i + 2 * Top = total + 1
      <4>1. i <= p
        BY <1>3, <2>0, <2>1, <2>2, <3>3 DEF Windows
      <4>2. admitted[i] + Decay <= began
        BY <2>1, <3>2, <4>1 DEF Windows
      <4>3. admitted'[i] = admitted[i] /\ admitted[i] \in Nat /\ admitted'[i + 2 * Top] = now
        BY <1>3, <3>2, <3>3
      <4>4. QED
        BY SMTT(30), <1>3, <2>0, <2>1, <4>2, <4>3
    <3>4. CASE i + 2 * Top # total + 1
      <4>1. i + 2 * Top \in 1 .. total
        <5>1. i + 2 * Top \in 1 .. total + 1 /\ 2 * Top \in Nat /\ i \in Nat
          BY <2>0, <3>1
        <5>2. QED
          BY <1>3, <3>4, <5>1
      <4>2. DOMAIN admitted = 1 .. total
        BY <1>3
      <4>3. admitted[i + 2 * Top] >= admitted[i] + Decay
        BY <3>2, <4>1, <4>2 DEF ThrottleInv, SerialInv, SerialRequestsLimited, Top
      <4>4. QED
        BY <1>3, <3>2, <4>1, <4>3
    <3>5. QED
      BY <3>3, <3>4
  <2>7. p \in 0 .. Len(admitted') /\ q \in 0 .. Len(admitted') /\ began \in 0 .. now'
    BY <1>2, <1>3, <2>1
  <2>8. QED
    BY <1>4, <2>3, <2>5, <2>6, <2>7 DEF SerialInv
<1>6. QED
  BY <1>4, <1>5 DEF ThrottleInv

\* A request arrives: alone, or everyone under way is overlapped from now on.
LEMMA Arrived ==
    ASSUME ThrottleInv, NEW c \in Calls, NEW max \in Limits, Arrive(c, max)
    PROVE  ThrottleInv'
<1> DEFINE alone == \A d \in Calls : ~Busy(d)
           waited == alone /\ until # Null /\ now > until
<1>0. /\ ~Busy(c) /\ UNCHANGED <<driver, disk, now, admitted>> /\ starts' \in Nat /\ until' = Null
      /\ met' = (met \/ ~alone) /\ call \in [Calls -> {Fresh} \cup Asking] /\ met' \in BOOLEAN
  BY DEF Arrive, ThrottleInv, ThrottleTypes
<1>1. PICK n \in Asking : /\ n = Request(max, alone, waited)
                          /\ n.pc = "tooMany" /\ n.io.op = "none" /\ n.alone = alone /\ n.waited = waited
  <2>1. Request(max, alone, waited) \in Asking
    BY DEF Request, Asking, AskingPcs, AskingIo, Ops, NoIo
  <2>2. QED
    BY <2>1 DEF Request, NoIo
<1>2. call' = [d \in Calls |-> IF d = c THEN n ELSE IF Busy(d) THEN [call[d] EXCEPT !.alone = FALSE] ELSE call[d]]
  BY <1>1 DEF Arrive
<1>3. ASSUME NEW d \in Calls \ {c}
      PROVE  /\ call'[d] \in {Fresh} \cup Asking /\ call'[d].pc = call[d].pc /\ call'[d].io = call[d].io
             /\ Busy(d) => ~call'[d].alone
             /\ alone => call'[d] = call[d]
  <2>1. CASE Busy(d)
    <3>1. call[d] \in Asking
      BY <2>1, BusyAsks DEF ThrottleInv
    <3>2. call'[d] = [call[d] EXCEPT !.alone = FALSE]
      BY <1>2, <1>3, <2>1
    <3>3. QED
      BY <2>1, <3>1, <3>2 DEF Asking
  <2>2. CASE ~Busy(d)
    BY <1>0, <1>2, <1>3, <2>2
  <2>3. QED
    BY <2>1, <2>2
<1>4. call'[c] = n
  BY <1>2
<1>5. ThrottleTypes'
  <2>1. call' \in [Calls -> {Fresh} \cup Asking]
    <3>1. \A d \in Calls : call'[d] \in {Fresh} \cup Asking
      BY <1>1, <1>3, <1>4
    <3>2. call' = [d \in Calls |-> call'[d]]
      BY <1>2
    <3>3. QED
      BY <3>1, <3>2
  <2>2. QED
    BY <1>0, <2>1 DEF ThrottleInv, ThrottleTypes
<1>6. ThrottleShape'
  <2>1. \A d \in Calls : AskShape(call'[d])
    BY <1>1, <1>3, <1>4 DEF ThrottleInv, ThrottleShape, AskShape, Storing
  <2>2. QED
    BY <1>0, <2>1 DEF ThrottleInv, ThrottleShape, AskShape, EntryShape, Storing
<1>7. waited => ~Live(disk[Timer])
  <2>1. SUFFICES ASSUME waited, disk[Timer].is = "value" PROVE ~Live(disk[Timer])
    BY DEF Live
  <2>2. disk[Timer].exp <= until /\ until < now /\ until \in Nat /\ now \in Nat
    BY <2>1 DEF ThrottleInv, ThrottleTypes, WaitingInv
  <2>3. disk[Timer].exp \in Nat \ {0}
    BY <2>1, LiveWhen
  <2>4. QED
    BY <2>2, <2>3 DEF Live, Expired
<1>8. WaitingInv'
  <2>1. \A d, f \in Calls : Busy(d)' /\ call'[d].alone /\ Busy(f)' => d = f
    BY <1>1, <1>3, <1>4 DEF Busy
  <2>2. ASSUME NEW d \in Calls, Busy(d)' PROVE WaitsWell(call[d], disk[Timer])'
    <3>1. CASE d = c
      BY <1>0, <1>1, <1>4, <1>7, <3>1 DEF WaitsWell, TurnedAway, Live, Expired
    <3>2. CASE d # c
      BY <1>3, <2>2, <3>2 DEF Busy, WaitsWell
    <3>3. QED
      BY <3>1, <3>2
  <2>3. QED
    BY <1>0, <2>1, <2>2 DEF WaitingInv
<1>9. SerialInv'
  <2> SUFFICES ASSUME ~met' PROVE SerialInv'
    BY DEF SerialInv
  <2>1. alone /\ ~met
    BY <1>0
  <2>2. InTurn(call) /\ Turn(call) = Fresh
    BY <2>1 DEF InTurn, Turn, Busy
  <2>3. InTurn(call') /\ Turn(call') = n
    <3>1. \A d \in Calls : call'[d].pc # "idle" => d = c
      BY <1>3, <2>1 DEF Busy
    <3>2. InTurn(call') /\ call'[c].pc # "idle"
      BY <1>1, <1>4, <3>1 DEF InTurn
    <3>3. QED
      BY <1>4, <3>2, TurnIs
  <2>4. PICK p, q \in 0 .. Len(admitted), began \in 0 .. now :
           Windows(p, q, began) /\ Good(Fresh, disk[Counter], disk[Timer], q, began)
    BY <2>1, <2>2 DEF ThrottleInv, SerialInv
  <2>5. Fresh.pc # "setCounter" /\ ~Storing(Fresh.io)
    BY DEF Fresh, NoIo, Storing
  <2>6. Good(n, disk[Counter], disk[Timer], q, began)
    BY <1>1, <2>4, <2>5, GoodAtRest
  <2>7. Good(n, disk[Counter], disk[Timer], q, began)'
    BY <1>0, <2>6 DEF Good, WindowOpen, CounterHolds, Phase, HitPending, Live, Expired
  <2>8. Good(Turn(call), disk[Counter], disk[Timer], q, began)'
    BY <2>3, <2>7
  <2>9. Windows(p, q, began)'
    BY <1>0, <2>4 DEF Windows
  <2>10. SerialRequestsLimited'
    BY <1>0, <2>1 DEF ThrottleInv, SerialInv, SerialRequestsLimited
  <2>11. p \in 0 .. Len(admitted') /\ q \in 0 .. Len(admitted') /\ began \in 0 .. now'
    BY <1>0
  <2>12. QED
    BY <2>3, <2>8, <2>9, <2>10, <2>11 DEF SerialInv
<1>10. QED
  BY <1>5, <1>6, <1>8, <1>9 DEF ThrottleInv

\* As time passes entries run out, and none comes to life.
LEMMA ThrottleTicks ==
    ASSUME ThrottleInv, Tick, UNCHANGED <<admitted, met, until>>
    PROVE  ThrottleInv'
<1>0. now \in Nat /\ now' = now + 1 /\ UNCHANGED <<driver, disk, call, starts>>
  BY DEF Tick, ThrottleInv, ThrottleTypes
<1>1. \A k \in {Counter, Timer} : Live(disk[k])' => Live(disk[k])
  <2>1. \A k \in {Counter, Timer} : disk[k] \in CountEntry
    BY EntriesThere DEF ThrottleInv
  <2>2. QED
    BY <1>0, <2>1 DEF Live, Expired, CountEntry
<1>2. ThrottleTypes' /\ ThrottleShape'
  BY <1>0 DEF ThrottleInv, ThrottleTypes, ThrottleShape, AskShape, EntryShape, Storing
<1>3. WaitingInv'
  <2>1. ASSUME NEW c \in Calls, Busy(c) PROVE WaitsWell(call[c], disk[Timer])'
    <3>1. call[c] \in Asking /\ WaitsWell(call[c], disk[Timer])
      BY <2>1, BusyAsks DEF ThrottleInv, WaitingInv
    <3>2. Later(call[c].timer, now) <= Later(call[c].timer, now') /\ Later(call[c].timer, now) \in Nat
          /\ Later(call[c].timer, now') \in Nat
      BY <1>0, <3>1 DEF Later, Asking
    <3>3. disk[Timer].exp \in Nat
      BY EntriesThere DEF ThrottleInv, CountEntry
    <3>4. /\ Live(disk[Timer])' => Live(disk[Timer])
      BY <1>1
    <3>5. WaitsWell(call[c], disk[Timer])' <=>
             (call[c].alone =>
               /\ call[c].pc \in TurnedAway \ {"availableIn"} /\ disk[Timer].is = "value"
                    => disk[Timer].exp <= Later(call[c].timer, now')
               /\ call[c].waited => /\ call[c].pc \notin TurnedAway
                                    /\ call[c].pc \in {"tooMany", "limited"} => ~Live(disk[Timer])')
      BY <1>0 DEF WaitsWell, Later
    <3>6. QED
      BY <3>1, <3>2, <3>3, <3>4, <3>5 DEF WaitsWell
  <2>2. QED
    BY <1>0, <2>1 DEF ThrottleInv, WaitingInv, Busy
<1>4. SerialInv'
  <2> SUFFICES ASSUME ~met PROVE SerialInv'
    BY DEF SerialInv
  <2> DEFINE r == Turn(call)
             count == disk[Counter]
             timer == disk[Timer]
  <2>1. PICK p, q \in 0 .. Len(admitted), began \in 0 .. now :
           Windows(p, q, began) /\ Good(r, count, timer, q, began)
    BY DEF ThrottleInv, SerialInv
  <2>2. (Live(count)' => Live(count)) /\ (Live(timer)' => Live(timer))
    BY <1>1
  <2>3. Decay \in Nat
    BY ThrottleAssumption
  <2>4. r' = r /\ count' = count /\ timer' = timer /\ Len(admitted') - q = Len(admitted) - q
    BY <1>0
  <2>5. WindowOpen(r, timer, q, began)'
    BY <1>0, <2>1, <2>3, <2>4 DEF Good, WindowOpen, Storing
  <2>6. CounterHolds(r, count, timer, Len(admitted) - q)'
    <3>1. Live(timer)' => Live(timer)
      BY <2>2
    <3>2. CounterHolds(r, count, timer, Len(admitted) - q)
      BY <2>1 DEF Good
    <3> HIDE DEF r, count, timer
    <3>3. QED
      BY <2>4, <3>1, <3>2 DEF CounterHolds, Storing
  <2>7. Phase(r, count, timer, Len(admitted) - q, began)'
    <3>1. Phase(r, count, timer, Len(admitted) - q, began)
      BY <2>1 DEF Good
    <3> HIDE DEF r, count, timer
    <3>2. QED
      BY <2>2, <2>4, <3>1 DEF Phase, Admitting
  <2>8. HitPending(r, count, timer, Len(admitted) - q, began)'
    <3>1. HitPending(r, count, timer, Len(admitted) - q, began)
      BY <2>1 DEF Good
    <3>2. r'.io.key = Timer \/ ~(r'.io.key = Timer)
      OBVIOUS
    <3> HIDE DEF r, count, timer
    <3>3. QED
      BY <2>2, <2>4, <3>1 DEF HitPending, Storing
  <2>9. Good(r, count, timer, q, began)'
    BY <2>4, <2>5, <2>6, <2>7, <2>8 DEF Good
  <2>10. Windows(p, q, began)'
    <3>1. admitted \in Seq(Nat)
      BY DEF ThrottleInv, ThrottleTypes
    <3>2. \A i \in 1 .. Len(admitted) : admitted[i] \in Nat
      BY <3>1
    <3>3. QED
      BY <1>0, <2>1, <3>2 DEF Windows
  <2>11. InTurn(call') /\ SerialRequestsLimited'
    BY <1>0 DEF ThrottleInv, SerialInv, SerialRequestsLimited
  <2>12. p \in 0 .. Len(admitted') /\ q \in 0 .. Len(admitted') /\ began \in 0 .. now'
    BY <1>0
  <2>13. QED
    BY <2>9, <2>10, <2>11, <2>12 DEF SerialInv
<1>5. QED
  BY <1>2, <1>3, <1>4 DEF ThrottleInv

LEMMA ThrottleInvInit == throttleInit => ThrottleInv
<1> SUFFICES ASSUME throttleInit PROVE ThrottleInv
  OBVIOUS
<1>0. /\ driver \in Drivers /\ disk = [k \in Keys |-> Nothing(0)] /\ now = 0 /\ call = [c \in Calls |-> Fresh]
      /\ starts = 0 /\ admitted = <<>> /\ met = FALSE /\ until = Null
  BY DEF throttleInit, CacheInit
<1>1. Nothing(0) \in CountEntry /\ Nothing(0).is # "value" /\ Fresh.pc = "idle" /\ Fresh.io.op = "none"
  BY DEF Nothing, CountEntry, Fresh, NoIo
<1>2. disk \in [Keys -> CountEntry] /\ \A k \in {Counter, Timer} : disk[k].is # "value"
  BY <1>0, <1>1, ThrottleAssumption
<1>3. ThrottleTypes
  <2>1. call \in [Calls -> {Fresh} \cup Asking] /\ admitted \in Seq(Nat) /\ until \in Nat \cup {Null}
    BY <1>0
  <2>2. QED
    BY <1>0, <1>2, <2>1 DEF ThrottleTypes
<1>4. ThrottleShape
  BY <1>0, <1>1, <1>2 DEF ThrottleShape, AskShape, EntryShape, Storing
<1>5. WaitingInv
  BY <1>0, <1>1 DEF WaitingInv, Busy
<1>6. SerialInv
  <2>1. InTurn(call) /\ Turn(call) = Fresh
    BY <1>0, <1>1 DEF InTurn, Turn
  <2>2. Len(admitted) = 0 /\ DOMAIN admitted = {}
    BY <1>0
  <2>4. SerialRequestsLimited
    BY <2>2 DEF SerialRequestsLimited
  <2>5. Good(Fresh, disk[Counter], disk[Timer], 0, 0)
    BY <1>1, <1>2 DEF Good, WindowOpen, CounterHolds, Phase, HitPending, Live, Storing, Admitting
  <2>6. (0 <= Top) => Windows(0, 0, 0)
    BY <1>0, <2>2 DEF Windows
  <2>7. 0 <= Top
    <3>1. PICK m \in Limits : TRUE
      BY ThrottleAssumption
    <3>2. Top \in Nat
      BY <3>1, LimitFacts, ThrottleAssumption
    <3>3. QED
      BY <3>2
  <2>8. 0 \in 0 .. Len(admitted) /\ 0 \in 0 .. now
    BY <1>0, <2>2
  <2>9. QED
    BY <2>1, <2>4, <2>5, <2>6, <2>7, <2>8 DEF SerialInv
<1>7. QED
  BY <1>3, <1>4, <1>5, <1>6 DEF ThrottleInv

LEMMA ThrottleInvStep == ThrottleInv /\ [ThrottleNext]_throttleVars => ThrottleInv'
<1> SUFFICES ASSUME ThrottleInv, [ThrottleNext]_throttleVars PROVE ThrottleInv'
  OBVIOUS
<1>1. CASE Tick /\ UNCHANGED <<admitted, met, until>>
  BY <1>1, ThrottleTicks
<1>2. ASSUME NEW c \in Calls, TooMany(c), UNCHANGED <<driver, now, source, starts, admitted, met, until>>
      PROVE  ThrottleInv'
  BY <1>2, TooManyReads, LimitedReads, ResetCounter, ResetTimer DEF TooMany
<1>3. ASSUME NEW c \in Calls, Hit(c), UNCHANGED <<driver, now, source, starts, admitted, met, until>>
      PROVE  ThrottleInv'
  BY <1>3, HitReads, TimerSought, TimerSet, FirstCounted, TimerRead, NextCounted DEF Hit
<1>4. ASSUME NEW c \in Calls, Info(c), UNCHANGED <<driver, now, source, starts, admitted, met, until>>
      PROVE  ThrottleInv'
  BY <1>4, InfoReads, InfoTimerReads, AvailableInReads, InfoLimitedReads, InfoLimitedTimerReads DEF Info
<1>5. ASSUME NEW c \in Calls, ThrottleStep(c) PROVE ThrottleInv'
  BY <1>2, <1>3, <1>4, <1>5, Admitted, Rejected, AskFinished DEF ThrottleStep
<1>6. ASSUME NEW c \in Calls, NEW max \in Limits, Arrive(c, max) PROVE ThrottleInv'
  BY <1>6, Arrived
<1>7. CASE UNCHANGED throttleVars
  <2>1. UNCHANGED <<driver, disk, now, call, starts, admitted, met, until>>
    BY <1>7 DEF throttleVars
  <2>2. ThrottleTypes' /\ ThrottleShape'
    BY <2>1 DEF ThrottleInv, ThrottleTypes, ThrottleShape, AskShape, EntryShape, Storing
  <2>3. WaitingInv'
    BY <2>1 DEF ThrottleInv, WaitingInv, WaitsWell, Busy, Live, Expired, Later
  <2>4. SerialInv'
    <3> SUFFICES ASSUME ~met PROVE SerialInv'
      BY <2>1 DEF SerialInv
    <3>1. PICK p, q \in 0 .. Len(admitted), began \in 0 .. now :
             Windows(p, q, began) /\ Good(Turn(call), disk[Counter], disk[Timer], q, began)
      BY DEF ThrottleInv, SerialInv
    <3>2. Turn(call)' = Turn(call)
      BY <2>1
    <3>3. Good(Turn(call), disk[Counter], disk[Timer], q, began)'
      BY <2>1, <3>1, <3>2 DEF Good, WindowOpen, CounterHolds, Phase, HitPending, Live, Expired
    <3>4. Windows(p, q, began)'
      BY <2>1, <3>1 DEF Windows
    <3>5. InTurn(call') /\ SerialRequestsLimited'
      BY <2>1 DEF ThrottleInv, SerialInv, SerialRequestsLimited
    <3>6. p \in 0 .. Len(admitted') /\ q \in 0 .. Len(admitted') /\ began \in 0 .. now'
      BY <2>1
    <3>7. QED
      BY <3>3, <3>4, <3>5, <3>6 DEF SerialInv
  <2>5. QED
    BY <2>2, <2>3, <2>4 DEF ThrottleInv
<1>8. QED
  BY <1>1, <1>5, <1>6, <1>7 DEF ThrottleNext

\* The limit is kept by requests that come one after another, through any number
\* of windows: Decay seconds let no more than twice the largest limit through.
\* And who was turned away alone, waits and comes back alone is let through.
THEOREM LimitKept == ThrottleSpec => []LimitAsStated
<1>1. ThrottleInv => SerialRequestsLimited
  BY DEF ThrottleInv, SerialInv, SerialRequestsLimited
<1>2. ThrottleInv => WaitingIsEnough
  <2>1. SUFFICES ASSUME ThrottleInv, NEW c \in Calls, call[c].pc \in TurnedAway
                 PROVE  ~(call[c].waited /\ call[c].alone)
    BY DEF WaitingIsEnough, TurnedAway
  <2>2. Busy(c)
    BY <2>1 DEF Busy, TurnedAway
  <2>3. QED
    BY <2>1, <2>2 DEF ThrottleInv, WaitingInv, WaitsWell
<1>3. ThrottleInv => LimitAsStated
  BY <1>1, <1>2 DEF LimitAsStated
<1>4. QED
  BY <1>3, ThrottleInvInit, ThrottleInvStep, PTL DEF ThrottleSpec

-----------------------------------------------------------------------------
(* Deployments: one runner at a time. *)

\* Every runner has its progress, and there are two lock names.
Shaped == /\ DOMAIN proc = Runners /\ \A p \in Runners : "pc" \in DOMAIN proc[p]
          /\ DOMAIN lock = {"default", "env"}

\* In SQL a fresh holds its lock until it starts the runner anew.
FreshHolds == ~mongo => \A p \in Runners : proc[p].pc \in {"drop", "again"} => lock[LockName] = p

\* A runner at work holds the runner's lock, unless a fresh has broken in.
RunnerHolds ==
    "crossed" \notin events =>
        \A p \in Runners : proc[p].pc \in Working \ {"drop"} => lock["default"] = p

HeldInv == Shaped /\ FreshHolds /\ RunnerHolds

\* What a step of one runner does to the runners' places.
LEMMA PlaceStep ==
    ASSUME Shaped, NEW p \in Runners,
           \/ Step(p) \/ Crash(p)
           \/ \E cmd \in {"up", "down", "fresh"}, policy \in {"strict", "ignore"} : Command(p, cmd, policy)
    PROVE  /\ DOMAIN proc' = Runners /\ "pc" \in DOMAIN proc'[p]
           /\ \A q \in Runners \ {p} : proc'[q] = proc[q]
<1>1. DOMAIN proc = Runners /\ "pc" \in DOMAIN proc[p]
  BY DEF Shaped
<1>2. (\E x : proc' = [proc EXCEPT ![p] = x]) => DOMAIN proc' = Runners /\ \A q \in Runners \ {p} : proc'[q] = proc[q]
  BY <1>1
<1>3. ASSUME NEW pc, Becomes(p, pc)
      PROVE  (\E x : proc' = [proc EXCEPT ![p] = x]) /\ "pc" \in DOMAIN proc'[p]
  BY <1>1, <1>3 DEF Becomes
<1>4. ASSUME RunOne(p)
      PROVE  (\E x : proc' = [proc EXCEPT ![p] = x]) /\ "pc" \in DOMAIN proc'[p]
  <2>1. Becomes(p, "release") \/ proc' = [proc EXCEPT ![p].left = Tail(@)]
    BY <1>4 DEF RunOne
  <2>2. QED
    BY <1>1, <1>3, <2>1
<1>5. (\E x : proc' = [proc EXCEPT ![p] = x]) /\ "pc" \in DOMAIN proc'[p]
  <2>1. CASE AcquireLock(p) \/ ReleaseLock(p) \/ FreshLock(p) \/ Again(p) \/ Crash(p) \/ Drop(p)
    BY <1>1, <1>3, <2>1 DEF AcquireLock, ReleaseLock, FreshLock, Again, Crash, Drop, Idle
  <2>2. CASE ReadApplied(p) \/ NextFile(p) \/ NextRevert(p)
    BY <1>1, <1>3, <2>2 DEF ReadApplied, NextFile, NextRevert
  <2>3. CASE Record(p)
    <3>1. \/ Becomes(p, "release")
          \/ proc' = [proc EXCEPT ![p].pc = "files", ![p].at = proc[p].at + 1]
      BY <2>3 DEF Record
    <3>2. QED
      BY <1>1, <1>3, <3>1
  <2>4. CASE ReadBatches(p) \/ Erase(p)
    BY <1>1, <1>3, <2>4 DEF ReadBatches, Erase
  <2>5. CASE Apply(p) \/ Revert(p)
    BY <1>3, <1>4, <2>5 DEF Apply, Revert
  <2>6. ASSUME NEW cmd, NEW policy, Command(p, cmd, policy)
        PROVE  (\E x : proc' = [proc EXCEPT ![p] = x]) /\ "pc" \in DOMAIN proc'[p]
    BY <1>1, <2>6 DEF Command, Idle
  <2>7. QED
    BY <2>1, <2>2, <2>3, <2>4, <2>5, <2>6 DEF Step
<1>6. QED
  BY <1>2, <1>5

LEMMA HeldStep == None \notin Runners /\ HeldInv /\ [Next]_vars => HeldInv'
<1> SUFFICES ASSUME None \notin Runners, HeldInv, [Next]_vars PROVE HeldInv'
  OBVIOUS
<1>1. Shaped /\ FreshHolds /\ RunnerHolds
  BY DEF HeldInv
<1>2. DOMAIN proc = Runners /\ (\A p \in Runners : "pc" \in DOMAIN proc[p]) /\ DOMAIN lock = {"default", "env"}
  BY <1>1 DEF Shaped
<1>3. LockName \in {"default", "env"} /\ (UNCHANGED envLock => LockName' = LockName)
  BY DEF LockName
<1> DEFINE Act(p) == \/ Step(p) \/ Crash(p)
                     \/ \E cmd \in {"up", "down", "fresh"}, policy \in {"strict", "ignore"} : Command(p, cmd, policy)
           Was(p) == proc[p].pc
           Gets(p) == proc'[p].pc
<1>4. ASSUME NEW p \in Runners, Act(p)
      PROVE  /\ DOMAIN proc' = Runners /\ (\A q \in Runners : "pc" \in DOMAIN proc'[q])
             /\ \A q \in Runners \ {p} : proc'[q] = proc[q]
  BY <1>2, <1>4, PlaceStep, <1>1
<1>5. ASSUME NEW p \in Runners, Act(p), UNCHANGED <<mongo, envLock, lock>>, events \subseteq events',
             Gets(p) \in Working \ {"drop"} => Was(p) \in Working \ {"drop"},
             mongo \/ Gets(p) \notin {"drop", "again"}
      PROVE  HeldInv'
  <2>1. Shaped'
    BY <1>2, <1>4, <1>5 DEF Shaped
  <2>2. FreshHolds'
    BY <1>1, <1>3, <1>4, <1>5 DEF FreshHolds
  <2>3. RunnerHolds'
    BY <1>1, <1>4, <1>5 DEF RunnerHolds
  <2>4. QED
    BY <2>1, <2>2, <2>3 DEF HeldInv
<1>6. ASSUME NEW p \in Runners, Act(p), NEW name \in {"default", "env"}, Got(p, name), lock[name] = None,
             UNCHANGED <<mongo, envLock>>, events \subseteq events',
             \/ Gets(p) \in Working \ {"drop"} /\ name = "default"
             \/ Gets(p) = "drop" /\ name = LockName
      PROVE  HeldInv'
  <2>1. lock' = [lock EXCEPT ![name] = p]
    BY <1>6 DEF Got
  <2>2. Shaped'
    BY <1>2, <1>4, <1>6, <2>1 DEF Shaped
  <2>3. FreshHolds'
    BY <1>1, <1>2, <1>3, <1>4, <1>6, <2>1 DEF FreshHolds, Working
  <2>4. RunnerHolds'
    BY <1>1, <1>2, <1>4, <1>6, <2>1 DEF RunnerHolds
  <2>5. QED
    BY <2>2, <2>3, <2>4 DEF HeldInv
<1>7. ASSUME NEW p \in Runners, Act(p), UNCHANGED <<mongo, envLock>>, events \subseteq events',
             Gets(p) \notin Working \cup {"again"},
             DOMAIN lock' = DOMAIN lock,
             \A name \in {"default", "env"} : lock'[name] = lock[name] \/ lock[name] = p
      PROVE  HeldInv'
  <2>1. Shaped'
    BY <1>2, <1>4, <1>7 DEF Shaped
  <2>2. FreshHolds'
    BY <1>1, <1>3, <1>4, <1>7 DEF FreshHolds, Working
  <2>3. RunnerHolds'
    BY <1>1, <1>4, <1>7 DEF RunnerHolds
  <2>4. QED
    BY <2>1, <2>2, <2>3 DEF HeldInv
<1>8. ASSUME NEW p \in Runners, Step(p) \/ Crash(p) PROVE HeldInv'
  <2>1. CASE AcquireLock(p)
    <3>1. CASE lock["default"] = None
      BY <1>2, <1>6, <2>1, <3>1 DEF AcquireLock, Becomes, Step, Working
    <3>2. CASE lock["default"] # None
      BY <1>2, <1>5, <2>1, <3>2 DEF AcquireLock, Idle, Step, Working
    <3>3. QED
      BY <3>1, <3>2
  <2>2. CASE FreshLock(p)
    <3>1. CASE lock[LockName] = None
      BY <1>2, <1>3, <1>6, <2>2, <3>1 DEF FreshLock, Becomes, Step
    <3>2. CASE lock[LockName] # None
      BY <1>2, <1>5, <2>2, <3>2 DEF FreshLock, Idle, Step, Working
    <3>3. QED
      BY <3>1, <3>2
  <2>3. CASE Crash(p)
    BY <1>2, <1>7, <2>3 DEF Crash, Idle, Working
  <2>4. CASE Again(p)
    <3>1. Gets(p) = "lock" /\ UNCHANGED <<mongo, envLock, events>> /\ Act(p)
      BY <1>2, <2>4 DEF Again, Becomes, Step
    <3>2. lock' = [lock EXCEPT ![LockName] = IF lock[LockName] = p THEN None ELSE lock[LockName]]
      BY <2>4 DEF Again
    <3>3. QED
      BY <1>2, <1>3, <1>7, <3>1, <3>2 DEF Working
  <2>5. CASE ReleaseLock(p)
    <3>1. Was(p) = "release" /\ Gets(p) = "idle" /\ UNCHANGED <<mongo, envLock, events>> /\ Act(p)
      BY <1>2, <2>5 DEF ReleaseLock, Idle, Step
    <3>2. lock' = [lock EXCEPT !["default"] = IF mongo \/ lock["default"] = p THEN None ELSE lock["default"]]
      BY <2>5 DEF ReleaseLock
    <3>3. CASE lock["default"] = p \/ ~mongo
      <4>1. DOMAIN lock' = DOMAIN lock
            /\ \A name \in {"default", "env"} : lock'[name] = lock[name] \/ lock[name] = p
        BY <1>2, <3>2, <3>3
      <4>2. QED
        BY <1>7, <3>1, <4>1 DEF Working
    <3>4. CASE lock["default"] # p /\ mongo
      <4>1. "crossed" \in events'
        BY <1>1, <3>1, <3>4 DEF RunnerHolds, Working
      <4>2. Shaped'
        BY <1>2, <1>4, <3>1, <3>2 DEF Shaped
      <4>3. QED
        BY <3>1, <3>4, <4>1, <4>2 DEF HeldInv, FreshHolds, RunnerHolds
    <3>5. QED
      BY <3>3, <3>4
  <2>6. CASE Drop(p)
    <3>1. Was(p) = "drop" /\ Gets(p) \in {"drop", "again"} /\ UNCHANGED <<mongo, envLock>> /\ Act(p)
          /\ events \subseteq events'
      BY <1>2, <2>6 DEF Drop, Becomes, Step
    <3>2. lock' = lock \/ (mongo /\ lock' = [n \in DOMAIN lock |-> None])
      BY <2>6 DEF Drop
    <3>3. Shaped'
      BY <1>2, <1>4, <3>1, <3>2 DEF Shaped
    <3>4. FreshHolds'
      BY <1>1, <1>3, <1>4, <3>1, <3>2 DEF FreshHolds
    <3>5. RunnerHolds'
      <4>1. CASE lock' = lock
        BY <1>1, <1>4, <3>1, <4>1 DEF RunnerHolds, Working
      <4>2. CASE mongo /\ \E q \in Runners : q # p /\ InSection(q)
        BY <2>6, <4>2 DEF Drop, Unlocked, RunnerHolds
      <4>3. CASE \A q \in Runners \ {p} : ~InSection(q)
        BY <1>4, <3>1, <4>3 DEF RunnerHolds, InSection, Working
      <4>4. QED
        BY <3>2, <4>1, <4>2, <4>3
    <3>6. QED
      BY <3>3, <3>4, <3>5 DEF HeldInv
  <2>7. CASE ReadApplied(p) \/ NextFile(p)
    BY <1>2, <1>5, <2>7 DEF ReadApplied, NextFile, Becomes, Step, Working
  <2>8. CASE ReadBatches(p) \/ NextRevert(p) \/ Erase(p)
    BY <1>2, <1>5, <2>8 DEF ReadBatches, NextRevert, Erase, Becomes, Step, Working
  <2>9. CASE Apply(p) \/ Revert(p)
    <3>1. /\ Was(p) \in {"apply", "revert"} /\ UNCHANGED <<mongo, envLock, lock>> /\ events \subseteq events'
          /\ \E pc : Becomes(p, pc) \/ proc' = [proc EXCEPT ![p].left = Tail(@)]
      BY <2>9 DEF Apply, Revert, RunOne
    <3>2. Gets(p) \in {"apply", "revert", "record", "erase", "release"}
      BY <1>2, <2>9 DEF Apply, Revert, RunOne, Becomes
    <3>3. QED
      BY <1>5, <2>9, <3>1, <3>2 DEF Step, Working
  <2>10. CASE Record(p)
    <3>1. /\ Was(p) = "record" /\ UNCHANGED <<mongo, envLock, lock>> /\ events \subseteq events'
          /\ Becomes(p, "release") \/ proc' = [proc EXCEPT ![p].pc = "files", ![p].at = proc[p].at + 1]
      BY <2>10 DEF Record
    <3>2. Gets(p) \in {"release", "files"}
      BY <1>2, <3>1 DEF Becomes
    <3>3. QED
      BY <1>5, <2>10, <3>1, <3>2 DEF Step, Working
  <2>11. QED
    BY <1>8, <2>1, <2>2, <2>3, <2>4, <2>5, <2>6, <2>7, <2>8, <2>9, <2>10 DEF Step
<1>9. ASSUME NEW p \in Runners, NEW cmd \in {"up", "down", "fresh"}, NEW policy \in {"strict", "ignore"},
             Command(p, cmd, policy)
      PROVE  HeldInv'
  <2>1. UNCHANGED <<mongo, envLock, lock, events>> /\ Gets(p) \in {"lock", "drop", "freshlock"}
        /\ (Gets(p) = "drop" => mongo)
    BY <1>2, <1>9 DEF Command, Idle
  <2>2. QED
    BY <1>5, <1>9, <2>1 DEF Working
<1>10. CASE (\E f \in Files : Ship(f) \/ Edit(f)) \/ UNCHANGED vars
  <2>1. UNCHANGED <<mongo, envLock, lock, events, proc>>
    BY <1>10 DEF Ship, Edit, vars
  <2>2. QED
    BY <1>1, <1>3, <2>1 DEF HeldInv, Shaped, FreshHolds, RunnerHolds
<1>11. QED
  BY <1>8, <1>9, <1>10 DEF Next

LEMMA HeldInit == Init => HeldInv
<1> SUFFICES ASSUME Init PROVE HeldInv
  OBVIOUS
<1>1. proc = [p \in Runners |-> Idle] /\ lock = [n \in {"default", "env"} |-> None]
  BY DEF Init
<1>2. QED
  BY <1>1 DEF HeldInv, Shaped, FreshHolds, RunnerHolds, Idle, Working

\* Any number of runners work one at a time, whatever is killed and retried and however
\* long the plan is.
THEOREM DeploysAlone == None \notin Runners => (Spec => []OneAtATime)
<1> SUFFICES ASSUME None \notin Runners PROVE Spec => []OneAtATime
  OBVIOUS
<1>1. HeldInv => OneAtATime
  <2> DEFINE S == {p \in Runners : InSection(p)}
  <2> SUFFICES ASSUME HeldInv, "crossed" \notin events,
                      ~(Unlocked /\ \E p \in Runners : proc[p].pc = "drop")
               PROVE  ~(Cardinality(S) > 1)
    BY DEF OneAtATime
  <2>1. \A p \in S : lock["default"] = p
    BY DEF HeldInv, FreshHolds, RunnerHolds, InSection, Unlocked, LockName
  <2>2. CASE S = {}
    <3>1. Cardinality(S) = 0
      BY <2>2, FS_EmptySet
    <3>2. QED
      BY <3>1
  <2>3. CASE S # {}
    <3>1. PICK p : S = {p}
      BY <2>1, <2>3
    <3>2. Cardinality(S) = 1
      BY <3>1, FS_Singleton
    <3>3. QED
      BY <3>2
  <2>4. QED
    BY <2>2, <2>3
<1>2. QED
  BY <1>1, HeldInit, HeldStep, PTL DEF Spec
=============================================================================
