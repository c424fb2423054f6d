----------------------------- MODULE ModelProofs -----------------------------
(***************************************************************************)
(* Proofs about models: the life of instances (ModelLife), what classes    *)
(* keep in static fields (ModelBoot), related rows (Relations), and the    *)
(* files of the model File (Files).                                        *)
(*                                                                         *)
(* The inductive invariant about instances says of each how it and what    *)
(* the database was told fit together (Fits): between two saves the        *)
(* original is what was told, while a save is under way the attributes     *)
(* are, but for those assigned meanwhile; what differs from the original   *)
(* was assigned through the instance; and who was inserted exists, or its  *)
(* INSERT is under way.                                                    *)
(***************************************************************************)
EXTENDS Models, Sequences, TLAPS

V == 0 .. 2
Attrs == [Cols -> V]
InstanceType == [id : 0 .. MaxRows, attrs : Attrs, orig : Attrs, exists : BOOLEAN,
                 cached : SUBSET ({"title"} \X V)]
Pcs == {"idle", "asked", "sent", "stored", "after", "found"}
OpNames == {"none", "save", "upsert"} \cup Removals \cup Reads
CallType == [pc : Pcs, op : OpNames, i : Insts \cup {"none"}, set : Attrs, cols : SUBSET Cols,
             insert : BOOLEAN, id : 0 .. MaxRows]
GhostType == [known : Attrs, touched : SUBSET Cols, tangled : SUBSET Cols, inserts : Nat,
              overlap : BOOLEAN, refreshed : BOOLEAN]
RowType == [state : {"none", "here", "gone"}, title : V, owner : V, deleted_at : V]

LifeTypes ==
    /\ mongo \in BOOLEAN
    /\ rows \in [Ids -> RowType]
    /\ inst \in [Insts -> InstanceType]
    /\ call \in [Callers -> CallType]
    /\ ghost \in [Insts -> GhostType]

\* What a call c is about, and has under way on the instance i.
On(c, i) == c.pc # "idle" /\ c.i = i
Writes(c, i) == c.i = i /\ c.op = "save" /\ c.pc \in {"sent", "stored", "after"}
Inserts(c, i) == c.i = i /\ c.insert /\ c.pc \in {"sent", "stored"}

\* A call under way has an instance, and the row it has read or is to read or write.
CallFits(c) ==
    /\ c.pc # "idle" => c.i \in Insts
    /\ c.op \in Reads /\ c.pc # "idle" => c.id # 0
    /\ c.pc = "sent" /\ ~c.insert => c.id # 0
    /\ c.pc \in {"stored", "after"} => c.id # 0
    /\ c.pc = "found" /\ c.id = 0 => c.set = Blank
    /\ c.insert => c.op = "save"

\* Who has looked a row up has its instance to itself; an instance that is read
\* again exists.
CallsInv ==
    /\ \A k \in Callers : CallFits(call[k])
    /\ \A k, l \in Callers : call[k].pc = "found" /\ On(call[l], call[k].i) => l = k
    /\ \A k \in Callers : call[k].op \in Reads /\ call[k].pc # "idle" => inst[call[k].i].exists

\* The instance o, of which g is remembered, while a save of it is under way or
\* not (writing), and an INSERT (inserting).
Fits(o, g, writing, inserting) ==
    /\ o.exists <=> o.id # 0
    /\ \A c \in Cols : o.attrs[c] # o.orig[c] => c \in g.touched
    /\ o.attrs["deleted_at"] = g.known["deleted_at"]
    /\ o.exists /\ ~writing => \A c \in {"title", "owner"} : c \in g.tangled \/ o.orig[c] = g.known[c]
    /\ writing => \A c \in Cols : c \in g.tangled \/ o.attrs[c] = g.known[c]
    /\ g.overlap \/ g.inserts = 0 \/ (g.inserts = 1 /\ (o.exists \/ inserting))
    /\ \A e \in o.cached : e[2] = o.attrs[e[1]] \/ g.refreshed

InstsInv == \A i \in Insts : Fits(inst[i], ghost[i], Writing(i), Inserting(i))

LifeInv == LifeTypes /\ CallsInv /\ InstsInv

-----------------------------------------------------------------------------
(* One instance changes, and at most one call. *)

OthersWrite(k, i) == \E l \in Callers \ {k} : Writes(call[l], i)
OthersInsert(k, i) == \E l \in Callers \ {k} : Inserts(call[l], i)

LEMMA WhoWrites ==
    ASSUME NEW k \in Callers, NEW i
    PROVE  /\ Writing(i) <=> Writes(call[k], i) \/ OthersWrite(k, i)
           /\ Inserting(i) <=> Inserts(call[k], i) \/ OthersInsert(k, i)
BY DEF Writing, Inserting, Writes, Inserts, OthersWrite, OthersInsert

LEMMA CallFrame ==
    ASSUME LifeInv, LifeTypes', NEW k \in Callers, NEW i \in Insts, NEW n,
           call'[k] = n, \A l \in Callers \ {k} : call'[l] = call[l],
           \A j \in Insts \ {i} : inst'[j] = inst[j] /\ ghost'[j] = ghost[j],
           call[k].pc # "idle" => call[k].i = i,
           n.pc # "idle" => n.i = i,
           CallFits(n),
           call[k].pc = "idle" => \A l \in Callers : ~(call[l].pc = "found" /\ call[l].i = i),
           n.pc = "found" => \A l \in Callers \ {k} : ~On(call[l], i),
           inst'[i].exists \/ ~inst[i].exists \/ \A l \in Callers \ {k} : ~On(call[l], i),
           n.op \in Reads /\ n.pc # "idle" => inst'[i].exists,
           Fits(inst'[i], ghost'[i], Writes(n, i) \/ OthersWrite(k, i), Inserts(n, i) \/ OthersInsert(k, i))
    PROVE  LifeInv'
<1>3. CallsInv'
  <2>1. \A l \in Callers : CallFits(call'[l])
    BY DEF LifeInv, CallsInv
  <2>2. ASSUME NEW l \in Callers, NEW m \in Callers, call'[l].pc = "found", On(call'[m], call'[l].i)
        PROVE  m = l
    <3>1. CASE l = k
      BY <2>2, <3>1 DEF On
    <3>2. CASE l # k /\ m = k
      <4>1. call[l].pc = "found" /\ call[l].i = i
        BY <2>2, <3>2 DEF On
      <4>2. call[k].pc # "idle" /\ call[k].i = i
        BY <4>1
      <4>3. QED
        BY <3>2, <4>1, <4>2 DEF LifeInv, CallsInv, On
    <3>3. CASE l # k /\ m # k
      BY <2>2, <3>3 DEF LifeInv, CallsInv
    <3>4. QED
      BY <3>1, <3>2, <3>3
  <2>3. ASSUME NEW l \in Callers, call'[l].op \in Reads, call'[l].pc # "idle"
        PROVE  inst'[call'[l].i].exists
    <3>1. CASE l = k
      BY <2>3, <3>1
    <3>2. CASE l # k
      <4>1. call[l].i \in Insts /\ inst[call[l].i].exists /\ On(call[l], call[l].i)
        BY <2>3, <3>2 DEF LifeInv, CallsInv, CallFits, On
      <4>2. QED
        BY <3>2, <4>1
    <3>3. QED
      BY <3>1, <3>2
  <2>4. QED
    BY <2>1, <2>2, <2>3 DEF CallsInv, CallFits, On
<1>4. ASSUME NEW j \in Insts
      PROVE  Fits(inst'[j], ghost'[j], \E l \in Callers : Writes(call'[l], j), \E l \in Callers : Inserts(call'[l], j))
  <2>1. CASE j = i
    <3>1. (\E l \in Callers : Writes(call'[l], i)) <=> Writes(n, i) \/ OthersWrite(k, i)
      BY DEF OthersWrite
    <3>2. (\E l \in Callers : Inserts(call'[l], i)) <=> Inserts(n, i) \/ OthersInsert(k, i)
      BY DEF OthersInsert
    <3>3. QED
      BY <2>1, <3>1, <3>2 DEF Fits
  <2>2. CASE j # i
    <3>1. \A l \in Callers : (Writes(call'[l], j) <=> Writes(call[l], j)) /\ (Inserts(call'[l], j) <=> Inserts(call[l], j))
      BY <2>2 DEF Writes, Inserts
    <3>2. Fits(inst[j], ghost[j], Writing(j), Inserting(j))
      BY DEF LifeInv, InstsInv
    <3>3. (\E l \in Callers : Writes(call'[l], j)) <=> Writing(j)
      BY <3>1 DEF Writing, Writes
    <3>4. (\E l \in Callers : Inserts(call'[l], j)) <=> Inserting(j)
      BY <3>1 DEF Inserting, Inserts
    <3>5. QED
      BY <2>2, <3>2, <3>3, <3>4 DEF Fits
  <2>3. QED
    BY <2>1, <2>2
<1>5. InstsInv'
  BY <1>4 DEF InstsInv, Writing, Inserting, Writes, Inserts, Fits
<1>6. QED
  BY <1>3, <1>5 DEF LifeInv

LEMMA CallStep ==
    ASSUME LifeInv, NEW k \in Callers, NEW i \in Insts, NEW n \in CallType, NEW o \in InstanceType, NEW g \in GhostType,
           call' = [call EXCEPT ![k] = n], inst' = [inst EXCEPT ![i] = o], ghost' = [ghost EXCEPT ![i] = g],
           mongo' = mongo, rows' \in [Ids -> RowType],
           call[k].pc # "idle" => call[k].i = i,
           n.pc # "idle" => n.i = i,
           CallFits(n),
           call[k].pc = "idle" => \A l \in Callers : ~(call[l].pc = "found" /\ call[l].i = i),
           n.pc = "found" => \A l \in Callers \ {k} : ~On(call[l], i),
           o.exists \/ ~inst[i].exists \/ \A l \in Callers \ {k} : ~On(call[l], i),
           n.op \in Reads /\ n.pc # "idle" => o.exists,
           Fits(o, g, Writes(n, i) \/ OthersWrite(k, i), Inserts(n, i) \/ OthersInsert(k, i))
    PROVE  LifeInv'
<1>1. LifeTypes'
  BY DEF LifeInv, LifeTypes
<1>2. /\ call'[k] = n /\ \A l \in Callers \ {k} : call'[l] = call[l]
      /\ inst'[i] = o /\ \A j \in Insts \ {i} : inst'[j] = inst[j]
      /\ ghost'[i] = g /\ \A j \in Insts \ {i} : ghost'[j] = ghost[j]
  BY DEF LifeInv, LifeTypes
<1>3. QED
  BY <1>1, <1>2, CallFrame

\* The instances stay as they are.
LEMMA CallOnly ==
    ASSUME LifeInv, NEW k \in Callers, NEW i \in Insts, NEW n \in CallType,
           call' = [call EXCEPT ![k] = n], UNCHANGED <<mongo, inst, ghost>>, rows' \in [Ids -> RowType],
           call[k].pc # "idle" => call[k].i = i,
           n.pc # "idle" => n.i = i,
           CallFits(n),
           call[k].pc = "idle" => \A l \in Callers : ~(call[l].pc = "found" /\ call[l].i = i),
           n.pc = "found" => \A l \in Callers \ {k} : ~On(call[l], i),
           n.op \in Reads /\ n.pc # "idle" => inst[i].exists,
           Fits(inst[i], ghost[i], Writes(n, i) \/ OthersWrite(k, i), Inserts(n, i) \/ OthersInsert(k, i))
    PROVE  LifeInv'
<1>1. LifeTypes'
  BY DEF LifeInv, LifeTypes
<1>2. /\ call'[k] = n /\ \A l \in Callers \ {k} : call'[l] = call[l]
      /\ \A j \in Insts : inst'[j] = inst[j] /\ ghost'[j] = ghost[j]
  BY DEF LifeInv, LifeTypes
<1>3. QED
  BY <1>1, <1>2, CallFrame

\* The calls stay as they are.
LEMMA InstStep ==
    ASSUME LifeInv, NEW i \in Insts, NEW o \in InstanceType, NEW g \in GhostType,
           inst' = [inst EXCEPT ![i] = o], ghost' = [ghost EXCEPT ![i] = g], UNCHANGED <<mongo, rows, call>>,
           o.exists \/ ~inst[i].exists \/ ~Busy(i),
           Fits(o, g, Writing(i), Inserting(i))
    PROVE  LifeInv'
<1>1. LifeTypes'
  BY DEF LifeInv, LifeTypes
<1>2. /\ inst'[i] = o /\ \A j \in Insts \ {i} : inst'[j] = inst[j]
      /\ ghost'[i] = g /\ \A j \in Insts \ {i} : ghost'[j] = ghost[j]
  BY DEF LifeInv, LifeTypes
<1>3. CallsInv'
  <2>1. ASSUME NEW l \in Callers, call[l].op \in Reads, call[l].pc # "idle"
        PROVE  inst'[call[l].i].exists
    <3>1. call[l].i \in Insts /\ inst[call[l].i].exists /\ Busy(call[l].i)
      BY <2>1 DEF LifeInv, CallsInv, CallFits, Busy
    <3>2. QED
      BY <1>2, <3>1
  <2>2. QED
    BY <2>1 DEF LifeInv, CallsInv, CallFits, On
<1>4. ASSUME NEW j \in Insts PROVE Fits(inst'[j], ghost'[j], Writing(j), Inserting(j))
  BY <1>2 DEF LifeInv, InstsInv
<1>5. InstsInv'
  BY <1>4 DEF InstsInv, Fits, Writing, Inserting
<1>6. QED
  BY <1>1, <1>3, <1>5 DEF LifeInv

-----------------------------------------------------------------------------
(* Attributes. *)

LEMMA BlankFacts ==
    /\ Blank \in Attrs /\ \A c \in Cols : Blank[c] = 0
    /\ Instance(0, Blank, FALSE) \in InstanceType
    /\ Instance(0, Blank, FALSE).id = 0 /\ ~Instance(0, Blank, FALSE).exists
    /\ Instance(0, Blank, FALSE).attrs = Blank /\ Instance(0, Blank, FALSE).orig = Blank
    /\ Instance(0, Blank, FALSE).cached = {}
BY ModelAssumption DEF Blank, Attrs, V, Instance, InstanceType

\* An attribute is set, the rest of the instance stays, and no cached read of
\* the old value does.
LEMMA SetFacts ==
    ASSUME NEW o \in InstanceType, NEW c \in Cols, NEW v \in V
    PROVE  LET s == SetAttribute(o, c, v)
           IN /\ s \in InstanceType /\ s.id = o.id /\ s.exists = o.exists /\ s.orig = o.orig
              /\ s.attrs[c] = v /\ \A d \in Cols \ {c} : s.attrs[d] = o.attrs[d]
              /\ \A e \in s.cached : e \in o.cached /\ e[1] # c /\ e[1] \in Cols
<1> DEFINE s == SetAttribute(o, c, v)
           dropped == {<<c, x>> : x \in 0 .. 2}
<1>0. o.attrs \in Attrs /\ o.cached \subseteq {"title"} \X V
  BY DEF InstanceType
<1>1. /\ s.id = o.id /\ s.exists = o.exists /\ s.orig = o.orig
      /\ s.attrs = [o.attrs EXCEPT ![c] = v] /\ s.cached = o.cached \ dropped
      /\ s = [o EXCEPT !.attrs = [o.attrs EXCEPT ![c] = v], !.cached = o.cached \ dropped]
  BY DEF SetAttribute, InstanceType
<1>2. [o.attrs EXCEPT ![c] = v] \in Attrs
  BY <1>0 DEF Attrs
<1>3. s \in InstanceType
  BY <1>0, <1>1, <1>2 DEF InstanceType
<1>4. s.attrs[c] = v /\ \A d \in Cols \ {c} : s.attrs[d] = o.attrs[d]
  BY <1>0, <1>1 DEF Attrs
<1>5. ASSUME NEW e \in s.cached PROVE e \in o.cached /\ e[1] # c /\ e[1] \in Cols
  <2>1. e \in o.cached /\ e \notin dropped
    BY <1>1
  <2>2. PICK x \in V : e = <<"title", x>>
    BY <1>0, <2>1
  <2>3. c # "title"
    BY <2>1, <2>2 DEF V
  <2>4. QED
    BY <2>1, <2>2, <2>3 DEF Cols
<1> HIDE DEF s
<1>6. QED
  BY <1>1, <1>3, <1>4, <1>5 DEF s

LEMMA FillFacts ==
    ASSUME NEW o \in InstanceType, NEW v \in V
    PROVE  LET s == Fill(o, v)
           IN /\ s \in InstanceType /\ s.id = o.id /\ s.exists = o.exists /\ s.orig = o.orig
              /\ s.attrs["title"] = v /\ \A d \in {"owner", "deleted_at"} : s.attrs[d] = o.attrs[d]
              /\ \A e \in s.cached : e \in o.cached /\ e[1] # "title" /\ e[1] \in Cols
<1>1. Fill(o, v) = SetAttribute(o, "title", v) /\ "title" \in Cols
  BY DEF Fill, Fillable, Cols
<1>2. QED
  BY <1>1, SetFacts, SMTT(30) DEF Cols

\* A new instance with a title.
LEMMA NewFacts ==
    ASSUME NEW v \in V
    PROVE  LET n == New(v)
           IN /\ n \in InstanceType /\ n.id = 0 /\ ~n.exists /\ n.cached = {}
              /\ n.attrs = n.orig /\ n.attrs["deleted_at"] = 0
<1> DEFINE b == Instance(0, Blank, FALSE)
           f == Fill(b, v)
           t == [Blank EXCEPT !["title"] = v]
           n == New(v)
<1>1. /\ f \in InstanceType /\ f.id = 0 /\ ~f.exists /\ f.attrs["title"] = v
      /\ f.attrs["owner"] = 0 /\ f.attrs["deleted_at"] = 0 /\ \A e \in f.cached : FALSE
  <2> HIDE DEF b
  <2>1. b \in InstanceType /\ b.id = 0 /\ ~b.exists /\ b.attrs = Blank /\ b.cached = {}
    BY BlankFacts DEF b
  <2>2. QED
    BY <2>1, FillFacts, BlankFacts DEF Cols
<1>2. t \in Attrs /\ t["title"] = v /\ t["owner"] = 0 /\ t["deleted_at"] = 0
  BY BlankFacts DEF Attrs, Cols
<1>3. f.attrs = t
  BY <1>1, <1>2 DEF InstanceType, Attrs, Cols
<1>4. New(v) = [f EXCEPT !.orig = t]
  BY DEF New
<1> HIDE DEF f, t
<1>5. QED
  BY <1>1, <1>2, <1>3, <1>4 DEF InstanceType

LEMMA TouchFacts ==
    ASSUME NEW g \in GhostType, NEW i, NEW c \in Cols
    PROVE  LET t == Touch(g, i, c)
           IN /\ t \in GhostType /\ t.known = g.known /\ t.touched = g.touched \union {c}
              /\ Writing(i) => t.tangled = g.tangled \union {c}
              /\ ~Writing(i) => t.tangled = g.tangled
              /\ t.inserts = g.inserts /\ t.overlap = g.overlap /\ t.refreshed = g.refreshed
BY DEF Touch, GhostType

LEMMA UntouchedFacts ==
    ASSUME NEW a \in Attrs
    PROVE  LET t == Untouched(a)
           IN /\ t \in GhostType /\ t.known = a /\ t.touched = {} /\ t.tangled = {}
              /\ t.inserts = 0 /\ ~t.overlap /\ ~t.refreshed
BY DEF Untouched, GhostType

LEMMA TypeFacts ==
    ASSUME LifeInv
    PROVE  /\ \A i \in Insts : /\ inst[i] \in InstanceType /\ ghost[i] \in GhostType
                               /\ Fits(inst[i], ghost[i], Writing(i), Inserting(i))
                               /\ inst = [inst EXCEPT ![i] = inst[i]] /\ ghost = [ghost EXCEPT ![i] = ghost[i]]
           /\ \A k \in Callers : /\ call[k] \in CallType /\ CallFits(call[k])
                                 /\ call[k].op \in Reads /\ call[k].pc # "idle" => inst[call[k].i].exists
           /\ rows \in [Ids -> RowType] /\ mongo \in BOOLEAN
BY DEF LifeInv, LifeTypes, InstsInv, CallsInv

LEMMA AssignKept ==
    ASSUME LifeInv, NEW i \in Insts, NEW c \in {"title", "owner"}, NEW v \in 1 .. 2, Assign(i, c, v)
    PROVE  LifeInv'
<1> DEFINE o == SetAttribute(inst[i], c, v)
           g == Touch(ghost[i], i, c)
<1>0. inst[i] \in InstanceType /\ ghost[i] \in GhostType /\ c \in Cols /\ v \in V
      /\ Fits(inst[i], ghost[i], Writing(i), Inserting(i))
  BY TypeFacts DEF Cols, V
<1>1. /\ o \in InstanceType /\ o.id = inst[i].id /\ o.exists = inst[i].exists /\ o.orig = inst[i].orig
      /\ o.attrs[c] = v /\ \A d \in Cols \ {c} : o.attrs[d] = inst[i].attrs[d]
      /\ \A e \in o.cached : e \in inst[i].cached /\ e[1] # c /\ e[1] \in Cols
  BY <1>0, SetFacts
<1>2. /\ g \in GhostType /\ g.known = ghost[i].known /\ g.touched = ghost[i].touched \union {c}
      /\ Writing(i) => g.tangled = ghost[i].tangled \union {c}
      /\ ~Writing(i) => g.tangled = ghost[i].tangled
      /\ g.inserts = ghost[i].inserts /\ g.overlap = ghost[i].overlap /\ g.refreshed = ghost[i].refreshed
  BY <1>0, TouchFacts
<1>3. inst' = [inst EXCEPT ![i] = o] /\ ghost' = [ghost EXCEPT ![i] = g] /\ UNCHANGED <<mongo, rows, call>>
  BY DEF Assign
<1> HIDE DEF o, g
<1>4. Fits(o, g, Writing(i), Inserting(i))
  BY <1>0, <1>1, <1>2 DEF Fits, Cols
<1>5. QED
  BY <1>1, <1>2, <1>3, <1>4, InstStep

LEMMA GetAttributeKept ==
    ASSUME LifeInv, NEW i \in Insts, GetAttribute(i, "title")
    PROVE  LifeInv'
<1> DEFINE entry == <<"title", inst[i].attrs["title"]>>
           o == [inst[i] EXCEPT !.cached = @ \union {entry}]
           g == [ghost[i] EXCEPT !.refreshed = FALSE]
<1>0. inst[i] \in InstanceType /\ ghost[i] \in GhostType /\ Fits(inst[i], ghost[i], Writing(i), Inserting(i))
  BY TypeFacts
<1>1. inst[i].cached = {}
  <2>1. ASSUME NEW e \in inst[i].cached PROVE FALSE
    <3>1. e[1] = "title"
      BY <1>0 DEF InstanceType
    <3>2. QED
      BY <3>1 DEF GetAttribute
  <2>2. QED
    BY <2>1
<1>2. /\ o \in InstanceType /\ o.id = inst[i].id /\ o.exists = inst[i].exists /\ o.orig = inst[i].orig
      /\ o.attrs = inst[i].attrs /\ o.cached = {entry}
  <2>1. entry \in {"title"} \X V
    BY <1>0 DEF InstanceType, Attrs, Cols
  <2>2. QED
    BY <1>0, <1>1, <2>1 DEF InstanceType
<1>3. /\ g \in GhostType /\ g.known = ghost[i].known /\ g.touched = ghost[i].touched
      /\ g.tangled = ghost[i].tangled /\ g.inserts = ghost[i].inserts /\ g.overlap = ghost[i].overlap
  BY <1>0 DEF GhostType
<1>4. inst' = [inst EXCEPT ![i] = o] /\ ghost' = [ghost EXCEPT ![i] = g] /\ UNCHANGED <<mongo, rows, call>>
  BY DEF GetAttribute
<1>5. \A e \in o.cached : e[2] = o.attrs[e[1]]
  BY <1>2
<1> HIDE DEF o, g, entry
<1>6. Fits(o, g, Writing(i), Inserting(i))
  BY <1>0, <1>2, <1>3, <1>5 DEF Fits
<1>7. QED
  BY <1>0, <1>2, <1>3, <1>4, <1>6, InstStep

\* Nothing is under way on an instance that is not busy.
LEMMA NotBusy ==
    ASSUME NEW i \in Insts, ~Busy(i)
    PROVE  ~Writing(i) /\ ~Inserting(i) /\ \A l \in Callers : ~On(call[l], i) /\ ~Writes(call[l], i) /\ ~Inserts(call[l], i)
BY DEF Busy, Writing, Inserting, On, Writes, Inserts

LEMMA ValuesType == ASSUME LifeInv, NEW r \in Ids PROVE Values(rows[r]) \in Attrs
<1>1. rows[r] \in RowType
  BY DEF LifeInv, LifeTypes
<1>2. rows[r]["title"] = rows[r].title /\ rows[r]["owner"] = rows[r].owner
      /\ rows[r]["deleted_at"] = rows[r].deleted_at
  OBVIOUS
<1>3. QED
  BY <1>1, <1>2 DEF Values, Attrs, Cols, RowType

LEMMA FindKept ==
    ASSUME LifeInv, NEW i \in Insts, NEW r \in Ids, NEW t \in BOOLEAN, Find(i, r, t)
    PROVE  LifeInv'
<1> DEFINE a == Values(rows[r])
           o == Instance(r, a, TRUE)
           g == Untouched(a)
<1>0. a \in Attrs
  BY ValuesType
<1>1. o \in InstanceType /\ o.id = r /\ r # 0 /\ o.exists /\ o.attrs = a /\ o.orig = a /\ o.cached = {}
  BY <1>0, ModelAssumption DEF Instance, InstanceType, Ids
<1>2. /\ g \in GhostType /\ g.known = a /\ g.touched = {} /\ g.tangled = {}
      /\ g.inserts = 0 /\ ~g.overlap /\ ~g.refreshed
  BY <1>0, UntouchedFacts
<1>3. inst' = [inst EXCEPT ![i] = o] /\ ghost' = [ghost EXCEPT ![i] = g] /\ UNCHANGED <<mongo, rows, call>>
      /\ ~Busy(i)
  BY DEF Find, Hydrated
<1> HIDE DEF o, g, a
<1>4. Fits(o, g, Writing(i), Inserting(i))
  BY <1>1, <1>2, <1>3, NotBusy DEF Fits
<1>5. QED
  BY <1>1, <1>2, <1>3, <1>4, InstStep

LEMMA ReplicateKept ==
    ASSUME LifeInv, NEW i \in Insts, NEW j \in Insts, Replicate(i, j)
    PROVE  LifeInv'
<1> DEFINE b == Instance(0, Blank, FALSE)
           v == inst[i].attrs["title"]
           f == Fill(b, v)
           o == [b EXCEPT !.attrs = f.attrs]
           g == [Untouched(Blank) EXCEPT !.touched = {"title"}]
<1>0. v \in V
  BY TypeFacts DEF InstanceType, Attrs, Cols
<1>1. b \in InstanceType /\ b.id = 0 /\ ~b.exists /\ b.attrs = Blank /\ b.orig = Blank /\ b.cached = {}
  BY BlankFacts
<1>2. f \in InstanceType /\ \A d \in {"owner", "deleted_at"} : f.attrs[d] = b.attrs[d]
  <2> HIDE DEF b
  <2>1. QED
    BY <1>0, <1>1, FillFacts
<1>3. /\ o \in InstanceType /\ o.id = 0 /\ ~o.exists /\ o.attrs = f.attrs /\ o.orig = Blank /\ o.cached = {}
  <2> HIDE DEF b, f
  <2>1. QED
    BY <1>1, <1>2 DEF InstanceType
<1>4. /\ g \in GhostType /\ g.known = Blank /\ g.touched = {"title"} /\ g.inserts = 0
  BY BlankFacts, UntouchedFacts DEF GhostType, Cols
<1>5. inst' = [inst EXCEPT ![j] = o] /\ ghost' = [ghost EXCEPT ![j] = g] /\ UNCHANGED <<mongo, rows, call>>
      /\ ~Busy(j)
  BY DEF Replicate
<1>6. o.attrs["owner"] = 0 /\ o.attrs["deleted_at"] = 0 /\ \A c \in Cols : Blank[c] = 0
  BY <1>1, <1>2, <1>3, BlankFacts DEF Cols
<1> HIDE DEF o, g, f, b, v
<1>7. Fits(o, g, Writing(j), Inserting(j))
  BY <1>3, <1>4, <1>5, <1>6, NotBusy DEF Fits, Cols
<1>8. QED
  BY <1>3, <1>4, <1>5, <1>7, InstStep

-----------------------------------------------------------------------------
(* Calls begin. *)

LEMMA IdleFacts == /\ Idle \in CallType /\ Idle.pc = "idle" /\ Idle.op = "none" /\ Idle.set = Blank
                   /\ Idle.id = 0 /\ ~Idle.insert
BY BlankFacts, ModelAssumption DEF Idle, CallType, Pcs, OpNames

\* A call that has been asked for has nothing under way yet.
LEMMA AskedFacts ==
    ASSUME NEW op \in OpNames \ Reads, NEW i \in Insts
    PROVE  LET n == [Idle EXCEPT !.pc = "asked", !.op = op, !.i = i]
           IN /\ n \in CallType /\ n.pc = "asked" /\ n.op = op /\ n.i = i /\ CallFits(n)
              /\ ~Writes(n, i) /\ ~Inserts(n, i)
<1> DEFINE n == [Idle EXCEPT !.pc = "asked", !.op = op, !.i = i]
<1>1. n \in CallType /\ n.pc = "asked" /\ n.op = op /\ n.i = i /\ ~n.insert
  BY IdleFacts DEF CallType, Pcs
<1> HIDE DEF n
<1>2. CallFits(n) /\ ~Writes(n, i) /\ ~Inserts(n, i)
  BY <1>1 DEF CallFits, Writes, Inserts
<1>3. QED
  BY <1>1, <1>2 DEF n

LEMMA IdleWrites == ASSUME NEW k \in Callers, NEW i \in Insts, call[k].pc = "idle"
                    PROVE  ~Writes(call[k], i) /\ ~Inserts(call[k], i)
BY DEF Writes, Inserts

LEMMA StartSaveKept ==
    ASSUME LifeInv, NEW k \in Callers, NEW i \in Insts, NEW u \in 0 .. 1, StartSave(k, i, u)
    PROVE  LifeInv'
<1> DEFINE n == [Idle EXCEPT !.pc = "asked", !.op = "save", !.i = i]
<1>0. /\ inst[i] \in InstanceType /\ ghost[i] \in GhostType /\ "title" \in Cols /\ u \in V
      /\ Fits(inst[i], ghost[i], Writing(i), Inserting(i))
      /\ inst = [inst EXCEPT ![i] = inst[i]] /\ ghost = [ghost EXCEPT ![i] = ghost[i]]
      /\ rows \in [Ids -> RowType]
  BY TypeFacts DEF Cols, V
<1>1. /\ n \in CallType /\ n.pc = "asked" /\ n.op = "save" /\ n.i = i /\ CallFits(n)
      /\ ~Writes(n, i) /\ ~Inserts(n, i)
  <2>1. "save" \in OpNames \ Reads
    BY DEF OpNames, Reads, Removals
  <2>2. QED
    BY <2>1, AskedFacts
<1>2. /\ call' = [call EXCEPT ![k] = n] /\ call[k].pc = "idle" /\ UNCHANGED <<mongo, rows>>
      /\ \A l \in Callers : ~(call[l].pc = "found" /\ call[l].i = i)
  BY DEF StartSave, Start, Begin
<1>3. PICK o \in InstanceType, g \in GhostType :
        /\ inst' = [inst EXCEPT ![i] = o] /\ ghost' = [ghost EXCEPT ![i] = g]
        /\ o.exists = inst[i].exists /\ Fits(o, g, Writing(i), Inserting(i))
  <2>1. CASE u = 0 /\ UNCHANGED <<inst, ghost>>
    BY <1>0, <2>1
  <2>2. CASE u # 0 /\ inst' = [inst EXCEPT ![i] = Fill(@, u)] /\ ghost' = [ghost EXCEPT ![i] = Touch(@, i, "title")]
    <3> DEFINE o == Fill(inst[i], u)
               g == Touch(ghost[i], i, "title")
    <3>1. /\ o \in InstanceType /\ o.id = inst[i].id /\ o.exists = inst[i].exists /\ o.orig = inst[i].orig
          /\ o.attrs["title"] = u /\ \A d \in {"owner", "deleted_at"} : o.attrs[d] = inst[i].attrs[d]
          /\ \A e \in o.cached : e \in inst[i].cached /\ e[1] # "title" /\ e[1] \in Cols
      BY <1>0, FillFacts
    <3>2. /\ g \in GhostType /\ g.known = ghost[i].known /\ g.touched = ghost[i].touched \union {"title"}
          /\ Writing(i) => g.tangled = ghost[i].tangled \union {"title"}
          /\ ~Writing(i) => g.tangled = ghost[i].tangled
          /\ g.inserts = ghost[i].inserts /\ g.overlap = ghost[i].overlap /\ g.refreshed = ghost[i].refreshed
      BY <1>0, TouchFacts
    <3> HIDE DEF o, g
    <3>3. Fits(o, g, Writing(i), Inserting(i))
      BY <1>0, <3>1, <3>2 DEF Fits, Cols
    <3>4. inst' = [inst EXCEPT ![i] = o] /\ ghost' = [ghost EXCEPT ![i] = g]
      BY <2>2 DEF o, g
    <3>5. QED
      BY <3>1, <3>2, <3>3, <3>4
  <2>3. QED
    BY <2>1, <2>2 DEF StartSave
<1> HIDE DEF n
<1>4. Fits(o, g, Writes(n, i) \/ OthersWrite(k, i), Inserts(n, i) \/ OthersInsert(k, i))
  BY <1>1, <1>2, <1>3, IdleWrites, WhoWrites DEF Fits
<1>5. "save" \notin Reads
  BY DEF Reads
<1>6. QED
  BY <1>0, <1>1, <1>2, <1>3, <1>4, <1>5, CallStep

LEMMA CreateKept ==
    ASSUME LifeInv, NEW k \in Callers, NEW i \in Insts, Create(k, i, 1)
    PROVE  LifeInv'
<1> DEFINE n == [Idle EXCEPT !.pc = "asked", !.op = "save", !.i = i]
           o == New(1)
           g == [Untouched(Blank) EXCEPT !.touched = {"title"}]
<1>0. "save" \in OpNames \ Reads /\ 1 \in V
  BY DEF OpNames, Reads, Removals, V
<1>1. /\ n \in CallType /\ n.pc = "asked" /\ n.op = "save" /\ n.i = i /\ CallFits(n)
      /\ ~Writes(n, i) /\ ~Inserts(n, i)
  BY <1>0, AskedFacts
<1>2. /\ o \in InstanceType /\ o.id = 0 /\ ~o.exists /\ o.cached = {}
      /\ o.attrs = o.orig /\ o.attrs["deleted_at"] = 0
  BY <1>0, NewFacts
<1>3. /\ g \in GhostType /\ g.known = Blank /\ g.touched = {"title"} /\ g.inserts = 0 /\ Blank["deleted_at"] = 0
  BY BlankFacts, UntouchedFacts DEF GhostType, Cols
<1>4. /\ call' = [call EXCEPT ![k] = n] /\ call[k].pc = "idle" /\ UNCHANGED <<mongo, rows>>
      /\ inst' = [inst EXCEPT ![i] = o] /\ ghost' = [ghost EXCEPT ![i] = g] /\ ~Busy(i)
      /\ \A l \in Callers : ~(call[l].pc = "found" /\ call[l].i = i)
      /\ rows \in [Ids -> RowType]
  BY TypeFacts DEF Create, Start, Begin
<1> HIDE DEF n, o, g
<1>5. ~OthersWrite(k, i) /\ \A l \in Callers : ~On(call[l], i)
  BY <1>4, NotBusy DEF OthersWrite
<1>6. Fits(o, g, Writes(n, i) \/ OthersWrite(k, i), Inserts(n, i) \/ OthersInsert(k, i))
  BY <1>1, <1>2, <1>3, <1>5 DEF Fits
<1>7. QED
  BY <1>0, <1>1, <1>2, <1>3, <1>4, <1>5, <1>6, CallStep

\* A call n begins and leaves the instance as it is.
LEMMA CallBegins ==
    ASSUME LifeInv, NEW k \in Callers, NEW i \in Insts, NEW n \in CallType,
           call[k].pc = "idle", call' = [call EXCEPT ![k] = n], UNCHANGED <<mongo, rows, inst, ghost>>,
           \A l \in Callers : ~(call[l].pc = "found" /\ call[l].i = i),
           n.i = i, n.pc # "idle", CallFits(n), ~Writes(n, i), ~Inserts(n, i),
           n.pc = "found" => ~Busy(i), n.op \in Reads => inst[i].exists
    PROVE  LifeInv'
<1>1. Fits(inst[i], ghost[i], Writing(i), Inserting(i)) /\ rows \in [Ids -> RowType]
  BY TypeFacts
<1>2. Fits(inst[i], ghost[i], Writes(n, i) \/ OthersWrite(k, i), Inserts(n, i) \/ OthersInsert(k, i))
  BY <1>1, IdleWrites, WhoWrites DEF Fits
<1>3. n.pc = "found" => \A l \in Callers \ {k} : ~On(call[l], i)
  BY NotBusy
<1>4. QED
  BY <1>1, <1>2, <1>3, CallOnly

LEMMA StartRemovalKept ==
    ASSUME LifeInv, NEW k \in Callers, NEW i \in Insts, NEW op \in Removals, StartRemoval(k, i, op)
    PROVE  LifeInv'
<1> DEFINE n == [Idle EXCEPT !.pc = "asked", !.op = op, !.i = i]
<1>0. op \in OpNames \ Reads
  BY DEF OpNames, Reads, Removals
<1>1. /\ n \in CallType /\ n.pc = "asked" /\ n.op = op /\ n.i = i /\ CallFits(n)
      /\ ~Writes(n, i) /\ ~Inserts(n, i)
  BY <1>0, AskedFacts
<1>2. /\ call' = [call EXCEPT ![k] = n] /\ call[k].pc = "idle" /\ UNCHANGED <<mongo, rows, inst, ghost>>
      /\ \A l \in Callers : ~(call[l].pc = "found" /\ call[l].i = i)
  BY DEF StartRemoval, Start, Begin
<1> HIDE DEF n
<1>3. QED
  BY <1>0, <1>1, <1>2, CallBegins

LEMMA StartReadKept ==
    ASSUME LifeInv, NEW k \in Callers, NEW i \in Insts, NEW op \in Reads, StartRead(k, i, op)
    PROVE  LifeInv'
<1> DEFINE n == [Idle EXCEPT !.pc = "sent", !.op = op, !.i = i, !.id = inst[i].id]
<1>0. inst[i] \in InstanceType /\ inst[i].id # 0 /\ inst[i].exists
  BY TypeFacts DEF StartRead, Fits
<1>1. /\ n \in CallType /\ n.pc = "sent" /\ n.op = op /\ n.i = i /\ n.id = inst[i].id /\ ~n.insert
  BY <1>0, IdleFacts DEF CallType, Pcs, OpNames, InstanceType
<1>2. /\ call' = [call EXCEPT ![k] = n] /\ call[k].pc = "idle" /\ UNCHANGED <<mongo, rows, inst, ghost>>
      /\ \A l \in Callers : ~(call[l].pc = "found" /\ call[l].i = i)
  BY DEF StartRead, Start
<1> HIDE DEF n
<1>3. CallFits(n) /\ ~Writes(n, i) /\ ~Inserts(n, i)
  BY <1>0, <1>1 DEF CallFits, Writes, Inserts, Reads
<1>4. QED
  BY <1>0, <1>1, <1>2, <1>3, CallBegins

LEMMA LookupKept ==
    ASSUME LifeInv, NEW k \in Callers, NEW i \in Insts, Lookup(k, i)
    PROVE  LifeInv'
<1>1. PICK n \in CallType : /\ call' = [call EXCEPT ![k] = n] /\ n.pc = "found" /\ n.op = "upsert" /\ n.i = i
                            /\ ~n.insert /\ (n.id = 0 => n.set = Blank)
  <2>1. ASSUME NEW r \in Ids,
               call' = [call EXCEPT ![k] = [Idle EXCEPT !.pc = "found", !.op = "upsert",
                                       !.i = i, !.id = r, !.set = Values(rows[r])]]
        PROVE  \E n \in CallType : /\ call' = [call EXCEPT ![k] = n] /\ n.pc = "found" /\ n.op = "upsert"
                                   /\ n.i = i /\ ~n.insert /\ (n.id = 0 => n.set = Blank)
    <3> DEFINE a == Values(rows[r])
               n == [Idle EXCEPT !.pc = "found", !.op = "upsert", !.i = i, !.id = r, !.set = a]
    <3>1. a \in Attrs /\ r \in 0 .. MaxRows /\ r # 0
      BY ValuesType, ModelAssumption DEF Ids
    <3>2. call' = [call EXCEPT ![k] = n]
      BY <2>1
    <3> HIDE DEF a
    <3>3. n \in CallType /\ n.pc = "found" /\ n.op = "upsert" /\ n.i = i /\ n.id # 0 /\ ~n.insert
      BY <3>1, IdleFacts DEF CallType, Pcs, OpNames
    <3> HIDE DEF n
    <3>4. QED
      BY <3>2, <3>3
  <2>2. ASSUME call' = [call EXCEPT ![k] = [Idle EXCEPT !.pc = "found", !.op = "upsert", !.i = i]]
        PROVE  \E n \in CallType : /\ call' = [call EXCEPT ![k] = n] /\ n.pc = "found" /\ n.op = "upsert"
                                   /\ n.i = i /\ ~n.insert /\ (n.id = 0 => n.set = Blank)
    <3> DEFINE n == [Idle EXCEPT !.pc = "found", !.op = "upsert", !.i = i]
    <3>1. n \in CallType /\ n.pc = "found" /\ n.op = "upsert" /\ n.i = i /\ n.set = Blank /\ ~n.insert
      BY IdleFacts DEF CallType, Pcs, OpNames
    <3>2. call' = [call EXCEPT ![k] = n]
      BY <2>2
    <3> HIDE DEF n
    <3>3. QED
      BY <3>1, <3>2
  <2>3. QED
    BY <2>1, <2>2 DEF Lookup
<1>2. /\ call[k].pc = "idle" /\ UNCHANGED <<mongo, rows, inst, ghost>> /\ ~Busy(i)
      /\ \A l \in Callers : ~(call[l].pc = "found" /\ call[l].i = i)
  BY DEF Lookup, Start
<1>3. CallFits(n) /\ ~Writes(n, i) /\ ~Inserts(n, i) /\ n.op \notin Reads
  BY <1>1 DEF CallFits, Writes, Inserts, Reads
<1>4. QED
  BY <1>1, <1>2, <1>3, CallBegins


-----------------------------------------------------------------------------
(* Saves and removals go on. *)

\* A call under way has its instance, and a call that is neither found nor
\* reading says nothing of the others.
LEMMA UnderWay ==
    ASSUME LifeInv, NEW k \in Callers, call[k].pc # "idle"
    PROVE  /\ call[k] \in CallType /\ CallFits(call[k]) /\ call[k].i \in Insts
           /\ inst[call[k].i] \in InstanceType /\ ghost[call[k].i] \in GhostType
           /\ Fits(inst[call[k].i], ghost[call[k].i], Writing(call[k].i), Inserting(call[k].i))
           /\ LifeTypes /\ rows \in [Ids -> RowType]
BY DEF LifeInv, LifeTypes, CallsInv, InstsInv, CallFits

LEMMA IdleFits == CallFits(Idle) /\ Idle.op \notin Reads /\ \A i : ~Writes(Idle, i) /\ ~Inserts(Idle, i)
BY IdleFacts DEF CallFits, Reads, Writes, Inserts

LEMMA VetoKept ==
    ASSUME LifeInv, NEW k \in Callers, Veto(k)
    PROVE  LifeInv'
<1> DEFINE i == call[k].i
<1>1. call[k].pc = "asked" /\ call' = [call EXCEPT ![k] = Idle] /\ UNCHANGED <<mongo, rows, inst, ghost>>
  BY DEF Veto, End
<1>2. i \in Insts /\ Fits(inst[i], ghost[i], Writing(i), Inserting(i)) /\ rows \in [Ids -> RowType]
  BY <1>1, UnderWay
<1>3. ~Writes(call[k], i) /\ ~Inserts(call[k], i)
  BY <1>1 DEF Writes, Inserts
<1>4. Fits(inst[i], ghost[i], Writes(Idle, i) \/ OthersWrite(k, i), Inserts(Idle, i) \/ OthersInsert(k, i))
  BY <1>2, <1>3, WhoWrites, IdleFits DEF Fits
<1>5. PICK j \in Insts : j = i
  BY <1>2
<1>6. QED
  BY <1>1, <1>2, <1>4, <1>5, IdleFacts, IdleFits, CallOnly

LEMMA SendKept ==
    ASSUME LifeInv, NEW k \in Callers, Send(k)
    PROVE  LifeInv'
<1>0. call[k].pc = "asked" /\ call[k].op = "save" /\ "save" \notin Reads
  BY DEF Send, At, Reads
<1>1. PICK i \in Insts, o \in InstanceType, g \in GhostType : i = call[k].i /\ o = inst[i] /\ g = ghost[i]
  BY <1>0, UnderWay
<1>2. call[k] \in CallType /\ Fits(o, g, Writing(i), Inserting(i)) /\ LifeTypes
  BY <1>0, <1>1, UnderWay
<1>3. o.attrs \in Attrs /\ o.id \in 0 .. MaxRows /\ DoInsert(o) \in BOOLEAN
      /\ Dirty(i) = {c \in Cols : o.attrs[c] # o.orig[c]}
  BY <1>1 DEF InstanceType, DoInsert, Dirty
<1>4. PICK cols \in SUBSET Cols : cols = IF DoInsert(o) THEN Cols ELSE Dirty(i)
  BY <1>3
<1> DEFINE n == [call[k] EXCEPT !.pc = "sent", !.set = o.attrs, !.id = o.id,
                                !.insert = DoInsert(o), !.cols = cols]
<1>18. PICK h : h = Told(g, i, o, cols)
  OBVIOUS
<1>5. /\ call' = [call EXCEPT ![k] = n] /\ ghost' = [ghost EXCEPT ![i] = h] /\ UNCHANGED <<mongo, rows, inst>>
  BY <1>1, <1>4, <1>18 DEF Send
<1>6. /\ n \in CallType /\ n.pc = "sent" /\ n.op = "save" /\ n.i = i /\ n.id = o.id /\ (n.insert <=> DoInsert(o))
  <2> DEFINE ins == DoInsert(o)
  <2>1. ins \in BOOLEAN /\ n = [call[k] EXCEPT !.pc = "sent", !.set = o.attrs, !.id = o.id,
                                               !.insert = ins, !.cols = cols]
    BY <1>3
  <2> HIDE DEF n, ins
  <2>2. /\ n \in CallType /\ n.pc = "sent" /\ n.op = "save" /\ n.i = i /\ n.id = o.id /\ n.insert = ins
    BY <1>0, <1>1, <1>2, <1>3, <2>1 DEF CallType, Pcs
  <2>3. QED
    BY <2>2 DEF ins
<1> HIDE DEF n
<1>7. PICK kn \in Attrs, ta \in SUBSET Cols, ov \in BOOLEAN, ns \in Nat :
        /\ h = [g EXCEPT !.known = kn, !.tangled = ta, !.overlap = ov, !.inserts = ns]
        /\ \A c \in Cols : kn[c] = IF c \in cols THEN o.attrs[c] ELSE g.known[c]
        /\ ta = IF Writing(i) THEN g.tangled ELSE g.tangled \ cols
        /\ (ov <=> g.overlap \/ (DoInsert(o) /\ Inserting(i)))
        /\ ns = IF DoInsert(o) THEN g.inserts + 1 ELSE g.inserts
  <2> DEFINE kn == [c \in Cols |-> IF c \in cols THEN o.attrs[c] ELSE g.known[c]]
             ta == IF Writing(i) THEN g.tangled ELSE g.tangled \ cols
             ov == g.overlap \/ (DoInsert(o) /\ Inserting(i))
             ns == IF DoInsert(o) THEN g.inserts + 1 ELSE g.inserts
  <2>1. kn \in Attrs
    BY <1>1, <1>4 DEF Attrs, GhostType, InstanceType
  <2>2. ta \subseteq Cols /\ ns \in Nat
    BY <1>1 DEF GhostType
  <2>3. ov \in BOOLEAN
    BY <1>1 DEF GhostType
  <2>4. h = [g EXCEPT !.known = kn, !.tangled = ta, !.overlap = ov, !.inserts = ns]
    BY <1>18 DEF Told
  <2>5. QED
    BY <2>1, <2>2, <2>3, <2>4
<1>8. /\ h \in GhostType /\ h.known = kn /\ h.touched = g.touched /\ h.refreshed = g.refreshed
      /\ h.tangled = ta /\ h.overlap = ov /\ h.inserts = ns
  <2>1. /\ g \in GhostType /\ kn \in Attrs /\ ta \in SUBSET Cols /\ ov \in BOOLEAN /\ ns \in Nat
        /\ h = [g EXCEPT !.known = kn, !.tangled = ta, !.overlap = ov, !.inserts = ns]
    BY <1>1, <1>7
  <2>2. /\ h.known = kn /\ h.touched = g.touched /\ h.refreshed = g.refreshed
        /\ h.tangled = ta /\ h.overlap = ov /\ h.inserts = ns
    BY <2>1 DEF GhostType
  <2>3. h \in GhostType
    BY <2>1 DEF GhostType
  <2>4. QED
    BY <2>2, <2>3
<1>9. /\ Writes(n, i) /\ (Inserts(n, i) <=> DoInsert(o)) /\ (Inserting(i) => OthersInsert(k, i))
  BY <1>0, <1>6, WhoWrites DEF Writes, Inserts
<1>10. \A c \in Cols : c \in h.tangled \/ o.attrs[c] = h.known[c]
  <2>1. ASSUME NEW c \in Cols PROVE c \in h.tangled \/ o.attrs[c] = h.known[c]
    <3>1. CASE c \in cols
      BY <1>7, <1>8, <3>1
    <3>2. CASE c \notin cols
      <4>1. o.exists /\ h.known[c] = g.known[c] /\ o.attrs[c] = o.orig[c] /\ c \in {"title", "owner", "deleted_at"}
        BY <1>3, <1>4, <1>7, <1>8, <3>2 DEF DoInsert, Cols
      <4>2. c \in g.tangled => c \in h.tangled
        BY <1>7, <1>8, <3>2
      <4>3. CASE Writing(i)
        BY <1>2, <4>1, <4>2, <4>3 DEF Fits
      <4>4. CASE ~Writing(i)
        BY <1>2, <4>1, <4>2, <4>4 DEF Fits
      <4>5. QED
        BY <4>3, <4>4
    <3>3. QED
      BY <3>1, <3>2
  <2>2. QED
    BY <2>1
<1>11. o.attrs["deleted_at"] = h.known["deleted_at"]
  BY <1>2, <1>7, <1>8 DEF Fits, Cols
<1>19. h.overlap \/ h.inserts = 0 \/ (h.inserts = 1 /\ (o.exists \/ DoInsert(o) \/ OthersInsert(k, i)))
  <2>1. g.overlap \/ g.inserts = 0 \/ (g.inserts = 1 /\ (o.exists \/ Inserting(i)))
    BY <1>2 DEF Fits
  <2>2. DoInsert(o) => ~o.exists
    BY <1>2 DEF DoInsert, Fits
  <2>3. ~DoInsert(o) => o.exists
    BY DEF DoInsert
  <2>4. CASE g.overlap
    BY <1>7, <1>8, <2>4
  <2>5. CASE g.inserts = 0
    <3>1. ns \in {0, 1}
      BY <1>7, <2>5
    <3>2. QED
      BY <1>8, <2>3, <3>1
  <2>6. CASE g.inserts = 1 /\ o.exists
    BY <1>7, <1>8, <2>2, <2>6
  <2>7. CASE g.inserts = 1 /\ ~o.exists /\ Inserting(i)
    BY <1>7, <1>8, <2>3, <2>7
  <2>8. QED
    BY <2>1, <2>4, <2>5, <2>6, <2>7
<1>12. Fits(o, h, Writes(n, i) \/ OthersWrite(k, i), Inserts(n, i) \/ OthersInsert(k, i))
  BY <1>2, <1>8, <1>9, <1>10, <1>11, <1>19 DEF Fits
<1>13. CallFits(n)
  BY <1>0, <1>6 DEF CallFits, DoInsert
<1>14. LifeTypes'
  BY <1>2, <1>5, <1>6, <1>8 DEF LifeTypes
<1>15. /\ call'[k] = n /\ \A l \in Callers \ {k} : call'[l] = call[l]
       /\ \A j \in Insts \ {i} : inst'[j] = inst[j] /\ ghost'[j] = ghost[j]
       /\ inst'[i] = o /\ ghost'[i] = h
  <2>1. call \in [Callers -> CallType] /\ ghost \in [Insts -> GhostType]
    BY <1>2 DEF LifeTypes
  <2>2. QED
    BY <1>1, <1>5, <2>1
<1>16. QED
  BY <1>0, <1>1, <1>6, <1>12, <1>13, <1>14, <1>15, CallFrame

LEMMA WrittenType ==
    ASSUME LifeInv, NEW r \in Ids, NEW set \in Attrs, NEW cols
    PROVE  Written(r, set, cols) \in [Ids -> RowType]
<1>1. rows \in [Ids -> RowType] /\ rows[r] \in RowType
  BY DEF LifeInv, LifeTypes
<1>2. set["title"] \in V /\ set["owner"] \in V /\ set["deleted_at"] \in V
  BY DEF Attrs, Cols
<1>3. rows[r].title \in V /\ rows[r].owner \in V /\ rows[r].deleted_at \in V
  BY <1>1 DEF RowType
<1>4. [state |-> "here",
       title |-> IF "title" \in cols THEN set["title"] ELSE rows[r].title,
       owner |-> IF "owner" \in cols THEN set["owner"] ELSE rows[r].owner,
       deleted_at |-> IF "deleted_at" \in cols THEN set["deleted_at"] ELSE rows[r].deleted_at] \in RowType
  BY <1>2, <1>3 DEF RowType
<1>5. QED
  BY <1>1, <1>4 DEF Written

LEMMA StoreKept ==
    ASSUME LifeInv, NEW k \in Callers, Store(k)
    PROVE  LifeInv'
<1>0. call[k].pc = "sent" /\ call[k].op = "save" /\ "save" \notin Reads
  BY DEF Store, At, Reads
<1>1. PICK i \in Insts : i = call[k].i
  BY <1>0, UnderWay
<1>2. /\ call[k] \in CallType /\ CallFits(call[k]) /\ Fits(inst[i], ghost[i], Writing(i), Inserting(i))
      /\ rows \in [Ids -> RowType]
  BY <1>0, <1>1, UnderWay
<1>3. PICK r \in Ids :
        /\ rows' = IF call[k].insert \/ rows[r].state = "here" THEN Written(r, call[k].set, call[k].cols) ELSE rows
        /\ call' = [call EXCEPT ![k].pc = "stored", ![k].id = r]
  BY DEF Store
<1>4. UNCHANGED <<mongo, inst, ghost>>
  BY DEF Store
<1> DEFINE n == [call[k] EXCEPT !.pc = "stored", !.id = r]
<1>5. call' = [call EXCEPT ![k] = n]
  BY <1>3 DEF LifeInv, LifeTypes
<1>6. r \in 0 .. MaxRows /\ r # 0
  BY <1>3, ModelAssumption DEF Ids
<1>7. /\ n \in CallType /\ n.pc = "stored" /\ n.op = "save" /\ n.i = i /\ n.id = r /\ n.insert = call[k].insert
  BY <1>0, <1>1, <1>2, <1>6 DEF CallType, Pcs
<1> HIDE DEF n
<1>8. rows' \in [Ids -> RowType]
  <2>1. call[k].set \in Attrs
    BY <1>2 DEF CallType
  <2>2. Written(r, call[k].set, call[k].cols) \in [Ids -> RowType]
    BY <1>3, <2>1, WrittenType
  <2>3. QED
    BY <1>2, <1>3, <2>2
<1>9. /\ Writes(n, i) <=> Writes(call[k], i)
      /\ Inserts(n, i) <=> Inserts(call[k], i)
  BY <1>0, <1>1, <1>7 DEF Writes, Inserts
<1>10. Fits(inst[i], ghost[i], Writes(n, i) \/ OthersWrite(k, i), Inserts(n, i) \/ OthersInsert(k, i))
  BY <1>1, <1>2, <1>9, WhoWrites DEF Fits
<1>11. CallFits(n)
  BY <1>0, <1>6, <1>7 DEF CallFits
<1>12. QED
  BY <1>0, <1>1, <1>4, <1>5, <1>7, <1>8, <1>10, <1>11, CallOnly

LEMMA ResumeKept ==
    ASSUME LifeInv, NEW k \in Callers, Resume(k)
    PROVE  LifeInv'
<1>0. call[k].pc = "stored" /\ call[k].op = "save" /\ "save" \notin Reads
  BY DEF Resume, At, Reads
<1>1. PICK i \in Insts, o \in InstanceType, g \in GhostType : i = call[k].i /\ o = inst[i] /\ g = ghost[i]
  BY <1>0, UnderWay
<1>2. call[k] \in CallType /\ CallFits(call[k]) /\ Fits(o, g, Writing(i), Inserting(i)) /\ LifeTypes
  BY <1>0, <1>1, UnderWay
<1>3. /\ inst' = [inst EXCEPT ![i] = IF call[k].insert THEN [o EXCEPT !.id = call[k].id, !.exists = TRUE] ELSE o]
      /\ call' = [call EXCEPT ![k].pc = "after"] /\ UNCHANGED <<mongo, rows, ghost>>
  BY <1>1 DEF Resume
<1>4. PICK q \in InstanceType :
        /\ q = IF call[k].insert THEN [o EXCEPT !.id = call[k].id, !.exists = TRUE] ELSE o
        /\ q.attrs = o.attrs /\ q.orig = o.orig /\ q.cached = o.cached
        /\ (o.exists => q.exists) /\ (call[k].insert => q.exists) /\ (q.exists <=> q.id # 0)
  <2>1. CASE call[k].insert
    <3> DEFINE q == [o EXCEPT !.id = call[k].id, !.exists = TRUE]
    <3>1. call[k].id \in 0 .. MaxRows /\ call[k].id # 0
      BY <1>0, <1>2 DEF CallType, CallFits
    <3>2. q \in InstanceType /\ q.attrs = o.attrs /\ q.orig = o.orig /\ q.cached = o.cached
          /\ q.exists /\ q.id # 0
      BY <1>1, <3>1 DEF InstanceType
    <3> HIDE DEF q
    <3>3. q = IF call[k].insert THEN [o EXCEPT !.id = call[k].id, !.exists = TRUE] ELSE o
      BY <2>1 DEF q
    <3>4. QED
      BY <3>2, <3>3
  <2>2. CASE ~call[k].insert
    <3>1. o.exists <=> o.id # 0
      BY <1>2 DEF Fits
    <3>2. QED
      BY <1>1, <2>2, <3>1
  <2>3. QED
    BY <2>1, <2>2
<1> DEFINE n == [call[k] EXCEPT !.pc = "after"]
<1>5. call' = [call EXCEPT ![k] = n] /\ inst' = [inst EXCEPT ![i] = q]
  BY <1>2, <1>3, <1>4 DEF LifeTypes
<1>6. /\ n \in CallType /\ n.pc = "after" /\ n.op = "save" /\ n.i = i /\ n.id = call[k].id
  BY <1>0, <1>1, <1>2 DEF CallType, Pcs
<1> HIDE DEF n
<1>7. Writes(n, i) /\ Writes(call[k], i) /\ (Inserts(call[k], i) => q.exists)
  BY <1>0, <1>1, <1>4, <1>6 DEF Writes, Inserts
<1>8. Writing(i) /\ (Inserting(i) => q.exists \/ OthersInsert(k, i))
  BY <1>7, WhoWrites
<1>9. Fits(q, g, Writes(n, i) \/ OthersWrite(k, i), Inserts(n, i) \/ OthersInsert(k, i))
  BY <1>2, <1>4, <1>7, <1>8 DEF Fits
<1>10. CallFits(n)
  BY <1>0, <1>2, <1>6 DEF CallFits
<1>11. LifeTypes'
  BY <1>2, <1>3, <1>4, <1>5, <1>6 DEF LifeTypes
<1>12. /\ call'[k] = n /\ \A l \in Callers \ {k} : call'[l] = call[l]
       /\ \A j \in Insts \ {i} : inst'[j] = inst[j] /\ ghost'[j] = ghost[j]
       /\ inst'[i] = q /\ ghost'[i] = g
  <2>1. call \in [Callers -> CallType] /\ inst \in [Insts -> InstanceType]
    BY <1>2 DEF LifeTypes
  <2>2. QED
    BY <1>1, <1>3, <1>5, <2>1
<1>13. q.exists \/ ~inst[i].exists
  BY <1>1, <1>4
<1>14. QED
  BY <1>0, <1>1, <1>6, <1>9, <1>10, <1>11, <1>12, <1>13, CallFrame

LEMMA FinishSaveKept ==
    ASSUME LifeInv, NEW k \in Callers, FinishSave(k)
    PROVE  LifeInv'
<1>0. call[k].pc = "after" /\ call[k].op = "save"
  BY DEF FinishSave, At
<1>1. PICK i \in Insts, o \in InstanceType, g \in GhostType : i = call[k].i /\ o = inst[i] /\ g = ghost[i]
  BY <1>0, UnderWay
<1>2. call[k] \in CallType /\ Fits(o, g, Writing(i), Inserting(i)) /\ LifeTypes
  BY <1>0, <1>1, UnderWay
<1> DEFINE q == [o EXCEPT !.orig = o.attrs]
<1>3. /\ inst' = [inst EXCEPT ![i] = q] /\ call' = [call EXCEPT ![k] = Idle] /\ UNCHANGED <<mongo, rows, ghost>>
  BY <1>1 DEF FinishSave, End
<1>4. /\ q \in InstanceType /\ q.attrs = o.attrs /\ q.orig = o.attrs /\ q.cached = o.cached
      /\ q.exists = o.exists /\ q.id = o.id
  BY <1>1 DEF InstanceType
<1> HIDE DEF q
<1>5. Writes(call[k], i) /\ ~Inserts(call[k], i)
  BY <1>0, <1>1 DEF Writes, Inserts
<1>6. Writing(i) /\ (Inserting(i) <=> OthersInsert(k, i))
  BY <1>5, WhoWrites
<1>7. Fits(q, g, Writes(Idle, i) \/ OthersWrite(k, i), Inserts(Idle, i) \/ OthersInsert(k, i))
  BY <1>2, <1>4, <1>6, IdleFits DEF Fits, Cols
<1>8. LifeTypes'
  BY <1>2, <1>3, <1>4, IdleFacts DEF LifeTypes
<1>9. /\ call'[k] = Idle /\ \A l \in Callers \ {k} : call'[l] = call[l]
      /\ \A j \in Insts \ {i} : inst'[j] = inst[j] /\ ghost'[j] = ghost[j]
      /\ inst'[i] = q /\ ghost'[i] = g
  <2>1. call \in [Callers -> CallType] /\ inst \in [Insts -> InstanceType]
    BY <1>2 DEF LifeTypes
  <2>2. QED
    BY <1>1, <1>3, <2>1
<1>10. q.exists \/ ~inst[i].exists
  BY <1>1, <1>4
<1>11. QED
  BY <1>0, <1>1, <1>7, <1>8, <1>9, <1>10, IdleFacts, IdleFits, CallFrame

\* A column marked with v, and told of it.
LEMMA MarkedFacts ==
    ASSUME LifeInv, NEW i \in Insts, NEW v \in V, Marked(i, v)
    PROVE  \E o \in InstanceType, g \in GhostType :
             /\ inst' = [inst EXCEPT ![i] = o] /\ ghost' = [ghost EXCEPT ![i] = g]
             /\ o.exists = inst[i].exists
             /\ Fits(o, g, Writing(i), Inserting(i))
<1> DEFINE o == SetAttribute(inst[i], "deleted_at", v)
           t == Touch(ghost[i], i, "deleted_at")
           g == [t EXCEPT !.known["deleted_at"] = v]
<1>0. /\ inst[i] \in InstanceType /\ ghost[i] \in GhostType /\ "deleted_at" \in Cols
      /\ Fits(inst[i], ghost[i], Writing(i), Inserting(i))
  BY TypeFacts DEF Cols
<1>1. /\ o \in InstanceType /\ o.id = inst[i].id /\ o.exists = inst[i].exists /\ o.orig = inst[i].orig
      /\ o.attrs["deleted_at"] = v /\ \A d \in Cols \ {"deleted_at"} : o.attrs[d] = inst[i].attrs[d]
      /\ \A e \in o.cached : e \in inst[i].cached /\ e[1] # "deleted_at" /\ e[1] \in Cols
  BY <1>0, SetFacts
<1>2. /\ t \in GhostType /\ t.known = ghost[i].known /\ t.touched = ghost[i].touched \union {"deleted_at"}
      /\ Writing(i) => t.tangled = ghost[i].tangled \union {"deleted_at"}
      /\ ~Writing(i) => t.tangled = ghost[i].tangled
      /\ t.inserts = ghost[i].inserts /\ t.overlap = ghost[i].overlap /\ t.refreshed = ghost[i].refreshed
  BY <1>0, TouchFacts
<1>3. inst' = [inst EXCEPT ![i] = o] /\ ghost' = [ghost EXCEPT ![i] = g]
  BY DEF Marked
<1> HIDE DEF o, t
<1>4. /\ g \in GhostType /\ g.known["deleted_at"] = v
      /\ \A d \in Cols \ {"deleted_at"} : g.known[d] = t.known[d]
      /\ g.touched = t.touched /\ g.tangled = t.tangled
      /\ g.inserts = t.inserts /\ g.overlap = t.overlap /\ g.refreshed = t.refreshed
  <2> DEFINE kn == [t.known EXCEPT !["deleted_at"] = v]
  <2>1. t.known \in Attrs
    BY <1>2 DEF GhostType
  <2>2. kn \in Attrs /\ kn["deleted_at"] = v /\ \A d \in Cols \ {"deleted_at"} : kn[d] = t.known[d]
    BY <1>0, <2>1 DEF Attrs
  <2>3. g = [t EXCEPT !.known = kn]
    BY <1>2 DEF GhostType
  <2> HIDE DEF g, kn
  <2>4. /\ g \in GhostType /\ g.known = kn /\ g.touched = t.touched /\ g.tangled = t.tangled
        /\ g.inserts = t.inserts /\ g.overlap = t.overlap /\ g.refreshed = t.refreshed
    BY <1>2, <2>2, <2>3 DEF GhostType
  <2>5. QED
    BY <2>2, <2>4
<1> HIDE DEF g
<1>5. Fits(o, g, Writing(i), Inserting(i))
  BY <1>0, <1>1, <1>2, <1>4 DEF Fits, Cols
<1>6. QED
  BY <1>1, <1>3, <1>4, <1>5

LEMMA StampType == ASSUME LifeInv, NEW i \in Insts, NEW op PROVE Stamp(i, op) \in V
BY DEF Stamp, V

LEMMA SendRemovalKept ==
    ASSUME LifeInv, NEW k \in Callers, NEW op \in Removals, SendRemoval(k, op)
    PROVE  LifeInv'
<1>0. call[k].pc = "asked" /\ call[k].op = op /\ op \notin Reads /\ op # "save"
  BY DEF SendRemoval, At, Removals, Reads
<1>1. PICK i \in Insts : i = call[k].i
  BY <1>0, UnderWay
<1>2. /\ call[k] \in CallType /\ CallFits(call[k]) /\ Fits(inst[i], ghost[i], Writing(i), Inserting(i))
      /\ rows \in [Ids -> RowType] /\ inst[i] \in InstanceType
  BY <1>0, <1>1, UnderWay
<1>3. PICK v \in V : v = IF op = "forceDelete" THEN 0 ELSE Stamp(i, op)
  BY StampType DEF V
<1> DEFINE n == [call[k] EXCEPT !.pc = "sent", !.id = inst[i].id, !.set["deleted_at"] = v]
<1>4. /\ call' = [call EXCEPT ![k] = n] /\ UNCHANGED <<mongo, rows>> /\ inst[i].id # 0
      /\ IF MarksFirst(op) THEN Marked(i, Stamp(i, op)) ELSE UNCHANGED <<inst, ghost>>
  BY <1>1, <1>3 DEF SendRemoval
<1>5. n \in CallType /\ n.pc = "sent" /\ n.op = op /\ n.i = i /\ n.id = inst[i].id /\ n.insert = call[k].insert
  <2> DEFINE s == [call[k].set EXCEPT !["deleted_at"] = v]
  <2>1. s \in Attrs /\ inst[i].id \in 0 .. MaxRows
    BY <1>2, <1>3 DEF CallType, Attrs, Cols, InstanceType
  <2>2. n = [call[k] EXCEPT !.pc = "sent", !.id = inst[i].id, !.set = s]
    BY <1>2 DEF CallType
  <2> HIDE DEF n, s
  <2>3. QED
    BY <1>0, <1>1, <1>2, <2>1, <2>2 DEF CallType, Pcs
<1> HIDE DEF n
<1>6. ~Writes(n, i) /\ ~Writes(call[k], i) /\ ~Inserts(call[k], i)
  BY <1>0, <1>5 DEF Writes, Inserts
<1>7. CallFits(n)
  BY <1>0, <1>2, <1>4, <1>5 DEF CallFits
<1>8. CASE MarksFirst(op)
  <2>1. Marked(i, Stamp(i, op)) /\ Stamp(i, op) \in V
    BY <1>4, <1>8, StampType
  <2>2. PICK o \in InstanceType, g \in GhostType :
             /\ inst' = [inst EXCEPT ![i] = o] /\ ghost' = [ghost EXCEPT ![i] = g]
             /\ o.exists = inst[i].exists
             /\ Fits(o, g, Writing(i), Inserting(i))
    BY <2>1, MarkedFacts
  <2>3. Fits(o, g, Writes(n, i) \/ OthersWrite(k, i), Inserts(n, i) \/ OthersInsert(k, i))
    BY <1>6, <2>2, WhoWrites DEF Fits
  <2>4. mongo' = mongo /\ rows' \in [Ids -> RowType]
    BY <1>2, <1>4
  <2>5. call' = [call EXCEPT ![k] = n]
    BY <1>4
  <2>6. QED
    BY <1>0, <1>1, <1>5, <1>7, <2>2, <2>3, <2>4, <2>5, CallStep
<1>9. CASE ~MarksFirst(op)
  <2>1. Fits(inst[i], ghost[i], Writes(n, i) \/ OthersWrite(k, i), Inserts(n, i) \/ OthersInsert(k, i))
    BY <1>2, <1>6, WhoWrites DEF Fits
  <2>2. call' = [call EXCEPT ![k] = n] /\ UNCHANGED <<mongo, inst, ghost>> /\ rows' \in [Ids -> RowType]
    BY <1>2, <1>4, <1>9
  <2>3. QED
    BY <1>0, <1>1, <1>5, <1>7, <2>1, <2>2, CallOnly
<1>10. QED
  BY <1>8, <1>9

LEMMA StoreRemovalKept ==
    ASSUME LifeInv, NEW k \in Callers, NEW op \in Removals, StoreRemoval(k, op)
    PROVE  LifeInv'
<1>0. call[k].pc = "sent" /\ call[k].op = op /\ op \notin Reads /\ op # "save"
  BY DEF StoreRemoval, At, Removals, Reads
<1>1. PICK i \in Insts : i = call[k].i
  BY <1>0, UnderWay
<1>2. /\ call[k] \in CallType /\ CallFits(call[k]) /\ Fits(inst[i], ghost[i], Writing(i), Inserting(i))
      /\ rows \in [Ids -> RowType]
  BY <1>0, <1>1, UnderWay
<1> DEFINE n == [call[k] EXCEPT !.pc = "stored"]
<1>3. call' = [call EXCEPT ![k] = n] /\ UNCHANGED <<mongo, inst, ghost>>
  BY DEF StoreRemoval
<1>4. n \in CallType /\ n.pc = "stored" /\ n.op = op /\ n.i = i /\ n.id = call[k].id /\ n.insert = call[k].insert
  BY <1>0, <1>1, <1>2 DEF CallType, Pcs
<1> HIDE DEF n
<1>5. ~call[k].insert /\ call[k].id \in Ids
  BY <1>0, <1>2, ModelAssumption DEF CallFits, CallType, Ids
<1>6. rows' \in [Ids -> RowType]
  <2>1. call[k].set \in Attrs
    BY <1>2 DEF CallType
  <2>2. Written(call[k].id, call[k].set, {"deleted_at"}) \in [Ids -> RowType]
    BY <1>5, <2>1, WrittenType
  <2>3. [NoRow EXCEPT !.state = "gone"] \in RowType
    BY DEF NoRow, RowType, V
  <2>4. [rows EXCEPT ![call[k].id] = [NoRow EXCEPT !.state = "gone"]] \in [Ids -> RowType]
    BY <1>2, <1>5, <2>3
  <2>5. QED
    BY <1>2, <2>2, <2>4 DEF StoreRemoval
<1>7. ~Writes(n, i) /\ ~Writes(call[k], i) /\ ~Inserts(call[k], i)
  BY <1>0, <1>4, <1>5 DEF Writes, Inserts
<1>8. Fits(inst[i], ghost[i], Writes(n, i) \/ OthersWrite(k, i), Inserts(n, i) \/ OthersInsert(k, i))
  BY <1>2, <1>7, WhoWrites DEF Fits
<1>9. CallFits(n)
  BY <1>0, <1>2, <1>4, <1>5 DEF CallFits, Ids
<1>10. QED
  BY <1>0, <1>1, <1>3, <1>4, <1>6, <1>8, <1>9, CallOnly

LEMMA FinishRemovalKept ==
    ASSUME LifeInv, NEW k \in Callers, NEW op \in Removals, FinishRemoval(k, op)
    PROVE  LifeInv'
<1>0. call[k].pc = "stored" /\ call[k].op = op /\ op \notin Reads /\ op # "save"
  BY DEF FinishRemoval, At, Removals, Reads
<1>1. PICK i \in Insts : i = call[k].i
  BY <1>0, UnderWay
<1>2. /\ call[k] \in CallType /\ CallFits(call[k]) /\ Fits(inst[i], ghost[i], Writing(i), Inserting(i))
      /\ rows \in [Ids -> RowType]
  BY <1>0, <1>1, UnderWay
<1>3. /\ call' = [call EXCEPT ![k] = Idle] /\ UNCHANGED <<mongo, rows>>
      /\ IF op = "delete" /\ mongo THEN Marked(i, call[k].set["deleted_at"]) ELSE UNCHANGED <<inst, ghost>>
  BY <1>1 DEF FinishRemoval, End
<1>4. call[k].set["deleted_at"] \in V
  BY <1>2 DEF CallType, Attrs, Cols
<1>5. ~Writes(call[k], i) /\ ~Inserts(call[k], i)
  BY <1>0, <1>2 DEF Writes, Inserts, CallFits
<1>6. CASE op = "delete" /\ mongo
  <2>1. PICK o \in InstanceType, g \in GhostType :
             /\ inst' = [inst EXCEPT ![i] = o] /\ ghost' = [ghost EXCEPT ![i] = g]
             /\ o.exists = inst[i].exists
             /\ Fits(o, g, Writing(i), Inserting(i))
    BY <1>3, <1>4, <1>6, MarkedFacts
  <2>2. Fits(o, g, Writes(Idle, i) \/ OthersWrite(k, i), Inserts(Idle, i) \/ OthersInsert(k, i))
    BY <1>5, <2>1, WhoWrites, IdleFits DEF Fits
  <2>3. mongo' = mongo /\ rows' \in [Ids -> RowType]
    BY <1>2, <1>3
  <2>4. call' = [call EXCEPT ![k] = Idle]
    BY <1>3
  <2>5. QED
    BY <1>0, <1>1, <2>1, <2>2, <2>3, <2>4, IdleFacts, IdleFits, CallStep
<1>7. CASE ~(op = "delete" /\ mongo)
  <2>1. Fits(inst[i], ghost[i], Writes(Idle, i) \/ OthersWrite(k, i), Inserts(Idle, i) \/ OthersInsert(k, i))
    BY <1>2, <1>5, WhoWrites, IdleFits DEF Fits
  <2>2. call' = [call EXCEPT ![k] = Idle] /\ UNCHANGED <<mongo, inst, ghost>> /\ rows' \in [Ids -> RowType]
    BY <1>2, <1>3, <1>7
  <2>3. QED
    BY <1>0, <1>1, <2>1, <2>2, IdleFacts, IdleFits, CallOnly
<1>8. QED
  BY <1>6, <1>7

-----------------------------------------------------------------------------
(* Reads and upserts go on. *)

LEMMA Reading ==
    ASSUME LifeInv, NEW k \in Callers, call[k].op \in Reads, call[k].pc # "idle"
    PROVE  /\ inst[call[k].i].exists /\ call[k].id \in Ids /\ call[k].op # "save" /\ ~call[k].insert
           /\ \A i : ~Writes(call[k], i) /\ ~Inserts(call[k], i)
<1>1. inst[call[k].i].exists /\ CallFits(call[k]) /\ call[k] \in CallType
  BY DEF LifeInv, LifeTypes, CallsInv
<1>2. call[k].op # "save"
  BY DEF Reads
<1>3. QED
  BY <1>1, <1>2, ModelAssumption DEF CallFits, CallType, Ids, Writes, Inserts

LEMMA ReadRowKept ==
    ASSUME LifeInv, NEW k \in Callers, NEW op \in Reads, ReadRow(k, op)
    PROVE  LifeInv'
<1>0. call[k].pc = "sent" /\ call[k].op = op
  BY DEF ReadRow, At
<1>1. PICK i \in Insts : i = call[k].i
  BY <1>0, UnderWay
<1>2. /\ call[k] \in CallType /\ CallFits(call[k]) /\ Fits(inst[i], ghost[i], Writing(i), Inserting(i))
      /\ rows \in [Ids -> RowType]
  BY <1>0, <1>1, UnderWay
<1>3. /\ inst[i].exists /\ call[k].id \in Ids /\ ~call[k].insert /\ call[k].op # "save"
      /\ ~Writes(call[k], i) /\ ~Inserts(call[k], i)
  BY <1>0, <1>1, Reading
<1>4. PICK a \in Attrs : a = Values(rows[call[k].id])
  BY <1>3, ValuesType
<1> DEFINE n == [call[k] EXCEPT !.pc = "stored", !.set = a]
<1>5. UNCHANGED <<mongo, rows, inst, ghost>>
  BY DEF ReadRow
<1>6. CASE Visible(call[k].id)
  <2>1. call' = [call EXCEPT ![k] = n]
    BY <1>4, <1>6 DEF ReadRow
  <2>2. n \in CallType /\ n.pc = "stored" /\ n.op = op /\ n.i = i /\ n.id = call[k].id /\ n.insert = call[k].insert
    BY <1>0, <1>1, <1>2, <1>4 DEF CallType, Pcs
  <2> HIDE DEF n
  <2>3. ~Writes(n, i) /\ ~Inserts(n, i)
    BY <1>0, <1>3, <2>2 DEF Writes, Inserts
  <2>4. Fits(inst[i], ghost[i], Writes(n, i) \/ OthersWrite(k, i), Inserts(n, i) \/ OthersInsert(k, i))
    BY <1>2, <1>3, <2>3, WhoWrites DEF Fits
  <2>5. CallFits(n)
    BY <1>0, <1>3, <2>2, ModelAssumption DEF CallFits, Ids
  <2>6. QED
    BY <1>0, <1>1, <1>2, <1>3, <1>5, <2>1, <2>2, <2>4, <2>5, CallOnly
<1>7. CASE ~Visible(call[k].id)
  <2>1. call' = [call EXCEPT ![k] = Idle]
    BY <1>7 DEF ReadRow
  <2>2. Fits(inst[i], ghost[i], Writes(Idle, i) \/ OthersWrite(k, i), Inserts(Idle, i) \/ OthersInsert(k, i))
    BY <1>2, <1>3, WhoWrites, IdleFits DEF Fits
  <2>3. QED
    BY <1>0, <1>1, <1>2, <1>5, <2>1, <2>2, IdleFacts, IdleFits, CallOnly
<1>8. QED
  BY <1>6, <1>7

LEMMA TakeRowKept ==
    ASSUME LifeInv, NEW k \in Callers, NEW op \in Reads, TakeRow(k, op)
    PROVE  LifeInv'
<1>0. call[k].pc = "stored" /\ call[k].op = op
  BY DEF TakeRow, At
<1>1. PICK i \in Insts, o \in InstanceType, g \in GhostType : i = call[k].i /\ o = inst[i] /\ g = ghost[i]
  BY <1>0, UnderWay
<1>2. /\ call[k] \in CallType /\ Fits(o, g, Writing(i), Inserting(i)) /\ rows \in [Ids -> RowType]
  BY <1>0, <1>1, UnderWay
<1>3. o.exists /\ call[k].id \in Ids /\ ~Writes(call[k], i) /\ ~Inserts(call[k], i)
  BY <1>0, <1>1, Reading
<1>4. PICK a \in Attrs : a = call[k].set
  BY <1>2 DEF CallType
<1>5. PICK r \in 0 .. MaxRows : r = call[k].id /\ r # 0
  BY <1>3, ModelAssumption DEF Ids
<1> DEFINE q == Taken(o, call[k], op)
           h == Reread(g, i, call[k], op)
<1>6. /\ inst' = [inst EXCEPT ![i] = q] /\ ghost' = [ghost EXCEPT ![i] = h]
      /\ call' = [call EXCEPT ![k] = Idle] /\ UNCHANGED <<mongo, rows>>
  BY <1>1 DEF TakeRow, End
<1>7. /\ q \in InstanceType /\ q.attrs = a /\ q.orig = a /\ q.id = r /\ q.exists
      /\ \A e \in q.cached : op # "load"
  <2> DEFINE ca == IF op = "load" THEN {} ELSE o.cached
             ex == op = "load" \/ o.exists
  <2>1. q = [o EXCEPT !.attrs = a, !.orig = a, !.id = r, !.cached = ca, !.exists = ex]
    BY <1>4, <1>5 DEF Taken
  <2>2. ca \in SUBSET ({"title"} \X V) /\ ex = TRUE /\ \A e \in ca : op # "load"
    BY <1>1, <1>3 DEF InstanceType
  <2> HIDE DEF q, ca, ex
  <2>3. q \in InstanceType /\ q.attrs = a /\ q.orig = a /\ q.id = r /\ q.exists = ex /\ q.cached = ca
    BY <1>1, <1>4, <1>5, <2>1, <2>2 DEF InstanceType
  <2>4. QED
    BY <2>2, <2>3
<1>8. /\ h \in GhostType /\ h.known = a /\ h.touched = g.touched /\ h.inserts = g.inserts
      /\ h.overlap = g.overlap /\ (op # "load" => h.refreshed)
  <2> DEFINE re == op = "refresh" \/ g.refreshed
             ta == IF Writing(i) THEN Cols ELSE {}
  <2>1. h = [g EXCEPT !.known = a, !.refreshed = re, !.tangled = ta]
    BY <1>4 DEF Reread
  <2>2. re \in BOOLEAN /\ (op # "load" => re)
    BY <1>1 DEF GhostType, Reads
  <2>3. ta \subseteq Cols
    OBVIOUS
  <2> HIDE DEF h, re, ta
  <2>4. /\ h \in GhostType /\ h.known = a /\ h.touched = g.touched /\ h.inserts = g.inserts
        /\ h.overlap = g.overlap /\ h.refreshed = re
    BY <1>1, <1>4, <2>1, <2>2, <2>3 DEF GhostType
  <2>5. QED
    BY <2>2, <2>4
<1> HIDE DEF q, h
<1>9. g.overlap \/ g.inserts = 0 \/ g.inserts = 1
  BY <1>2 DEF Fits
<1>10. Fits(q, h, Writes(Idle, i) \/ OthersWrite(k, i), Inserts(Idle, i) \/ OthersInsert(k, i))
  BY <1>5, <1>7, <1>8, <1>9 DEF Fits, Cols
<1>11. mongo' = mongo /\ rows' \in [Ids -> RowType] /\ call' = [call EXCEPT ![k] = Idle]
  BY <1>2, <1>6
<1>12. inst' = [inst EXCEPT ![i] = q] /\ ghost' = [ghost EXCEPT ![i] = h]
  BY <1>6
<1>13. QED
  BY <1>0, <1>1, <1>7, <1>8, <1>10, <1>11, <1>12, IdleFacts, IdleFits, CallStep

LEMMA UpsertKept ==
    ASSUME LifeInv, NEW k \in Callers, UpdateOrCreate(k, 1)
    PROVE  LifeInv'
<1>0. call[k].pc = "found" /\ call[k].op = "upsert" /\ "save" \in OpNames \ Reads /\ 1 \in V
  BY DEF UpdateOrCreate, At, OpNames, Reads, Removals, V
<1>1. PICK i \in Insts : i = call[k].i
  BY <1>0, UnderWay
<1>2. call[k] \in CallType /\ CallFits(call[k]) /\ rows \in [Ids -> RowType]
  BY <1>0, <1>1, UnderWay
<1>3. PICK a \in Attrs, r \in 0 .. MaxRows : a = call[k].set /\ r = call[k].id /\ (r = 0 => a = Blank)
  BY <1>0, <1>2 DEF CallType, CallFits
<1> DEFINE n == [Idle EXCEPT !.pc = "asked", !.op = "save", !.i = i]
           b == Instance(r, a, TRUE)
           o == IF r = 0 THEN New(1) ELSE Fill(b, 1)
           g == [Untouched(a) EXCEPT !.touched = {"title"}]
<1>4. /\ call' = [call EXCEPT ![k] = n] /\ inst' = [inst EXCEPT ![i] = o] /\ ghost' = [ghost EXCEPT ![i] = g]
      /\ UNCHANGED <<mongo, rows>>
  BY <1>1, <1>3 DEF UpdateOrCreate, Begin
<1>5. /\ n \in CallType /\ n.pc = "asked" /\ n.op = "save" /\ n.i = i /\ CallFits(n)
      /\ ~Writes(n, i) /\ ~Inserts(n, i)
  BY <1>0, AskedFacts
<1>6. \A l \in Callers \ {k} : ~On(call[l], i)
  BY <1>0, <1>1 DEF LifeInv, CallsInv
<1>7. ~OthersWrite(k, i) /\ ~OthersInsert(k, i)
  BY <1>6 DEF OthersWrite, OthersInsert, Writes, Inserts, On
<1>8. /\ g \in GhostType /\ g.known = a /\ g.touched = {"title"} /\ g.inserts = 0
  BY <1>3, UntouchedFacts DEF GhostType, Cols
<1>9. /\ o \in InstanceType /\ (o.exists <=> o.id # 0) /\ o.cached = {}
      /\ \A c \in {"owner", "deleted_at"} : o.attrs[c] = o.orig[c]
      /\ o.attrs["deleted_at"] = a["deleted_at"]
      /\ (o.exists => o.orig = a)
  <2>1. CASE r = 0
    <3>1. /\ New(1) \in InstanceType /\ New(1).id = 0 /\ ~New(1).exists /\ New(1).cached = {}
          /\ New(1).attrs = New(1).orig /\ New(1).attrs["deleted_at"] = 0
      BY <1>0, NewFacts
    <3>2. a["deleted_at"] = 0
      BY <1>3, <2>1, BlankFacts DEF Cols
    <3>3. o = New(1)
      BY <2>1
    <3> HIDE DEF o
    <3>4. QED
      BY <3>1, <3>2, <3>3
  <2>2. CASE r # 0
    <3>1. b \in InstanceType /\ b.id = r /\ b.exists /\ b.attrs = a /\ b.orig = a /\ b.cached = {}
      BY <1>3 DEF Instance, InstanceType
    <3> HIDE DEF b
    <3> DEFINE f == Fill(b, 1)
    <3>3. /\ f \in InstanceType /\ f.id = b.id /\ f.exists = b.exists /\ f.orig = b.orig
          /\ f.attrs["title"] = 1 /\ \A d \in {"owner", "deleted_at"} : f.attrs[d] = b.attrs[d]
          /\ \A e \in f.cached : e \in b.cached /\ e[1] # "title" /\ e[1] \in Cols
      BY <1>0, <3>1, FillFacts
    <3>4. o = f
      BY <2>2 DEF b
    <3> HIDE DEF o, f
    <3>5. f.cached = {}
      BY <3>1, <3>3
    <3>6. QED
      BY <2>2, <3>1, <3>3, <3>4, <3>5
  <2>3. QED
    BY <2>1, <2>2
<1> HIDE DEF n, o, g
<1>10. Fits(o, g, Writes(n, i) \/ OthersWrite(k, i), Inserts(n, i) \/ OthersInsert(k, i))
  BY <1>5, <1>7, <1>8, <1>9 DEF Fits, Cols
<1>11. mongo' = mongo /\ rows' \in [Ids -> RowType] /\ call' = [call EXCEPT ![k] = n]
  BY <1>2, <1>4
<1>12. inst' = [inst EXCEPT ![i] = o] /\ ghost' = [ghost EXCEPT ![i] = g]
  BY <1>4
<1>13. QED
  BY <1>0, <1>1, <1>5, <1>6, <1>8, <1>9, <1>10, <1>11, <1>12, CallStep

-----------------------------------------------------------------------------
(* The invariant, and what follows. *)

LEMMA LifeInvInit == Init => LifeInv
<1> SUFFICES ASSUME Init PROVE LifeInv
  OBVIOUS
<1> DEFINE b == Instance(0, Blank, FALSE)
           g == Untouched(Blank)
<1>1. b \in InstanceType /\ b.id = 0 /\ ~b.exists /\ b.attrs = Blank /\ b.orig = Blank /\ b.cached = {}
  BY BlankFacts
<1>2. /\ g \in GhostType /\ g.known = Blank /\ g.inserts = 0
  BY BlankFacts, UntouchedFacts
<1>3. /\ inst = [i \in Insts |-> b] /\ ghost = [i \in Insts |-> g] /\ call = [k \in Callers |-> Idle]
      /\ mongo \in BOOLEAN
  BY DEF Init
<1>4. rows \in [Ids -> RowType]
  <2>1. NoRow \in RowType /\ [NoRow EXCEPT !.state = "here"] \in RowType
    BY DEF NoRow, RowType, V
  <2>2. QED
    BY <2>1 DEF Init
<1> HIDE DEF b, g
<1>5. LifeTypes
  BY <1>1, <1>2, <1>3, <1>4, IdleFacts DEF LifeTypes
<1>6. CallsInv
  BY <1>3, IdleFacts, IdleFits DEF CallsInv
<1>7. InstsInv
  <2>1. ASSUME NEW i \in Insts PROVE Fits(b, g, Writing(i), Inserting(i))
    <3>1. ~Writing(i)
      BY <1>3, IdleFacts DEF Writing
    <3>2. QED
      BY <1>1, <1>2, <3>1 DEF Fits
  <2>2. QED
    BY <1>3, <2>1 DEF InstsInv
<1>8. QED
  BY <1>5, <1>6, <1>7 DEF LifeInv

LEMMA LifeInvStep == LifeInv /\ [Next]_vars => LifeInv'
<1> SUFFICES ASSUME LifeInv, [Next]_vars PROVE LifeInv'
  OBVIOUS
<1>1. ASSUME NEW i \in Insts, NEW c \in {"title", "owner"}, NEW v \in 1 .. 2, Assign(i, c, v) PROVE LifeInv'
  BY <1>1, AssignKept
<1>2. ASSUME NEW i \in Insts, GetAttribute(i, "title") PROVE LifeInv'
  BY <1>2, GetAttributeKept
<1>3. ASSUME NEW i \in Insts, NEW r \in Ids, NEW t \in BOOLEAN, Find(i, r, t) PROVE LifeInv'
  BY <1>3, FindKept
<1>4. ASSUME AnyStart PROVE LifeInv'
  <2>1. ASSUME NEW k \in Callers, NEW i \in Insts, NEW u \in 0 .. 1, StartSave(k, i, u) PROVE LifeInv'
    BY <2>1, StartSaveKept
  <2>2. ASSUME NEW k \in Callers, NEW i \in Insts, Create(k, i, 1) PROVE LifeInv'
    BY <2>2, CreateKept
  <2>3. ASSUME NEW k \in Callers, NEW i \in Insts, NEW op \in Removals, StartRemoval(k, i, op) PROVE LifeInv'
    BY <2>3, StartRemovalKept
  <2>4. ASSUME NEW k \in Callers, NEW i \in Insts, NEW op \in Reads, StartRead(k, i, op) PROVE LifeInv'
    BY <2>4, StartReadKept
  <2>5. ASSUME NEW k \in Callers, NEW i \in Insts, Lookup(k, i) PROVE LifeInv'
    BY <2>5, LookupKept
  <2>6. QED
    BY <1>4, <2>1, <2>2, <2>3, <2>4, <2>5 DEF AnyStart
<1>5. ASSUME NEW i \in Insts, NEW j \in Insts, Replicate(i, j) PROVE LifeInv'
  BY <1>5, ReplicateKept
<1>6. ASSUME NEW k \in Callers, Progress(k) PROVE LifeInv'
  <2>1. CASE Veto(k)
    BY <2>1, VetoKept
  <2>2. CASE Send(k)
    BY <2>2, SendKept
  <2>3. CASE Store(k)
    BY <2>3, StoreKept
  <2>4. CASE Resume(k)
    BY <2>4, ResumeKept
  <2>5. CASE FinishSave(k)
    BY <2>5, FinishSaveKept
  <2>6. ASSUME NEW op \in Removals, SendRemoval(k, op) PROVE LifeInv'
    BY <2>6, SendRemovalKept
  <2>7. ASSUME NEW op \in Removals, StoreRemoval(k, op) PROVE LifeInv'
    BY <2>7, StoreRemovalKept
  <2>8. ASSUME NEW op \in Removals, FinishRemoval(k, op) PROVE LifeInv'
    BY <2>8, FinishRemovalKept
  <2>9. ASSUME NEW op \in Reads, ReadRow(k, op) PROVE LifeInv'
    BY <2>9, ReadRowKept
  <2>10. ASSUME NEW op \in Reads, TakeRow(k, op) PROVE LifeInv'
    BY <2>10, TakeRowKept
  <2>11. CASE UpdateOrCreate(k, 1)
    BY <2>11, UpsertKept
  <2>12. QED
    BY <1>6, <2>1, <2>2, <2>3, <2>4, <2>5, <2>6, <2>7, <2>8, <2>9, <2>10, <2>11 DEF Progress
<1>7. CASE UNCHANGED vars
  BY <1>7 DEF vars, LifeInv, LifeTypes, CallsInv, InstsInv, Fits, Writing, Inserting
<1>8. AnyAssign => LifeInv'
  BY <1>1 DEF AnyAssign
<1>9. AnyGet => LifeInv'
  BY <1>2 DEF AnyGet
<1>10. AnyFind => LifeInv'
  BY <1>3 DEF AnyFind
<1>11. QED
  BY <1>4, <1>5, <1>6, <1>7, <1>8, <1>9, <1>10 DEF Next

LEMMA LifeInvHolds == Spec => []LifeInv
<1>1. QED
  BY LifeInvInit, LifeInvStep, PTL DEF Spec

\* What fits is dirty when it has to be, was inserted once, and reads right.
LEMMA FitsShown == LifeInv => ChangesStayDirty /\ InsertOnce /\ CacheFollows
<1> SUFFICES ASSUME LifeInv PROVE ChangesStayDirty /\ InsertOnce /\ CacheFollows
  OBVIOUS
<1>1. ASSUME NEW i \in Insts
      PROVE  inst[i] \in InstanceType /\ ghost[i] \in GhostType /\ Fits(inst[i], ghost[i], Writing(i), Inserting(i))
  BY TypeFacts
<1>2. ChangesStayDirty
  <2>1. ASSUME NEW i \in Insts, NEW c \in Cols,
               inst[i].exists, ~Writing(i), inst[i].attrs[c] # ghost[i].known[c], c \notin ghost[i].tangled
        PROVE  inst[i].attrs[c] # inst[i].orig[c]
    BY <1>1, <2>1 DEF Fits, Cols
  <2>2. QED
    BY <2>1 DEF ChangesStayDirty, Dirty
<1>3. InsertOnce
  <2>1. ASSUME NEW i \in Insts, ghost[i].inserts > 1 PROVE ghost[i].overlap
    BY <1>1, <2>1 DEF Fits, GhostType
  <2>2. QED
    BY <2>1 DEF InsertOnce
<1>4. CacheFollows
  BY <1>1 DEF CacheFollows, Fits
<1>5. QED
  BY <1>2, <1>3, <1>4

\* Only Send turns a save that was asked for into one that was sent.
LEMMA OnlySendSends ==
    ASSUME LifeInv, [Next]_vars, NEW k \in Callers, call[k].pc = "asked", call'[k].pc = "sent", call[k].op = "save"
    PROVE  Send(k)
<1>0. call \in [Callers -> CallType]
  BY DEF LifeInv, LifeTypes
<1>1. "save" \notin Removals \cup Reads \cup {"upsert"}
  BY DEF Removals, Reads
<1>2. call' # call
  OBVIOUS
<1>3. ASSUME NEW l \in Callers, NEW n, call' = [call EXCEPT ![l] = n] PROVE l = k /\ n.pc = "sent"
  BY <1>0, <1>3
<1>4. ~UNCHANGED vars /\ ~AnyAssign /\ ~AnyGet /\ ~AnyFind /\ ~(\E i, j \in Insts : Replicate(i, j))
  BY <1>2 DEF vars, AnyAssign, AnyGet, AnyFind, Assign, GetAttribute, Find, Replicate
<1>5. ASSUME NEW l \in Callers, NEW i \in Insts, call[l].pc = "idle", NEW n, call' = [call EXCEPT ![l] = n] PROVE FALSE
  BY <1>0, <1>5
<1>6. ~AnyStart
  <2>1. ASSUME NEW l \in Callers, NEW i \in Insts PROVE ~\E u \in 0 .. 1 : StartSave(l, i, u)
    BY <1>5 DEF StartSave, Begin
  <2>2. ASSUME NEW l \in Callers, NEW i \in Insts PROVE ~Create(l, i, 1)
    BY <1>5 DEF Create, Begin
  <2>3. ASSUME NEW l \in Callers, NEW i \in Insts PROVE ~\E op \in Removals : StartRemoval(l, i, op)
    BY <1>5 DEF StartRemoval, Begin
  <2>4. ASSUME NEW l \in Callers, NEW i \in Insts PROVE ~\E op \in Reads : StartRead(l, i, op)
    BY <1>5 DEF StartRead
  <2>5. ASSUME NEW l \in Callers, NEW i \in Insts PROVE ~Lookup(l, i)
    BY <1>5 DEF Lookup
  <2>6. QED
    BY <2>1, <2>2, <2>3, <2>4, <2>5 DEF AnyStart
<1>7. PICK l \in Callers : Progress(l)
  BY <1>4, <1>6 DEF Next
<1>8. ~Veto(l) /\ ~FinishSave(l)
  BY <1>3, IdleFacts DEF Veto, FinishSave, End
<1>9. ~Store(l)
  BY <1>0 DEF Store, At
<1>10. ~Resume(l)
  BY <1>0 DEF Resume, At
<1>11. ~\E op \in Removals : SendRemoval(l, op) \/ StoreRemoval(l, op) \/ FinishRemoval(l, op)
  <2>1. ASSUME NEW op \in Removals PROVE ~SendRemoval(l, op)
    <3>1. ASSUME SendRemoval(l, op) PROVE l # k
      BY <1>1, <3>1 DEF SendRemoval, At
    <3>2. QED
      BY <1>3, <3>1 DEF SendRemoval
  <2>2. ASSUME NEW op \in Removals PROVE ~StoreRemoval(l, op)
    BY <1>0 DEF StoreRemoval, At
  <2>3. ASSUME NEW op \in Removals PROVE ~FinishRemoval(l, op)
    BY <1>3, IdleFacts DEF FinishRemoval, End
  <2>4. QED
    BY <2>1, <2>2, <2>3
<1>12. ~\E op \in Reads : ReadRow(l, op) \/ TakeRow(l, op)
  <2>1. ASSUME NEW op \in Reads PROVE ~ReadRow(l, op)
    BY <1>0 DEF ReadRow, At
  <2>2. ASSUME NEW op \in Reads PROVE ~TakeRow(l, op)
    BY <1>3, IdleFacts DEF TakeRow, End
  <2>3. QED
    BY <2>1, <2>2
<1>13. ~UpdateOrCreate(l, 1)
  BY <1>0 DEF UpdateOrCreate, At, Begin
<1>14. Send(l)
  BY <1>7, <1>8, <1>9, <1>10, <1>11, <1>12, <1>13 DEF Progress
<1>15. l = k
  BY <1>3, <1>14 DEF Send
<1>16. QED
  BY <1>14, <1>15

LEMMA OwnChangesSent ==
    LifeInv /\ [Next]_vars =>
      [\A k \in Callers :
         /\ call[k].pc = "asked" /\ call'[k].pc = "sent" /\ call[k].op = "save"
         /\ ~call'[k].insert
         => call'[k].cols \subseteq ghost[call[k].i].touched]_vars
<1> SUFFICES ASSUME LifeInv, [Next]_vars, NEW k \in Callers,
                    call[k].pc = "asked", call'[k].pc = "sent", call[k].op = "save", ~call'[k].insert
             PROVE  call'[k].cols \subseteq ghost[call[k].i].touched
  OBVIOUS
<1>1. Send(k)
  BY OnlySendSends
<1>2. PICK i \in Insts : i = call[k].i
  BY UnderWay
<1>3. call[k] \in CallType /\ Fits(inst[i], ghost[i], Writing(i), Inserting(i)) /\ LifeTypes
  BY <1>2, UnderWay
<1> DEFINE cols == IF DoInsert(inst[i]) THEN Cols ELSE Dirty(i)
           n == [call[k] EXCEPT !.pc = "sent", !.set = inst[i].attrs, !.id = inst[i].id,
                                !.insert = DoInsert(inst[i]), !.cols = cols]
<1>4. call' = [call EXCEPT ![k] = n]
  BY <1>1, <1>2 DEF Send
<1>5. call'[k] = n
  BY <1>3, <1>4 DEF LifeTypes
<1>6. (n.insert <=> DoInsert(inst[i])) /\ n.cols = cols
  BY <1>3 DEF CallType, DoInsert
<1> HIDE DEF n
<1>7. call'[k].cols = Dirty(i)
  BY <1>5, <1>6
<1>8. Dirty(i) \subseteq ghost[i].touched
  BY <1>3 DEF Dirty, Fits
<1>9. QED
  BY <1>2, <1>7, <1>8

\* RowFollowsInstance: the columns that differ from what the database was told
\* are dirty, an instance is inserted once, cached reads are the attributes, and
\* a save sends only what was assigned through its instance - whatever saves,
\* removals, reads and assignments overlap, on as many instances and rows.
THEOREM RowKept == Spec => RowFollowsInstance
<1>1. Spec => [](ChangesStayDirty /\ InsertOnce /\ CacheFollows)
  BY LifeInvHolds, FitsShown, PTL
<1>2. Spec => OnlyOwnChanges
  BY LifeInvHolds, OwnChangesSent, PTL DEF Spec, OnlyOwnChanges
<1>3. QED
  BY <1>1, <1>2 DEF RowFollowsInstance

-----------------------------------------------------------------------------
(* What classes keep in static fields (ModelBoot).  A class finds, in the  *)
(* containers it owns, what was registered on it and nothing else; before  *)
(* it owns a listeners map nothing is registered on it.                    *)

\* Neither Model nor "no class" is one of the classes, and @use lists traits.
ClassesFit == /\ Model \notin Classes /\ Boot!None \notin Classes
              /\ \A c \in Classes : \E traits : Uses[c] \in Seq(traits)

BootTypes ==
    /\ own \in [Classes -> SUBSET Boot!Containers]
    /\ listeners \in [Boot!Owners -> SUBSET Handlers]
    /\ proto \in [Classes -> Boot!Owners \cup {Boot!None}]
    /\ globalScopes \in [Boot!Owners -> SUBSET Scopes]
    /\ without \in [Boot!Owners -> SUBSET Scopes]
    /\ applied \in [Classes -> BOOLEAN]
    /\ asked \in [Classes -> [handlers : SUBSET Handlers, scopes : SUBSET Scopes]]
    /\ DOMAIN used = Classes
    /\ last \in [on : Classes \cup {Boot!None}, scopes : SUBSET Scopes, fired : SUBSET Handlers,
                 soft : BOOLEAN]

OwnListenersOnly ==
    \A c \in Classes : /\ listeners[c] = asked[c].handlers
                       /\ proto[c] \in {Boot!None, c}
                       /\ "eventListeners" \notin own[c] => asked[c].handlers = {}
OwnScopesOnly ==
    \A c \in Classes : globalScopes[c] \subseteq asked[c].scopes
BootedOnce ==
    \A c \in Classes : applied[c] => used[c] = Boot!Applied(c)
BootInv == /\ BootTypes /\ OwnListenersOnly /\ OwnScopesOnly /\ BootedOnce
           /\ Boot!ListenersStayHome /\ Boot!ScopesStayHome /\ Boot!SoftFromTheStart

\* A class whose traits are registered boots all of them.
LEMMA AllBoot ==
  ASSUME ClassesFit, NEW c \in Classes, \A n \in DOMAIN Uses[c] : Uses[c][n] \in Registered
  PROVE  Boot!Applied(c) = {Uses[c][n] : n \in DOMAIN Uses[c]}
<1>1. PICK traits : Uses[c] \in Seq(traits)
  BY DEF ClassesFit
<1>2. DOMAIN Uses[c] = 1 .. Len(Uses[c]) /\ Len(Uses[c]) \in Nat
  BY <1>1
<1>3. Boot!Applied(c) = Boot!UpTo(Uses[c], Len(Uses[c]))
  BY DEF Boot!Applied
<1>4. QED
  BY <1>2, <1>3 DEF Boot!UpTo

LEMMA BootInit == ClassesFit /\ Boot!Init => BootInv
<1> SUFFICES ASSUME ClassesFit, Boot!Init PROVE BootInv
  OBVIOUS
<1> USE DEF Boot!Init
<1>1. BootTypes
  BY DEF BootTypes, Boot!Owners, Boot!Quiet
<1>2. OwnListenersOnly /\ OwnScopesOnly /\ BootedOnce
  BY DEF OwnListenersOnly, OwnScopesOnly, BootedOnce, Boot!Owners
<1>3. last.on = Boot!None
  BY DEF Boot!Quiet
<1>4. QED
  BY <1>1, <1>2, <1>3 DEF BootInv, Boot!ListenersStayHome, Boot!ScopesStayHome, Boot!SoftFromTheStart

\* A listener goes to the map of its own class, which is made for it if need be.
LEMMA OnKeeps ==
  ASSUME ClassesFit, BootInv, NEW c \in Classes, NEW h \in Handlers, Boot!On(c, h)
  PROVE  BootInv'
<1> USE DEF BootInv, BootTypes
<1>1. "eventListeners" \in own'[c] /\ own' \in [Classes -> SUBSET Boot!Containers]
      /\ \A d \in Classes : own[d] \subseteq own'[d]
  BY DEF Boot!On, Boot!OwnListeners, Boot!Holder, Boot!Containers, ClassesFit
<1>2. proto' = [proto EXCEPT ![c] = c] /\ listeners' = [listeners EXCEPT ![c] = @ \cup {h}]
  <2>1. CASE proto[c] = Boot!None
    BY <1>1, <2>1 DEF Boot!On
  <2>2. CASE proto[c] = c
    BY <1>1, <2>2, ClassesFit DEF Boot!On, ClassesFit
  <2>3. QED
    BY <2>1, <2>2 DEF OwnListenersOnly
<1>3. asked' = [asked EXCEPT ![c].handlers = @ \cup {h}]
  BY DEF Boot!On
<1>4. last' = Boot!Quiet /\ UNCHANGED <<globalScopes, without, applied, used>>
  BY DEF Boot!On
<1>5. /\ \A d \in Classes : asked'[d].scopes = asked[d].scopes
      /\ asked'[c].handlers = asked[c].handlers \cup {h}
      /\ \A d \in Classes \ {c} : asked'[d].handlers = asked[d].handlers
      /\ asked' \in [Classes -> [handlers : SUBSET Handlers, scopes : SUBSET Scopes]]
  BY <1>3
<1>6. /\ proto' \in [Classes -> Boot!Owners \cup {Boot!None}]
      /\ listeners' \in [Boot!Owners -> SUBSET Handlers]
  BY <1>2 DEF Boot!Owners
<1>7. BootTypes'
  BY <1>1, <1>4, <1>5, <1>6 DEF Boot!Quiet
<1>8. OwnListenersOnly'
  BY <1>1, <1>2, <1>5 DEF OwnListenersOnly, Boot!Owners
<1>9. OwnScopesOnly' /\ BootedOnce'
  BY <1>4, <1>5 DEF OwnScopesOnly, BootedOnce, Boot!Applied
<1>10. last'.on = Boot!None
  BY <1>4 DEF Boot!Quiet
<1>11. QED
  BY <1>7, <1>8, <1>9, <1>10 DEF Boot!ListenersStayHome, Boot!ScopesStayHome, Boot!SoftFromTheStart

\* A scope goes to the map of its own class, or to Model's.
LEMMA AddScopeKeeps ==
  ASSUME ClassesFit, BootInv, NEW c \in Classes, NEW s \in Scopes, Boot!AddGlobalScope(c, s)
  PROVE  BootInv'
<1> USE DEF BootInv, BootTypes, Boot!AddGlobalScope
<1>1. /\ \A d \in Classes : asked'[d].handlers = asked[d].handlers
      /\ asked'[c].scopes = asked[c].scopes \cup {s}
      /\ \A d \in Classes \ {c} : asked'[d].scopes = asked[d].scopes
      /\ asked' \in [Classes -> [handlers : SUBSET Handlers, scopes : SUBSET Scopes]]
  OBVIOUS
<1>2. /\ \A d \in Classes \ {c} : globalScopes'[d] = globalScopes[d]
      /\ globalScopes'[c] \subseteq globalScopes[c] \cup {s}
      /\ globalScopes' \in [Boot!Owners -> SUBSET Scopes]
  BY DEF Boot!Holder, Boot!Owners, ClassesFit
<1>3. BootTypes'
  BY <1>1, <1>2 DEF Boot!Quiet
<1>4. OwnListenersOnly' /\ BootedOnce'
  BY <1>1 DEF OwnListenersOnly, BootedOnce, Boot!Applied
<1>5. OwnScopesOnly'
  BY <1>1, <1>2 DEF OwnScopesOnly
<1>6. last'.on = Boot!None
  BY DEF Boot!Quiet
<1>7. QED
  BY <1>3, <1>4, <1>5, <1>6 DEF Boot!ListenersStayHome, Boot!ScopesStayHome, Boot!SoftFromTheStart

LEMMA RemoveScopeKeeps ==
  ASSUME ClassesFit, BootInv, NEW c \in Classes, NEW s \in Scopes, Boot!RemoveGlobalScope(c, s)
  PROVE  BootInv'
<1> USE DEF BootInv, BootTypes, Boot!RemoveGlobalScope
<1>1. /\ \A d \in Classes : globalScopes'[d] \subseteq globalScopes[d]
      /\ globalScopes' \in [Boot!Owners -> SUBSET Scopes]
  BY DEF Boot!Holder, Boot!Owners, ClassesFit
<1>2. BootTypes'
  BY <1>1 DEF Boot!Quiet
<1>3. OwnListenersOnly' /\ BootedOnce' /\ OwnScopesOnly'
  BY <1>1 DEF OwnListenersOnly, BootedOnce, OwnScopesOnly, Boot!Applied
<1>4. last'.on = Boot!None
  BY DEF Boot!Quiet
<1>5. QED
  BY <1>2, <1>3, <1>4 DEF Boot!ListenersStayHome, Boot!ScopesStayHome, Boot!SoftFromTheStart

\* What a boot leaves: the class owns its containers, and its traits are those
\* that could be applied, whenever they were.
LEMMA BootLeaves ==
  ASSUME ClassesFit, BootInv, NEW c \in Classes, Boot!Booted(c),
         UNCHANGED <<listeners, proto, globalScopes, asked>>
  PROVE  /\ OwnListenersOnly' /\ OwnScopesOnly' /\ BootedOnce'
         /\ own' \in [Classes -> SUBSET Boot!Containers]
         /\ applied' \in [Classes -> BOOLEAN] /\ DOMAIN used' = Classes
         /\ \A box \in Boot!Containers : Boot!AfterBoot(c, box) = c
         /\ (\A n \in DOMAIN Uses[c] : Uses[c][n] \in Registered)
              => ("SoftDeletes" \in used'[c] <=> \E n \in DOMAIN Uses[c] : Uses[c][n] = "SoftDeletes")
<1> USE DEF BootInv, BootTypes, Boot!Booted
<1>1. /\ own' \in [Classes -> SUBSET Boot!Containers] /\ own'[c] = Boot!Containers
      /\ \A d \in Classes : own[d] \subseteq own'[d]
      /\ applied' \in [Classes -> BOOLEAN] /\ DOMAIN used' = Classes
  OBVIOUS
<1>2. OwnListenersOnly' /\ OwnScopesOnly'
  BY <1>1 DEF OwnListenersOnly, OwnScopesOnly
<1>3. used'[c] = Boot!Applied(c)
  BY DEF BootedOnce
<1>4. BootedOnce'
  <2> SUFFICES ASSUME NEW d \in Classes, applied'[d] PROVE used'[d] = Boot!Applied(d)
    BY DEF BootedOnce, Boot!Applied
  <2>1. CASE d = c
    BY <1>3, <2>1
  <2>2. CASE d # c
    BY <2>2 DEF BootedOnce
  <2>3. QED
    BY <2>1, <2>2
<1>5. \A box \in Boot!Containers : Boot!AfterBoot(c, box) = c
  BY <1>1 DEF Boot!AfterBoot
<1>6. ASSUME \A n \in DOMAIN Uses[c] : Uses[c][n] \in Registered
      PROVE  "SoftDeletes" \in used'[c] <=> \E n \in DOMAIN Uses[c] : Uses[c][n] = "SoftDeletes"
  BY <1>3, <1>6, AllBoot
<1>7. QED
  BY <1>1, <1>2, <1>4, <1>5, <1>6

\* A query or an event looks only into what its class owns.
LEMMA UseKeeps ==
  ASSUME ClassesFit, BootInv, NEW c \in Classes,
         \/ Boot!Query(c)
         \/ \E s \in Scopes : Boot!WithoutGlobalScope(c, s)
         \/ Boot!Fire(c)
  PROVE  BootInv'
<1> USE DEF BootInv
<1>1. Boot!Booted(c) /\ UNCHANGED <<listeners, proto, globalScopes, asked>>
  BY DEF Boot!Query, Boot!WithoutGlobalScope, Boot!Fire
<1>2. \A box \in Boot!Containers : Boot!AfterBoot(c, box) = c
  BY <1>1, BootLeaves
<1>3. without' \in [Boot!Owners -> SUBSET Scopes]
  BY <1>2 DEF Boot!Query, Boot!WithoutGlobalScope, Boot!Fire, BootTypes, Boot!Owners, Boot!Containers
<1> DEFINE soft == "SoftDeletes" \in used'[c]
           seen == globalScopes[c] \ without[c]
<1>4. /\ last'.on = c /\ last'.soft = soft
      /\ last'.scopes \subseteq globalScopes[c]
      /\ last'.fired # {} => last'.fired = listeners[c]
      /\ last' \in [on : Classes \cup {Boot!None}, scopes : SUBSET Scopes, fired : SUBSET Handlers,
                   soft : BOOLEAN]
  <2>1. seen \subseteq globalScopes[c] /\ seen \subseteq Scopes /\ listeners[c] \subseteq Handlers
    BY DEF BootTypes, Boot!Owners
  <2>2. soft \in BOOLEAN
    OBVIOUS
  <2>3. \/ last' = [on |-> c, fired |-> {}, soft |-> soft, scopes |-> seen]
        \/ last' = [on |-> c, fired |-> listeners[c], soft |-> soft, scopes |-> {}]
    <3>1. CASE Boot!Query(c)
      BY <1>2, <3>1 DEF Boot!Query, Boot!Containers
    <3>2. CASE \E s \in Scopes : Boot!WithoutGlobalScope(c, s)
      BY <1>2, <3>2 DEF Boot!WithoutGlobalScope, Boot!Containers
    <3>3. CASE Boot!Fire(c)
      BY <1>2, <3>3 DEF Boot!Fire, Boot!Containers, Boot!Quiet
    <3>4. QED
      BY <3>1, <3>2, <3>3
  <2> HIDE DEF soft, seen
  <2>4. QED
    BY <2>1, <2>2, <2>3
<1>5. BootTypes'
  BY <1>1, <1>3, <1>4, BootLeaves DEF BootTypes
<1>6. OwnListenersOnly' /\ OwnScopesOnly' /\ BootedOnce'
  BY <1>1, BootLeaves
<1>7. Boot!ListenersStayHome' /\ Boot!ScopesStayHome'
  BY <1>1, <1>4 DEF Boot!ListenersStayHome, Boot!ScopesStayHome, OwnListenersOnly, OwnScopesOnly
<1>8. Boot!SoftFromTheStart'
  BY <1>1, <1>4, BootLeaves DEF Boot!SoftFromTheStart
<1>9. QED
  BY <1>5, <1>6, <1>7, <1>8

LEMMA BootStep == ClassesFit /\ BootInv /\ [Boot!Next]_(Boot!bootVars) => BootInv'
<1> SUFFICES ASSUME ClassesFit, BootInv, [Boot!Next]_(Boot!bootVars) PROVE BootInv'
  OBVIOUS
<1>1. CASE UNCHANGED Boot!bootVars
  BY <1>1 DEF BootInv, BootTypes, OwnListenersOnly, OwnScopesOnly, BootedOnce, Boot!bootVars, Boot!Applied,
              Boot!ListenersStayHome, Boot!ScopesStayHome, Boot!SoftFromTheStart
<1>2. CASE Boot!Next
  BY <1>2, OnKeeps, AddScopeKeeps, RemoveScopeKeeps, UseKeeps DEF Boot!Next
<1>3. QED
  BY <1>1, <1>2

LEMMA BootShown == BootInv => StaticsKept
<1> SUFFICES ASSUME BootInv PROVE Boot!NoListenerLost
  BY DEF BootInv, StaticsKept, Boot!StaticsKept
<1> QED
  BY DEF BootInv, OwnListenersOnly, Boot!NoListenerLost, Boot!Holder

\* StaticsKept: an event of a class runs the listeners registered on that class
\* and no other's, a query is filtered by no other class's scopes, and a class
\* whose traits are registered soft-deletes from its first use - for any number
\* of classes, listeners, scopes and traits, in whatever order they are used.
THEOREM StaticsAlwaysKept == ClassesFit => (Boot!Spec => []StaticsKept)
<1> SUFFICES ASSUME ClassesFit PROVE Boot!Spec => []StaticsKept
  OBVIOUS
<1>1. Boot!Init => BootInv
  BY BootInit
<1>2. BootInv /\ [Boot!Next]_(Boot!bootVars) => BootInv'
  BY BootStep
<1>3. QED
  BY <1>1, <1>2, BootShown, PTL DEF Boot!Spec

-----------------------------------------------------------------------------
(* Relations.  The inductive invariant says, of the syncs that run on the  *)
(* roles of a user while nothing else does: a row none of them wanted is   *)
(* still to be read, or on the list of one that will delete it; a row all  *)
(* of them want that is missing is still to be inserted by one of them.    *)

\* Keys are numbers, and 0 (null) is no user's.
KeysFit == /\ Users \subseteq Nat \ {0} /\ Posts \subseteq Nat /\ Roles \subseteq Nat
           /\ RoleUsers \subseteq Users

Related == Posts \cup Roles
PostOps == {"postAttach", "postDetach", "associate", "postSync"}
RelCallType == [pc : {"idle", "asked", "finding", "attaching", "detaching"},
                op : Rel!PivotOps \cup PostOps \cup {"none"}, u : Users \cup {0},
                want : SUBSET Related, seen : SUBSET Related, todo : SUBSET Related, level : 0 .. 1]
Cell == [row : {"none", "live", "trashed"}, level : 0 .. 1]
SyncsType == [any : BOOLEAN, only : BOOLEAN, all : SUBSET Related, common : SUBSET Related]
RelTypes ==
    /\ posts \in [Posts -> [user_id : Nat, trashed : BOOLEAN]]
    /\ pivot \in [Users -> [Roles -> Cell]]
    /\ relCall \in [Callers -> RelCallType]
    /\ syncs \in [Users -> SyncsType]

\* How far a call has got, and what it still has to do.
RelCallFits(c) ==
    /\ c.pc = "idle" <=> c.op = "none"
    /\ c.op # "none" => c.u \in Users
    /\ c.op \in Rel!PivotOps => c.want \subseteq Roles /\ c.seen \subseteq Roles /\ c.todo \subseteq Roles
    /\ c.op = "sync" =>
         /\ c.pc = "asked" => c.todo = c.want
         /\ c.pc = "attaching" => c.todo \subseteq c.want
         /\ c.pc = "detaching" => c.todo \cap c.want = {}
         /\ c.pc # "finding"
    /\ c.op = "postSync" /\ c.pc = "attaching" => c.todo \subseteq c.want

OnPivot(c, u) == c.u = u /\ c.op \in Rel!PivotOps
Syncing(u) == syncs[u].any /\ syncs[u].only
Removes(c, u, r) == /\ c.u = u /\ c.op = "sync"
                    /\ \/ c.pc = "asked"
                       \/ c.pc = "attaching" /\ r \in c.seen
                       \/ c.pc = "detaching" /\ r \in c.todo
Adds(c, u, r) == /\ c.u = u /\ c.op = "sync"
                 /\ \/ c.pc = "asked"
                    \/ c.pc = "attaching" /\ r \in c.todo /\ r \notin c.seen
Episode(u) ==
    /\ syncs[u].only => \A k \in Callers : OnPivot(relCall[k], u) =>
         /\ relCall[k].op = "sync" /\ syncs[u].any
         /\ relCall[k].want \subseteq syncs[u].all /\ syncs[u].common \subseteq relCall[k].want
    /\ syncs[u].common \subseteq Roles
    /\ Syncing(u) =>
         /\ \A r \in Rel!RowsOf(u) \ syncs[u].all : \E k \in Callers : Removes(relCall[k], u, r)
         /\ \A r \in syncs[u].common \ Rel!RowsOf(u) : \E k \in Callers : Adds(relCall[k], u, r)
         /\ \A k \in Callers : OnPivot(relCall[k], u) /\ relCall[k].pc = "attaching" =>
              relCall[k].seen \cap syncs[u].common \subseteq Rel!RowsOf(u)

RelInv == /\ RelTypes
          /\ \A k \in Callers : RelCallFits(relCall[k])
          /\ \A u \in Users : Episode(u)

\* What does not touch the rows, the syncs or the calls of a user leaves its
\* episode as it was.
LEMMA Elsewhere ==
  ASSUME RelInv, NEW u \in Users, syncs'[u] = syncs[u], Rel!RowsOf(u)' = Rel!RowsOf(u),
         \A k \in Callers : OnPivot(relCall[k], u) \/ OnPivot(relCall'[k], u) => relCall'[k] = relCall[k]
  PROVE  Episode(u)'
<1>1. Episode(u)
  BY DEF RelInv
<1>2. /\ \A k \in Callers : \A r : Removes(relCall[k], u, r) => Removes(relCall'[k], u, r)
      /\ \A k \in Callers : \A r : Adds(relCall[k], u, r) => Adds(relCall'[k], u, r)
  BY DEF Removes, Adds, OnPivot, Rel!PivotOps
<1>3. Syncing(u)' <=> Syncing(u)
  BY DEF Syncing
<1>4. Rel!RowsOf(u)' = Rel!RowsOf(u) /\ syncs'[u] = syncs[u]
  OBVIOUS
<1> HIDE DEF Syncing
<1>5. QED
  BY <1>1, <1>2, <1>3, <1>4 DEF Episode

\* A call takes a step: its record changes, the others' do not.
LEMMA CallMoves ==
  ASSUME RelInv, NEW k \in Callers, NEW n \in RelCallType, RelCallFits(n),
         relCall' = [relCall EXCEPT ![k] = n]
  PROVE  /\ relCall' \in [Callers -> RelCallType]
         /\ \A j \in Callers : RelCallFits(relCall'[j])
         /\ relCall'[k] = n /\ \A j \in Callers \ {k} : relCall'[j] = relCall[j]
BY DEF RelInv, RelTypes

LEMMA NoCallFits == KeysFit => Rel!Idle \in RelCallType /\ RelCallFits(Rel!Idle)
BY DEF Rel!Idle, RelCallType, RelCallFits

LEMMA RelInit == KeysFit /\ Rel!Init => RelInv
<1> SUFFICES ASSUME KeysFit, Rel!Init PROVE RelInv
  OBVIOUS
<1> USE DEF Rel!Init
<1>1. relCall \in [Callers -> RelCallType] /\ \A k \in Callers : RelCallFits(relCall[k])
  BY NoCallFits
<1>2. pivot \in [Users -> [Roles -> Cell]]
  BY DEF Cell, Rel!NoPivot
<1>3. syncs \in [Users -> SyncsType]
  BY DEF SyncsType, Rel!Settled, Related
<1>4. ASSUME NEW u \in Users PROVE Episode(u)
  <2>1. ~syncs[u].any /\ syncs[u].common = Roles
    BY <1>4 DEF Rel!Settled
  <2>2. \A k \in Callers : ~OnPivot(relCall[k], u)
    BY DEF OnPivot, Rel!Idle, Rel!PivotOps
  <2>3. QED
    BY <2>1, <2>2 DEF Episode, Syncing
<1>5. posts \in [Posts -> [user_id : Nat, trashed : BOOLEAN]]
  OBVIOUS
<1>6. QED
  BY <1>1, <1>2, <1>3, <1>4, <1>5 DEF RelInv, RelTypes

\* A call on the pivot table starts.  The first one, and a sync that joins
\* syncs, still has everything to do.
LEMMA StartPivotKeeps ==
  ASSUME KeysFit, RelInv, NEW k \in Callers, NEW op \in Rel!PivotOps, NEW u \in RoleUsers,
         NEW R \in SUBSET Roles, NEW l \in 0 .. 1, Rel!StartPivot(k, op, u, R, l)
  PROVE  RelInv'
<1> USE DEF RelInv
<1> DEFINE n == [Rel!Idle EXCEPT !.pc = "asked", !.op = op, !.u = u, !.want = R, !.todo = R, !.level = l]
           s == IF Rel!PivotBusy(u) THEN syncs[u] ELSE Rel!Settled
           t == IF op = "sync" THEN [s EXCEPT !.any = TRUE, !.all = @ \cup R, !.common = @ \cap R]
                ELSE [s EXCEPT !.only = FALSE]
<1>1. /\ relCall[k].pc = "idle" /\ relCall' = [relCall EXCEPT ![k] = n]
      /\ UNCHANGED <<mongo, side, posts, roles, pivot>> /\ syncs' = [syncs EXCEPT ![u] = t]
  BY DEF Rel!StartPivot, Rel!Begin
<1>2. u \in Users
  BY DEF KeysFit
<1>3. /\ n \in RelCallType /\ RelCallFits(n)
      /\ n.pc = "asked" /\ n.op = op /\ n.u = u /\ n.want = R
  BY <1>2 DEF Rel!Idle, RelCallType, Related, RelCallFits, Rel!PivotOps
<1>4. /\ s.any \in BOOLEAN /\ s.only \in BOOLEAN /\ s \in SyncsType
      /\ s.common \subseteq Roles
  BY <1>2 DEF RelTypes, SyncsType, Rel!Settled, Related, Episode
<1>5. /\ t \in SyncsType
      /\ t.only => /\ op = "sync" /\ s.only /\ t.any
                   /\ t.all = s.all \cup R /\ t.common = s.common \cap R
      /\ t.common \subseteq s.common
  BY <1>4 DEF SyncsType, Related
<1> HIDE DEF n, s, t
<1>6. /\ relCall' \in [Callers -> RelCallType]
      /\ \A j \in Callers : RelCallFits(relCall'[j])
      /\ relCall'[k] = n /\ \A j \in Callers \ {k} : relCall'[j] = relCall[j]
  BY <1>1, <1>3, CallMoves
<1>7. syncs' \in [Users -> SyncsType] /\ syncs'[u] = t
  BY <1>1, <1>2, <1>5 DEF RelTypes
<1>8. \A v \in Users : Rel!RowsOf(v)' = Rel!RowsOf(v)
  BY <1>1 DEF Rel!RowsOf
<1>9. relCall[k].op = "none"
  BY <1>1 DEF RelCallFits
<1>10. ASSUME NEW v \in Users PROVE Episode(v)'
  <2>1. CASE v # u
    <3>1. syncs'[v] = syncs[v]
      BY <1>1, <2>1 DEF RelTypes
    <3>2. \A j \in Callers : OnPivot(relCall[j], v) \/ OnPivot(relCall'[j], v) => relCall'[j] = relCall[j]
      BY <1>3, <1>6, <1>9, <2>1 DEF OnPivot, Rel!PivotOps
    <3>3. QED
      BY <1>8, <3>1, <3>2, Elsewhere
  <2>2. CASE v = u /\ ~t.only
    BY <1>4, <1>5, <1>7, <2>2 DEF Episode, Syncing
  <2>3. CASE v = u /\ t.only
    <3>1. op = "sync" /\ s.only /\ t.any /\ t.all = s.all \cup R /\ t.common = s.common \cap R
      BY <1>5, <2>3
    <3>2. ASSUME NEW j \in Callers, OnPivot(relCall'[j], u)
          PROVE  relCall'[j].op = "sync" /\ relCall'[j].want \subseteq t.all /\ t.common \subseteq relCall'[j].want
      <4>1. CASE j = k
        BY <1>3, <1>6, <3>1, <4>1
      <4>2. CASE j # k
        <5>1. relCall'[j] = relCall[j] /\ OnPivot(relCall[j], u)
          BY <1>6, <3>2, <4>2
        <5>2. s = syncs[u]
          BY <5>1 DEF s, Rel!PivotBusy, OnPivot
        <5>3. /\ relCall[j].op = "sync" /\ relCall[j].want \subseteq syncs[u].all
              /\ syncs[u].common \subseteq relCall[j].want
          BY <1>2, <3>1, <5>1, <5>2 DEF Episode
        <5>4. QED
          BY <3>1, <5>1, <5>2, <5>3
      <4>3. QED
        BY <4>1, <4>2
    <3>3. \A r : Removes(relCall'[k], u, r) /\ Adds(relCall'[k], u, r)
      BY <1>3, <1>6, <3>1 DEF Removes, Adds
    <3>4. \A j \in Callers : OnPivot(relCall'[j], u) /\ relCall'[j].pc = "attaching" =>
            relCall'[j].seen \cap t.common \subseteq Rel!RowsOf(u)
      <4> SUFFICES ASSUME NEW j \in Callers, OnPivot(relCall'[j], u), relCall'[j].pc = "attaching"
                   PROVE  relCall'[j].seen \cap t.common \subseteq Rel!RowsOf(u)
        OBVIOUS
      <4>1. j # k
        BY <1>3, <1>6
      <4>2. relCall'[j] = relCall[j] /\ OnPivot(relCall[j], u)
        BY <1>6, <4>1
      <4>3. s = syncs[u]
        BY <4>2 DEF s, Rel!PivotBusy, OnPivot
      <4>4. Syncing(u)
        BY <1>2, <3>1, <4>2, <4>3 DEF Episode, Syncing
      <4>5. relCall[j].seen \cap syncs[u].common \subseteq Rel!RowsOf(u)
        BY <1>2, <4>2, <4>4 DEF Episode
      <4>6. QED
        BY <1>5, <4>2, <4>3, <4>5
    <3>5. t.common \subseteq Roles
      BY <1>4, <1>5
    <3>6. QED
      BY <1>7, <1>8, <2>3, <3>1, <3>2, <3>3, <3>4, <3>5 DEF Episode, Syncing
  <2>4. QED
    BY <2>1, <2>2, <2>3
<1>11. QED
  BY <1>1, <1>6, <1>7, <1>10 DEF RelTypes

\* A call on posts starts.
LEMMA StartPostKeeps ==
  ASSUME KeysFit, RelInv, NEW k \in Callers, NEW op \in PostOps, NEW u \in Users,
         NEW P \in SUBSET Posts, Rel!Begin(k, op, u, P, 0), UNCHANGED syncs
  PROVE  RelInv'
<1> USE DEF RelInv
<1> DEFINE n == [Rel!Idle EXCEPT !.pc = "asked", !.op = op, !.u = u, !.want = P, !.todo = P, !.level = 0]
<1>1. /\ relCall[k].pc = "idle" /\ relCall' = [relCall EXCEPT ![k] = n]
      /\ UNCHANGED <<mongo, side, posts, roles, pivot, syncs>>
  BY DEF Rel!Begin
<1>2. /\ n \in RelCallType /\ RelCallFits(n) /\ n.op = op
  <2>1. n \in RelCallType
    <3>1. P \in SUBSET Related /\ {} \in SUBSET Related
      BY DEF Related
    <3>2. op \in Rel!PivotOps \cup PostOps \cup {"none"} /\ u \in Users \cup {0} /\ 0 \in 0 .. 1
      OBVIOUS
    <3>3. QED
      BY <3>1, <3>2 DEF Rel!Idle, RelCallType
  <2>2. n.op = op /\ n.pc = "asked" /\ n.u = u
    BY DEF Rel!Idle
  <2>3. RelCallFits(n)
    BY <2>2 DEF RelCallFits, PostOps, Rel!PivotOps
  <2>4. QED
    BY <2>1, <2>2, <2>3
<1> HIDE DEF n
<1>3. /\ relCall' \in [Callers -> RelCallType]
      /\ \A j \in Callers : RelCallFits(relCall'[j])
      /\ relCall'[k] = n /\ \A j \in Callers \ {k} : relCall'[j] = relCall[j]
  BY <1>1, <1>2, CallMoves
<1>4. relCall[k].op = "none"
  BY <1>1 DEF RelCallFits
<1>5. ASSUME NEW v \in Users PROVE Episode(v)'
  <2>1. \A j \in Callers : OnPivot(relCall[j], v) \/ OnPivot(relCall'[j], v) => relCall'[j] = relCall[j]
    BY <1>2, <1>3, <1>4 DEF OnPivot, Rel!PivotOps, PostOps
  <2>2. Rel!RowsOf(v)' = Rel!RowsOf(v)
    BY <1>1 DEF Rel!RowsOf
  <2>3. QED
    BY <1>1, <2>1, <2>2, Elsewhere
<1>6. QED
  BY <1>1, <1>3, <1>5 DEF RelTypes

\* Where a call stays the call it is, or ends.
Goes(c, n) == \/ n.op = "none"
              \/ n.op = c.op /\ n.u = c.u /\ (c.op \in Rel!PivotOps => n.want = c.want)
\* What is left to show of a sync that takes a step.
SyncGoesOn(u) ==
    /\ \A r \in Rel!RowsOf(u)' \ syncs[u].all : \E k \in Callers : Removes(relCall'[k], u, r)
    /\ \A r \in syncs[u].common \ Rel!RowsOf(u)' : \E k \in Callers : Adds(relCall'[k], u, r)
    /\ \A k \in Callers : OnPivot(relCall'[k], u) /\ relCall'[k].pc = "attaching" =>
         relCall'[k].seen \cap syncs[u].common \subseteq Rel!RowsOf(u)'

LEMMA StepKeeps ==
  ASSUME RelInv, NEW k \in Callers, NEW n \in RelCallType, RelCallFits(n), Goes(relCall[k], n),
         relCall' = [relCall EXCEPT ![k] = n], UNCHANGED syncs,
         posts' \in [Posts -> [user_id : Nat, trashed : BOOLEAN]],
         pivot' \in [Users -> [Roles -> Cell]],
         \A v \in Users : OnPivot(relCall[k], v) \/ pivot'[v] = pivot[v],
         \A v \in Users : relCall[k].op = "sync" /\ relCall[k].u = v /\ Syncing(v) => SyncGoesOn(v)
  PROVE  RelInv'
<1> USE DEF RelInv
<1>1. /\ relCall' \in [Callers -> RelCallType]
      /\ \A j \in Callers : RelCallFits(relCall'[j])
      /\ relCall'[k] = n /\ \A j \in Callers \ {k} : relCall'[j] = relCall[j]
  BY CallMoves
<1>2. ASSUME NEW v \in Users PROVE Episode(v)'
  <2>1. ASSUME NEW j \in Callers, OnPivot(relCall'[j], v)
        PROVE  OnPivot(relCall[j], v) /\ relCall'[j].op = relCall[j].op /\ relCall'[j].want = relCall[j].want
    BY <1>1, <2>1 DEF Goes, OnPivot, Rel!PivotOps
  <2>2. CASE ~OnPivot(relCall[k], v)
    <3>1. \A j \in Callers : OnPivot(relCall[j], v) \/ OnPivot(relCall'[j], v) => relCall'[j] = relCall[j]
      BY <1>1, <2>1, <2>2
    <3>2. Rel!RowsOf(v)' = Rel!RowsOf(v)
      BY <2>2 DEF Rel!RowsOf
    <3>3. QED
      BY <3>1, <3>2, Elsewhere
  <2>3. CASE OnPivot(relCall[k], v) /\ ~Syncing(v)
    BY <2>1, <2>3 DEF Episode, Syncing
  <2>4. CASE OnPivot(relCall[k], v) /\ Syncing(v)
    <3>1. relCall[k].op = "sync" /\ relCall[k].u = v
      BY <2>4 DEF Episode, Syncing, OnPivot
    <3>2. SyncGoesOn(v)
      BY <2>4, <3>1
    <3>3. QED
      BY <2>1, <3>2 DEF Episode, Syncing, SyncGoesOn
  <2>5. QED
    BY <2>2, <2>3, <2>4
<1>3. QED
  BY <1>1, <1>2 DEF RelTypes

LEMMA GoneKeeps ==
  ASSUME KeysFit, RelInv, NEW k \in Callers, Rel!End(k), UNCHANGED syncs,
         posts' \in [Posts -> [user_id : Nat, trashed : BOOLEAN]],
         pivot' \in [Users -> [Roles -> Cell]],
         \A v \in Users : OnPivot(relCall[k], v) \/ pivot'[v] = pivot[v],
         \A v \in Users : relCall[k].op = "sync" /\ relCall[k].u = v /\ Syncing(v) => SyncGoesOn(v)
  PROVE  RelInv'
<1>1. relCall' = [relCall EXCEPT ![k] = Rel!Idle] /\ Goes(relCall[k], Rel!Idle)
  BY DEF Rel!End, Goes, Rel!Idle
<1>2. QED
  BY <1>1, NoCallFits, StepKeeps

LEMMA DetachedCells ==
  ASSUME RelInv, NEW u \in Users, NEW R, pivot' = Rel!Detached(u, R)
  PROVE  /\ pivot' \in [Users -> [Roles -> Cell]]
         /\ \A v \in Users \ {u} : pivot'[v] = pivot[v]
         /\ Rel!RowsOf(u)' = Rel!RowsOf(u) \ R
<1>1. pivot \in [Users -> [Roles -> Cell]]
  BY DEF RelInv, RelTypes
<1>2. pivot'[u] = [r \in Roles |-> IF r \in R THEN Rel!NoPivot ELSE pivot[u][r]]
  BY <1>1 DEF Rel!Detached
<1>3. Rel!NoPivot \in Cell /\ Rel!NoPivot.row = "none"
  BY DEF Cell, Rel!NoPivot
<1>4. pivot' = [pivot EXCEPT ![u] = pivot'[u]]
  BY <1>1, <1>2 DEF Rel!Detached
<1>5. pivot'[u] \in [Roles -> Cell]
  BY <1>1, <1>2, <1>3
<1>6. \A r \in Roles : pivot'[u][r].row # "none" <=> r \notin R /\ pivot[u][r].row # "none"
  BY <1>2, <1>3
<1>7. QED
  BY <1>1, <1>4, <1>5, <1>6 DEF Rel!RowsOf

\* Writing one pivot row: no row goes, and at most that one comes.
LEMMA AttachedCells ==
  ASSUME RelInv, NEW u \in Users, NEW r \in Roles, NEW cell \in Cell,
         pivot' = [pivot EXCEPT ![u][r] = cell],
         cell.row = "none" => pivot[u][r].row = "none"
  PROVE  /\ pivot' \in [Users -> [Roles -> Cell]]
         /\ \A v \in Users \ {u} : pivot'[v] = pivot[v]
         /\ Rel!RowsOf(u)' = IF cell.row = "none" THEN Rel!RowsOf(u) ELSE Rel!RowsOf(u) \cup {r}
<1>1. pivot \in [Users -> [Roles -> Cell]]
  BY DEF RelInv, RelTypes
<1>2. pivot' \in [Users -> [Roles -> Cell]] /\ \A v \in Users \ {u} : pivot'[v] = pivot[v]
  BY <1>1
<1>3. pivot'[u][r] = cell /\ \A q \in Roles \ {r} : pivot'[u][q] = pivot[u][q]
  BY <1>1
<1>4. Rel!RowsOf(u)' = IF cell.row = "none" THEN Rel!RowsOf(u) ELSE Rel!RowsOf(u) \cup {r}
  BY <1>3 DEF Rel!RowsOf
<1>5. QED
  BY <1>2, <1>4

LEMMA AttachedRow ==
  ASSUME NEW cell \in Cell, NEW level \in 0 .. 1
  PROVE  Rel!Attached(cell, level) \in Cell /\ Rel!Attached(cell, level).row # "none"
<1>1. CASE cell.row = "none"
  BY <1>1 DEF Rel!Attached, Cell
<1>2. CASE cell.row # "none" /\ level = 0
  BY <1>2 DEF Rel!Attached
<1>3. CASE cell.row # "none" /\ level # 0
  <2>1. Rel!Attached(cell, level) = [cell EXCEPT !.level = level]
    BY <1>3 DEF Rel!Attached
  <2>2. QED
    BY <1>3, <2>1 DEF Cell
<1>4. QED
  BY <1>1, <1>2, <1>3

\* A call crosses something off its list.
LEMMA CrossedOff ==
  ASSUME NEW c \in RelCallType, RelCallFits(c), c.op # "none", c.op # "sync" \/ c.pc # "asked",
         NEW T \in SUBSET c.todo
  PROVE  /\ [c EXCEPT !.todo = T] \in RelCallType
         /\ RelCallFits([c EXCEPT !.todo = T])
         /\ Goes(c, [c EXCEPT !.todo = T])
<1> DEFINE n == [c EXCEPT !.todo = T]
<1>1. n \in RelCallType /\ n.todo = T
      /\ n.pc = c.pc /\ n.op = c.op /\ n.u = c.u /\ n.want = c.want /\ n.seen = c.seen
  BY DEF RelCallType
<1> HIDE DEF n
<1>2. RelCallFits(n) /\ Goes(c, n)
  BY <1>1 DEF RelCallFits, Goes
<1>3. QED
  BY <1>1, <1>2 DEF n

LEMMA OneLevel ==
  ASSUME RelInv, NEW k \in Callers, NEW T
  PROVE  [relCall EXCEPT ![k].todo = T] = [relCall EXCEPT ![k] = [relCall[k] EXCEPT !.todo = T]]
BY DEF RelInv, RelTypes

LEMMA SyncReadKeeps ==
  ASSUME KeysFit, RelInv, NEW k \in Callers, Rel!SyncRead(k)
  PROVE  RelInv'
<1> USE DEF RelInv
<1> DEFINE c == relCall[k]
           n == [c EXCEPT !.pc = "attaching", !.seen = Rel!RowsOf(c.u)]
<1>1. c.pc = "asked" /\ c.op = "sync" /\ relCall' = [relCall EXCEPT ![k] = n]
      /\ UNCHANGED <<mongo, side, posts, roles, pivot, relCalls, syncs>>
  BY DEF Rel!SyncRead, Rel!Go, Rel!Data
<1>2. c \in RelCallType /\ RelCallFits(c) /\ c.u \in Users /\ c.todo = c.want
  BY <1>1 DEF RelTypes, RelCallFits
<1>user. PICK u \in Users : u = c.u
  BY <1>2
<1>3. Rel!RowsOf(u) \subseteq Roles
  BY DEF Rel!RowsOf
<1>4. /\ n \in RelCallType /\ n.pc = "attaching" /\ n.seen = Rel!RowsOf(u)
      /\ n.op = c.op /\ n.u = u /\ n.want = c.want /\ n.todo = c.todo
  BY <1>user, <1>2, <1>3 DEF RelCallType, Related
<1> HIDE DEF n
<1>5. RelCallFits(n) /\ Goes(c, n)
  BY <1>1, <1>user, <1>2, <1>3, <1>4 DEF RelCallFits, Goes
<1>6. relCall'[k] = n /\ \A j \in Callers \ {k} : relCall'[j] = relCall[j]
  BY <1>1, <1>user, <1>2 DEF RelTypes
<1>7. ASSUME Syncing(u) PROVE SyncGoesOn(u)
  <2>1. Rel!RowsOf(u)' = Rel!RowsOf(u)
    BY <1>1 DEF Rel!RowsOf
  <2>2. ASSUME NEW r \in Rel!RowsOf(u) \ syncs[u].all
        PROVE  Removes(relCall'[k], u, r)
    BY <1>1, <1>user, <1>4, <1>6, <2>2 DEF Removes
  <2>3. c.want \subseteq Roles /\ syncs[u].common \subseteq c.want
    BY <1>1, <1>user, <1>2, <1>7 DEF Episode, Syncing, OnPivot, Rel!PivotOps, RelCallFits
  <2>4. ASSUME NEW r \in syncs[u].common \ Rel!RowsOf(u)
        PROVE  Adds(relCall'[k], u, r)
    BY <1>1, <1>user, <1>2, <1>4, <1>6, <2>3, <2>4 DEF Adds
  <2>5. ASSUME NEW j \in Callers, OnPivot(relCall'[j], u), relCall'[j].pc = "attaching"
        PROVE  relCall'[j].seen \cap syncs[u].common \subseteq Rel!RowsOf(u)
    BY <1>user, <1>2, <1>4, <1>6, <1>7, <2>5 DEF Episode
  <2>6. QED
    BY <2>1, <2>2, <2>4, <2>5 DEF SyncGoesOn
<1>8. QED
  BY <1>1, <1>user, <1>2, <1>4, <1>5, <1>7, StepKeeps DEF RelTypes

LEMMA SyncAttachKeeps ==
  ASSUME KeysFit, RelInv, NEW k \in Callers, Rel!SyncAttach(k)
  PROVE  RelInv'
<1> USE DEF RelInv
<1> DEFINE c == relCall[k]
<1>1. c.pc = "attaching" /\ c.op = "sync"
      /\ UNCHANGED <<mongo, side, posts, roles, relCalls, syncs>>
  BY DEF Rel!SyncAttach, Rel!Go, Rel!Data
<1>2. /\ c \in RelCallType /\ RelCallFits(c) /\ c.u \in Users
      /\ c.todo \subseteq c.want /\ c.want \subseteq Roles /\ c.seen \subseteq Roles
  BY <1>1 DEF RelTypes, RelCallFits, Rel!PivotOps
<1>user. PICK u \in Users : u = c.u
  BY <1>2
<1>3. Syncing(u) => syncs[u].common \subseteq c.want /\ c.want \subseteq syncs[u].all
  BY <1>1, <1>user, <1>2 DEF Episode, Syncing, OnPivot, Rel!PivotOps
<1>4. CASE c.todo = {} /\ UNCHANGED pivot
           /\ relCall' = [relCall EXCEPT ![k] = [c EXCEPT !.pc = "detaching", !.todo = c.seen \ c.want]]
  <2> DEFINE n == [c EXCEPT !.pc = "detaching", !.todo = c.seen \ c.want]
  <2>1. /\ n \in RelCallType /\ n.pc = "detaching" /\ n.todo = c.seen \ c.want
        /\ n.op = c.op /\ n.u = u /\ n.want = c.want /\ n.seen = c.seen
    BY <1>user, <1>2 DEF RelCallType
  <2> HIDE DEF n
  <2>2. RelCallFits(n) /\ Goes(c, n)
    BY <1>1, <1>user, <1>2, <2>1 DEF RelCallFits, Goes
  <2>3. relCall'[k] = n /\ \A j \in Callers \ {k} : relCall'[j] = relCall[j]
    BY <1>user, <1>2, <1>4 DEF RelTypes, n
  <2>4. ASSUME Syncing(u) PROVE SyncGoesOn(u)
    <3>1. Rel!RowsOf(u)' = Rel!RowsOf(u)
      BY <1>4 DEF Rel!RowsOf
    <3>2. ASSUME NEW r \in Rel!RowsOf(u) \ syncs[u].all
          PROVE  \E j \in Callers : Removes(relCall'[j], u, r)
      <4>1. PICK j \in Callers : Removes(relCall[j], u, r)
        BY <1>user, <1>2, <2>4, <3>2 DEF Episode
      <4>2. CASE j = k
        BY <1>1, <1>user, <1>3, <2>1, <2>3, <2>4, <3>2, <4>1, <4>2 DEF Removes
      <4>3. CASE j # k
        BY <2>3, <4>1, <4>3
      <4>4. QED
        BY <4>2, <4>3
    <3>3. ASSUME NEW r \in syncs[u].common \ Rel!RowsOf(u)
          PROVE  \E j \in Callers : Adds(relCall'[j], u, r)
      <4>1. PICK j \in Callers : Adds(relCall[j], u, r)
        BY <1>user, <1>2, <2>4, <3>3 DEF Episode
      <4>2. j # k
        BY <1>1, <1>user, <1>4, <4>1 DEF Adds
      <4>3. QED
        BY <2>3, <4>1, <4>2
    <3>4. ASSUME NEW j \in Callers, OnPivot(relCall'[j], u), relCall'[j].pc = "attaching"
          PROVE  relCall'[j].seen \cap syncs[u].common \subseteq Rel!RowsOf(u)
      BY <1>user, <1>2, <2>1, <2>3, <2>4, <3>4 DEF Episode
    <3>5. QED
      BY <3>1, <3>2, <3>3, <3>4 DEF SyncGoesOn
  <2>5. relCall' = [relCall EXCEPT ![k] = n]
    BY <1>4 DEF n
  <2>6. QED
    <3>1. \A v \in Users : c.op = "sync" /\ c.u = v /\ Syncing(v) => SyncGoesOn(v)
      BY <1>user, <2>4
    <3>2. pivot' = pivot /\ posts' = posts /\ syncs' = syncs
      BY <1>1, <1>4
    <3>3. QED
      BY <2>1, <2>2, <2>5, <3>1, <3>2, StepKeeps DEF RelTypes
<1>5. ASSUME NEW r \in c.todo,
             relCall' = [relCall EXCEPT ![k].todo = c.todo \ {r}],
             pivot' = [pivot EXCEPT ![u][r] =
               IF ~(mongo /\ r \in c.seen) THEN Rel!Attached(pivot[u][r], c.level)
               ELSE IF c.level # 0 /\ pivot[u][r].row # "none" THEN [pivot[u][r] EXCEPT !.level = c.level]
               ELSE pivot[u][r]]
      PROVE  RelInv'
  <2> DEFINE n == [c EXCEPT !.todo = c.todo \ {r}]
             cell == pivot[u][r]
             new == IF ~(mongo /\ r \in c.seen) THEN Rel!Attached(cell, c.level)
                    ELSE IF c.level # 0 /\ cell.row # "none" THEN [cell EXCEPT !.level = c.level]
                    ELSE cell
  <2>1. relCall' = [relCall EXCEPT ![k] = n]
    BY <1>5, OneLevel
  <2>2. n \in RelCallType /\ RelCallFits(n) /\ Goes(c, n)
    BY <1>1, <1>user, <1>2, CrossedOff
  <2>3. relCall'[k] = n /\ \A j \in Callers \ {k} : relCall'[j] = relCall[j]
    BY <1>user, <1>2, <2>1 DEF RelTypes
  <2>4. /\ n.pc = c.pc /\ n.op = c.op /\ n.u = u /\ n.want = c.want /\ n.seen = c.seen
        /\ n.todo = c.todo \ {r}
    BY <1>user, <1>2 DEF RelCallType
  <2>5. cell \in Cell /\ c.level \in 0 .. 1
    BY <1>2 DEF RelTypes, RelCallType
  <2>6. /\ new \in Cell /\ (new.row = "none" => cell.row = "none")
        /\ ~(mongo /\ r \in c.seen) => new.row # "none"
    <3>1. CASE ~(mongo /\ r \in c.seen)
      BY <2>5, <3>1, AttachedRow
    <3>2. CASE mongo /\ r \in c.seen
      BY <2>5, <3>2 DEF Cell
    <3>3. QED
      BY <3>1, <3>2
  <2>7. pivot' = [pivot EXCEPT ![u][r] = new]
    BY <1>5
  <2> HIDE DEF n, new
  <2>cell. PICK w \in Cell : w = new
    BY <2>6
  <2>8. /\ pivot' \in [Users -> [Roles -> Cell]]
        /\ \A v \in Users \ {u} : pivot'[v] = pivot[v]
        /\ Rel!RowsOf(u)' = IF new.row = "none" THEN Rel!RowsOf(u) ELSE Rel!RowsOf(u) \cup {r}
    <3>1. r \in Roles
      BY <1>2, <1>5
    <3>2. pivot' = [pivot EXCEPT ![u][r] = w] /\ (w.row = "none" => pivot[u][r].row = "none")
      BY <2>6, <2>7, <2>cell
    <3>3. QED
      BY <2>cell, <3>1, <3>2, AttachedCells
  <2>9. ASSUME Syncing(u) PROVE SyncGoesOn(u)
    <3>1. Rel!RowsOf(u) \subseteq Rel!RowsOf(u)' /\ Rel!RowsOf(u)' \subseteq Rel!RowsOf(u) \cup {r}
      BY <2>8
    <3>2. ASSUME NEW q \in Rel!RowsOf(u)' \ syncs[u].all
          PROVE  \E j \in Callers : Removes(relCall'[j], u, q)
      <4>1. q \in Rel!RowsOf(u) \ syncs[u].all
        BY <1>user, <1>2, <1>3, <2>9, <3>1, <3>2
      <4>2. PICK j \in Callers : Removes(relCall[j], u, q)
        BY <1>user, <1>2, <2>9, <4>1 DEF Episode
      <4>3. Removes(relCall'[j], u, q)
        BY <1>1, <1>user, <2>3, <2>4, <4>2 DEF Removes
      <4>4. QED
        BY <4>3
    <3>3. ASSUME NEW q \in syncs[u].common \ Rel!RowsOf(u)'
          PROVE  \E j \in Callers : Adds(relCall'[j], u, q)
      <4>1. PICK j \in Callers : Adds(relCall[j], u, q)
        BY <1>user, <1>2, <2>9, <3>1, <3>3 DEF Episode
      <4>2. CASE j = k
        <5>1. q # r
          BY <1>1, <1>user, <2>6, <2>8, <3>3, <4>1, <4>2 DEF Adds
        <5>2. QED
          BY <1>1, <1>user, <2>3, <2>4, <4>1, <4>2, <5>1 DEF Adds
      <4>3. CASE j # k
        BY <2>3, <4>1, <4>3
      <4>4. QED
        BY <4>2, <4>3
    <3>4. ASSUME NEW j \in Callers, OnPivot(relCall'[j], u), relCall'[j].pc = "attaching"
          PROVE  relCall'[j].seen \cap syncs[u].common \subseteq Rel!RowsOf(u)
      <4>1. OnPivot(relCall[j], u) /\ relCall[j].pc = "attaching" /\ relCall'[j].seen = relCall[j].seen
        BY <1>1, <1>user, <2>3, <2>4, <3>4 DEF OnPivot
      <4>2. QED
        BY <1>user, <1>2, <2>9, <4>1 DEF Episode
    <3>5. QED
      BY <3>1, <3>2, <3>3, <3>4 DEF SyncGoesOn
  <2>10. QED
    BY <1>1, <1>user, <1>2, <2>1, <2>2, <2>8, <2>9, StepKeeps DEF RelTypes, OnPivot, Rel!PivotOps
<1>6. QED
  BY <1>user, <1>4, <1>5 DEF Rel!SyncAttach

LEMMA SyncDetachKeeps ==
  ASSUME KeysFit, RelInv, NEW k \in Callers, Rel!SyncDetach(k)
  PROVE  RelInv'
<1> USE DEF RelInv
<1> DEFINE c == relCall[k]
<1>1. c.pc = "detaching" /\ c.op = "sync"
      /\ UNCHANGED <<mongo, side, posts, roles, relCalls, syncs>>
  BY DEF Rel!SyncDetach, Rel!Go, Rel!Data
<1>2. /\ c \in RelCallType /\ RelCallFits(c) /\ c.u \in Users
      /\ c.todo \cap c.want = {} /\ c.want \subseteq Roles
  BY <1>1 DEF RelTypes, RelCallFits, Rel!PivotOps
<1>user. PICK u \in Users : u = c.u
  BY <1>2
<1>3. Syncing(u) => syncs[u].common \subseteq c.want
  BY <1>1, <1>user, <1>2 DEF Episode, Syncing, OnPivot, Rel!PivotOps
<1>4. CASE c.todo = {} /\ Rel!End(k) /\ UNCHANGED pivot
  <2>1. relCall'[k] = Rel!Idle /\ \A j \in Callers \ {k} : relCall'[j] = relCall[j]
    BY <1>4 DEF RelTypes, Rel!End
  <2>2. ASSUME Syncing(u) PROVE SyncGoesOn(u)
    <3>1. Rel!RowsOf(u)' = Rel!RowsOf(u)
      BY <1>4 DEF Rel!RowsOf
    <3>2. ASSUME NEW r PROVE ~Removes(relCall[k], u, r) /\ ~Adds(relCall[k], u, r)
      BY <1>1, <1>user, <1>4 DEF Removes, Adds
    <3>3. ~OnPivot(relCall'[k], u)
      BY <2>1 DEF OnPivot, Rel!Idle, Rel!PivotOps
    <3>4. \A r \in Rel!RowsOf(u) \ syncs[u].all : \E j \in Callers : Removes(relCall'[j], u, r)
      BY <1>user, <1>2, <2>1, <2>2, <3>2 DEF Episode
    <3>5. \A r \in syncs[u].common \ Rel!RowsOf(u) : \E j \in Callers : Adds(relCall'[j], u, r)
      BY <1>user, <1>2, <2>1, <2>2, <3>2 DEF Episode
    <3>6. \A j \in Callers : OnPivot(relCall'[j], u) /\ relCall'[j].pc = "attaching" =>
            relCall'[j].seen \cap syncs[u].common \subseteq Rel!RowsOf(u)
      BY <1>user, <1>2, <2>1, <2>2, <3>3 DEF Episode
    <3>7. QED
      BY <3>1, <3>4, <3>5, <3>6 DEF SyncGoesOn
  <2>3. QED
    BY <1>1, <1>user, <1>4, <2>2, GoneKeeps DEF RelTypes
<1>5. ASSUME NEW r \in c.todo, pivot' = Rel!Detached(u, {r}),
             relCall' = [relCall EXCEPT ![k].todo = c.todo \ {r}]
      PROVE  RelInv'
  <2> DEFINE n == [c EXCEPT !.todo = c.todo \ {r}]
  <2>1. relCall' = [relCall EXCEPT ![k] = n]
    BY <1>5, OneLevel
  <2>2. n \in RelCallType /\ RelCallFits(n) /\ Goes(c, n)
    BY <1>1, <1>user, <1>2, CrossedOff
  <2>3. relCall'[k] = n /\ \A j \in Callers \ {k} : relCall'[j] = relCall[j]
    BY <1>user, <1>2, <2>1 DEF RelTypes
  <2>4. /\ n.pc = c.pc /\ n.op = c.op /\ n.u = u /\ n.want = c.want /\ n.seen = c.seen
        /\ n.todo = c.todo \ {r}
    BY <1>user, <1>2 DEF RelCallType
  <2> HIDE DEF n
  <2>5. /\ pivot' \in [Users -> [Roles -> Cell]]
        /\ \A v \in Users \ {u} : pivot'[v] = pivot[v]
        /\ Rel!RowsOf(u)' = Rel!RowsOf(u) \ {r}
    BY <1>user, <1>2, <1>5, DetachedCells
  <2>6. ASSUME Syncing(u) PROVE SyncGoesOn(u)
    <3>1. r \notin syncs[u].common
      BY <1>user, <1>2, <1>3, <1>5, <2>6
    <3>2. ASSUME NEW q \in Rel!RowsOf(u)' \ syncs[u].all
          PROVE  \E j \in Callers : Removes(relCall'[j], u, q)
      <4>1. q \in Rel!RowsOf(u) \ syncs[u].all /\ q # r
        BY <2>5, <3>2
      <4>2. PICK j \in Callers : Removes(relCall[j], u, q)
        BY <1>user, <1>2, <2>6, <4>1 DEF Episode
      <4>3. Removes(relCall'[j], u, q)
        BY <1>1, <1>user, <2>3, <2>4, <4>1, <4>2 DEF Removes
      <4>4. QED
        BY <4>3
    <3>3. ASSUME NEW q \in syncs[u].common \ Rel!RowsOf(u)'
          PROVE  \E j \in Callers : Adds(relCall'[j], u, q)
      <4>1. q \in syncs[u].common \ Rel!RowsOf(u)
        BY <2>5, <3>1, <3>3
      <4>2. PICK j \in Callers : Adds(relCall[j], u, q)
        BY <1>user, <1>2, <2>6, <4>1 DEF Episode
      <4>3. Adds(relCall'[j], u, q)
        BY <1>1, <1>user, <2>3, <2>4, <4>2 DEF Adds
      <4>4. QED
        BY <4>3
    <3>4. ASSUME NEW j \in Callers, OnPivot(relCall'[j], u), relCall'[j].pc = "attaching"
          PROVE  relCall'[j].seen \cap syncs[u].common \subseteq Rel!RowsOf(u)'
      <4>1. OnPivot(relCall[j], u) /\ relCall[j].pc = "attaching" /\ relCall'[j].seen = relCall[j].seen
        BY <1>1, <1>user, <2>3, <2>4, <3>4 DEF OnPivot
      <4>2. relCall[j].seen \cap syncs[u].common \subseteq Rel!RowsOf(u)
        BY <1>user, <1>2, <2>6, <4>1 DEF Episode
      <4>3. QED
        BY <2>5, <3>1, <4>1, <4>2
    <3>5. QED
      BY <3>2, <3>3, <3>4 DEF SyncGoesOn
  <2>7. QED
    BY <1>1, <1>user, <1>2, <2>1, <2>2, <2>5, <2>6, StepKeeps DEF RelTypes, OnPivot, Rel!PivotOps
<1>6. QED
  BY <1>user, <1>4, <1>5 DEF Rel!SyncDetach

\* Once a call other than a sync runs, its user's episode says nothing more.
LEMMA OthersKeep ==
  ASSUME KeysFit, RelInv, NEW k \in Callers, NEW u \in Users, u = relCall[k].u,
         NEW op \in Rel!PivotOps \ {"sync"}, relCall[k].op = op, UNCHANGED <<posts, syncs>>,
         NEW n \in RelCallType, RelCallFits(n), Goes(relCall[k], n),
         relCall' = [relCall EXCEPT ![k] = n],
         pivot' \in [Users -> [Roles -> Cell]], \A v \in Users \ {u} : pivot'[v] = pivot[v]
  PROVE  RelInv'
<1>1. \A v \in Users : OnPivot(relCall[k], v) \/ pivot'[v] = pivot[v]
  BY DEF OnPivot
<1>2. posts' \in [Posts -> [user_id : Nat, trashed : BOOLEAN]] /\ syncs' = syncs
  BY DEF RelInv, RelTypes
<1>3. relCall[k].op # "sync"
  OBVIOUS
<1>4. QED
  BY <1>1, <1>2, <1>3, StepKeeps

LEMMA AttachKeeps ==
  ASSUME KeysFit, RelInv, NEW k \in Callers, Rel!Attach(k)
  PROVE  RelInv'
<1> USE DEF RelInv
<1> DEFINE c == relCall[k]
<1>1. c.pc = "asked" /\ c.op = "attach" /\ UNCHANGED <<posts, syncs>>
  BY DEF Rel!Attach, Rel!Go, Rel!Data
<1>2. c \in RelCallType /\ RelCallFits(c) /\ c.u \in Users /\ c.todo \subseteq Roles
  BY <1>1 DEF RelTypes, RelCallFits, Rel!PivotOps
<1>3. PICK u \in Users : u = c.u
  BY <1>2
<1>4. PICK r \in c.todo :
        /\ pivot' = [pivot EXCEPT ![c.u][r] = Rel!Attached(@, c.level)]
        /\ relCall' = IF c.todo = {r} THEN [relCall EXCEPT ![k] = Rel!Idle]
                      ELSE [relCall EXCEPT ![k].todo = @ \ {r}]
  BY DEF Rel!Attach
<1>5. pivot[u][r] \in Cell /\ c.level \in 0 .. 1 /\ r \in Roles
  BY <1>2, <1>4 DEF RelTypes, RelCallType
<1>6. PICK cell \in Cell : cell = Rel!Attached(pivot[u][r], c.level) /\ cell.row # "none"
  BY <1>5, AttachedRow
<1>7. pivot' = [pivot EXCEPT ![u][r] = cell]
  BY <1>3, <1>4, <1>6
<1>8. pivot' \in [Users -> [Roles -> Cell]] /\ \A v \in Users \ {u} : pivot'[v] = pivot[v]
  BY <1>5, <1>6, <1>7, AttachedCells
<1>9. "attach" \in Rel!PivotOps \ {"sync"}
  BY DEF Rel!PivotOps
<1>10. CASE c.todo = {r}
  <2>1. relCall' = [relCall EXCEPT ![k] = Rel!Idle] /\ Goes(c, Rel!Idle)
    BY <1>4, <1>10 DEF Goes, Rel!Idle
  <2>2. QED
    BY <1>1, <1>3, <1>8, <1>9, <2>1, NoCallFits, OthersKeep
<1>11. CASE c.todo # {r}
  <2> DEFINE n == [c EXCEPT !.todo = c.todo \ {r}]
  <2>1. relCall' = [relCall EXCEPT ![k] = n]
    BY <1>4, <1>11, OneLevel
  <2>2. n \in RelCallType /\ RelCallFits(n) /\ Goes(c, n)
    BY <1>1, <1>2, CrossedOff
  <2> HIDE DEF n
  <2>3. QED
    BY <1>1, <1>3, <1>8, <1>9, <2>1, <2>2, OthersKeep
<1>12. QED
  BY <1>10, <1>11

LEMMA DetachKeeps ==
  ASSUME KeysFit, RelInv, NEW k \in Callers, Rel!Detach(k) \/ Rel!DetachOne(k) \/ Rel!ToggleDetach(k)
  PROVE  RelInv'
<1> USE DEF RelInv
<1> DEFINE c == relCall[k]
<1>1. PICK op \in Rel!PivotOps \ {"sync"} : c.op = op
  BY DEF Rel!Detach, Rel!DetachOne, Rel!ToggleDetach, Rel!Go, Rel!PivotOps
<1>2. PICK u \in Users : u = c.u
  BY <1>1 DEF RelCallFits, Rel!PivotOps
<1>3. PICK R : pivot' = Rel!Detached(u, R)
  BY <1>2 DEF Rel!Detach, Rel!DetachOne, Rel!ToggleDetach
<1>4. Rel!End(k) /\ UNCHANGED <<posts, syncs>>
  BY DEF Rel!Detach, Rel!DetachOne, Rel!ToggleDetach, Rel!Data
<1>5. relCall' = [relCall EXCEPT ![k] = Rel!Idle] /\ Goes(c, Rel!Idle)
  BY <1>4 DEF Rel!End, Goes, Rel!Idle
<1>6. pivot' \in [Users -> [Roles -> Cell]] /\ \A v \in Users \ {u} : pivot'[v] = pivot[v]
  BY <1>3, DetachedCells
<1>7. QED
  BY <1>1, <1>2, <1>4, <1>5, <1>6, NoCallFits, OthersKeep

LEMMA UpdateKeeps ==
  ASSUME KeysFit, RelInv, NEW k \in Callers, Rel!UpdateExistingPivot(k)
  PROVE  RelInv'
<1> USE DEF RelInv
<1> DEFINE c == relCall[k]
<1>1. c.op = "updatePivot" /\ Rel!End(k) /\ UNCHANGED <<posts, syncs>>
  BY DEF Rel!UpdateExistingPivot, Rel!Go, Rel!Data
<1>2. PICK u \in Users : u = c.u
  BY <1>1 DEF RelCallFits
<1>3. relCall' = [relCall EXCEPT ![k] = Rel!Idle] /\ Goes(c, Rel!Idle)
  BY <1>1 DEF Rel!End, Goes, Rel!Idle
<1> DEFINE new == [r \in Roles |-> IF ~mongo /\ r \in c.want /\ pivot[u][r].row # "none"
                                   THEN [pivot[u][r] EXCEPT !.level = 1] ELSE pivot[u][r]]
<1>4. pivot' = [pivot EXCEPT ![u] = new]
  BY <1>2 DEF Rel!UpdateExistingPivot, RelTypes
<1>5. new \in [Roles -> Cell]
  BY DEF RelTypes, Cell
<1> HIDE DEF new
<1>6. pivot' \in [Users -> [Roles -> Cell]] /\ \A v \in Users \ {u} : pivot'[v] = pivot[v]
  BY <1>4, <1>5 DEF RelTypes
<1>7. "updatePivot" \in Rel!PivotOps \ {"sync"}
  BY DEF Rel!PivotOps
<1>8. QED
  BY <1>1, <1>2, <1>3, <1>6, <1>7, NoCallFits, OthersKeep

LEMMA ToggleKeeps ==
  ASSUME KeysFit, RelInv, NEW k \in Callers, Rel!ToggleRead(k) \/ Rel!ToggleAttach(k)
  PROVE  RelInv'
<1> USE DEF RelInv
<1> DEFINE c == relCall[k]
<1>1. c.op = "toggle" /\ UNCHANGED <<posts, syncs>>
  BY DEF Rel!ToggleRead, Rel!ToggleAttach, Rel!Go, Rel!Data
<1>2. /\ c \in RelCallType /\ RelCallFits(c) /\ c.u \in Users
      /\ c.todo \subseteq Roles /\ c.want \subseteq Roles
  BY <1>1 DEF RelTypes, RelCallFits, Rel!PivotOps
<1>3. PICK u \in Users : u = c.u
  BY <1>2
<1>4. "toggle" \in Rel!PivotOps \ {"sync"}
  BY DEF Rel!PivotOps
<1>5. CASE Rel!ToggleRead(k)
  <2> DEFINE here == Rel!RowsOf(c.u) \cap c.want
             n == [c EXCEPT !.pc = "attaching", !.seen = here, !.todo = c.todo \ here]
  <2>1. relCall' = [relCall EXCEPT ![k] = n] /\ UNCHANGED pivot
    BY <1>5 DEF Rel!ToggleRead
  <2>2. here \subseteq Roles
    BY <1>2
  <2> HIDE DEF here
  <2>3. n \in RelCallType /\ n.op = c.op /\ n.u = c.u /\ n.want = c.want /\ n.pc = "attaching"
        /\ n.seen = here /\ n.todo = c.todo \ here
    BY <1>2, <2>2 DEF RelCallType, Related
  <2> HIDE DEF n
  <2>4. RelCallFits(n) /\ Goes(c, n)
    BY <1>1, <1>2, <2>2, <2>3 DEF RelCallFits, Goes
  <2>5. pivot' \in [Users -> [Roles -> Cell]] /\ \A v \in Users \ {u} : pivot'[v] = pivot[v]
    BY <2>1 DEF RelTypes
  <2>6. QED
    BY <1>1, <1>3, <1>4, <2>1, <2>3, <2>4, <2>5, OthersKeep
<1>6. CASE Rel!ToggleAttach(k) /\ c.todo = {} /\ Rel!To(k, "detaching") /\ UNCHANGED pivot
  <2> DEFINE n == [c EXCEPT !.pc = "detaching"]
  <2>1. relCall' = [relCall EXCEPT ![k] = n] /\ UNCHANGED pivot
    BY <1>6 DEF Rel!To, RelTypes
  <2>2. n \in RelCallType /\ n.op = c.op /\ n.u = c.u /\ n.want = c.want /\ n.pc = "detaching"
        /\ n.seen = c.seen /\ n.todo = c.todo
    BY <1>2 DEF RelCallType
  <2> HIDE DEF n
  <2>3. RelCallFits(n) /\ Goes(c, n)
    BY <1>1, <1>2, <2>2 DEF RelCallFits, Goes
  <2>4. pivot' \in [Users -> [Roles -> Cell]] /\ \A v \in Users \ {u} : pivot'[v] = pivot[v]
    BY <2>1 DEF RelTypes
  <2>5. QED
    BY <1>1, <1>3, <1>4, <2>1, <2>2, <2>3, <2>4, OthersKeep
<1>7. ASSUME NEW r \in c.todo, pivot' = [pivot EXCEPT ![c.u][r] = Rel!Attached(@, 0)],
             relCall' = [relCall EXCEPT ![k].todo = @ \ {r}]
      PROVE  RelInv'
  <2> DEFINE n == [c EXCEPT !.todo = c.todo \ {r}]
  <2>1. relCall' = [relCall EXCEPT ![k] = n]
    BY <1>7, OneLevel
  <2>2. n \in RelCallType /\ RelCallFits(n) /\ Goes(c, n)
    BY <1>1, <1>2, CrossedOff
  <2>3. pivot[u][r] \in Cell /\ r \in Roles
    BY <1>2, <1>7 DEF RelTypes
  <2>4. PICK cell \in Cell : cell = Rel!Attached(pivot[u][r], 0) /\ cell.row # "none"
    BY <2>3, AttachedRow
  <2>5. pivot' = [pivot EXCEPT ![u][r] = cell]
    BY <1>3, <1>7, <2>4
  <2>6. pivot' \in [Users -> [Roles -> Cell]] /\ \A v \in Users \ {u} : pivot'[v] = pivot[v]
    BY <2>3, <2>4, <2>5, AttachedCells
  <2> HIDE DEF n
  <2>7. QED
    BY <1>1, <1>3, <1>4, <2>1, <2>2, <2>6, OthersKeep
<1>8. QED
  BY <1>5, <1>6, <1>7 DEF Rel!ToggleAttach

\* Calls on posts touch no pivot row.
LEMMA PostsKeep ==
  ASSUME KeysFit, RelInv, NEW k \in Callers, NEW op \in PostOps, relCall[k].op = op,
         UNCHANGED <<pivot, syncs>>,
         posts' \in [Posts -> [user_id : Nat, trashed : BOOLEAN]],
         NEW n \in RelCallType, RelCallFits(n), Goes(relCall[k], n),
         relCall' = [relCall EXCEPT ![k] = n]
  PROVE  RelInv'
<1>1. op # "sync"
  BY DEF PostOps
<1>2. pivot' \in [Users -> [Roles -> Cell]]
  BY DEF RelInv, RelTypes
<1>3. QED
  BY <1>1, <1>2, StepKeeps

LEMMA OwnerTypes ==
  ASSUME KeysFit, RelInv, NEW P, NEW u \in Users \cup {0}, Rel!SetOwner(P, u)
  PROVE  /\ posts' \in [Posts -> [user_id : Nat, trashed : BOOLEAN]]
         /\ \A p \in Posts : posts'[p].user_id = IF p \in P THEN u ELSE posts[p].user_id
<1>1. posts \in [Posts -> [user_id : Nat, trashed : BOOLEAN]] /\ u \in Nat
  BY DEF RelInv, RelTypes, KeysFit
<1>2. QED
  BY <1>1 DEF Rel!SetOwner

\* A step of a call on posts: the call goes on or ends, and posts that change
\* hands leave its user, or go to it and are among those it wants.
LEMMA PostStep ==
  ASSUME KeysFit, RelInv, NEW k \in Callers,
         \/ Rel!PostAttach(k) \/ Rel!PostDetach(k) \/ Rel!Associate(k)
         \/ Rel!PostSyncRead(k) \/ Rel!PostSyncFind(k) \/ Rel!PostSyncDetach(k) \/ Rel!PostSyncAttach(k)
  PROVE  /\ relCall[k].op \in PostOps /\ UNCHANGED <<pivot, syncs>>
         /\ \E n \in RelCallType : /\ RelCallFits(n) /\ Goes(relCall[k], n) /\ n # relCall[k]
                                   /\ relCall' = [relCall EXCEPT ![k] = n]
         /\ posts' \in [Posts -> [user_id : Nat, trashed : BOOLEAN]]
         /\ \A p \in Posts : posts'[p].user_id # posts[p].user_id =>
              \/ relCall[k].u = posts[p].user_id
              \/ p \in relCall[k].want /\ posts'[p].user_id = relCall[k].u
<1> USE DEF RelInv
<1> DEFINE c == relCall[k]
<1>1. c.op \in PostOps /\ c.pc # "idle" /\ UNCHANGED <<pivot, syncs>>
  BY DEF Rel!PostAttach, Rel!PostDetach, Rel!Associate, Rel!PostSyncRead, Rel!PostSyncFind,
         Rel!PostSyncDetach, Rel!PostSyncAttach, Rel!Go, Rel!Rest, PostOps
<1>2. c \in RelCallType /\ RelCallFits(c) /\ c.u \in Users
  BY <1>1 DEF RelTypes, RelCallFits, PostOps
<1>3. PICK u \in Users : u = c.u
  BY <1>2
<1>4. c.op \notin Rel!PivotOps /\ c.op # "sync"
  BY <1>1 DEF PostOps, Rel!PivotOps
<1>5. ASSUME Rel!End(k)
      PROVE  \E n \in RelCallType : /\ RelCallFits(n) /\ Goes(c, n) /\ n # c
                                    /\ relCall' = [relCall EXCEPT ![k] = n]
  <2>1. Rel!Idle.pc = "idle" /\ Goes(c, Rel!Idle)
    BY DEF Rel!Idle, Goes
  <2>2. relCall' = [relCall EXCEPT ![k] = Rel!Idle]
    BY <1>5 DEF Rel!End
  <2>3. QED
    BY <1>1, <2>1, <2>2, NoCallFits
<1>6. ASSUME NEW r \in c.todo, relCall' = [relCall EXCEPT ![k].todo = @ \ {r}]
      PROVE  \E n \in RelCallType : /\ RelCallFits(n) /\ Goes(c, n) /\ n # c
                                    /\ relCall' = [relCall EXCEPT ![k] = n]
  <2> DEFINE n == [c EXCEPT !.todo = c.todo \ {r}]
  <2>1. relCall' = [relCall EXCEPT ![k] = n]
    BY <1>6, OneLevel
  <2>2. n \in RelCallType /\ RelCallFits(n) /\ Goes(c, n)
    BY <1>1, <1>2, <1>4, CrossedOff DEF PostOps
  <2>3. n.todo # c.todo
    BY <1>2, <1>6 DEF RelCallType
  <2> HIDE DEF n
  <2>4. QED
    BY <2>1, <2>2, <2>3
<1>7. posts \in [Posts -> [user_id : Nat, trashed : BOOLEAN]]
  BY DEF RelTypes
<1>8. CASE Rel!PostAttach(k) \/ Rel!Associate(k)
  <2>1. Rel!SetOwner(c.want, u) /\ Rel!End(k)
    BY <1>3, <1>8 DEF Rel!PostAttach, Rel!Associate
  <2>2. PICK P : P = c.want
    OBVIOUS
  <2>3. /\ posts' \in [Posts -> [user_id : Nat, trashed : BOOLEAN]]
        /\ \A p \in Posts : posts'[p].user_id = IF p \in P THEN u ELSE posts[p].user_id
    BY <2>1, <2>2, OwnerTypes
  <2>4. QED
    BY <1>1, <1>3, <1>5, <2>1, <2>2, <2>3
<1>9. ASSUME NEW P, P \subseteq Rel!Owned(u), Rel!SetOwner(P, 0)
      PROVE  /\ posts' \in [Posts -> [user_id : Nat, trashed : BOOLEAN]]
             /\ \A p \in Posts : posts'[p].user_id # posts[p].user_id => c.u = posts[p].user_id
  BY <1>3, <1>9, OwnerTypes DEF Rel!Owned
<1>10. CASE Rel!PostDetach(k)
  <2>1. \E P : P \subseteq Rel!Owned(u) /\ Rel!SetOwner(P, 0)
    <3>1. Rel!Live(Rel!Owned(u)) \subseteq Rel!Owned(u)
      BY DEF Rel!Live
    <3>2. QED
      BY <1>3, <1>10, <3>1 DEF Rel!PostDetach, Rel!DetachPost
  <2>2. Rel!End(k)
    BY <1>10 DEF Rel!PostDetach
  <2>3. QED
    BY <1>1, <1>5, <1>9, <2>1, <2>2
<1>11. CASE Rel!PostSyncRead(k)
  <2> DEFINE n == [c EXCEPT !.pc = "finding", !.seen = Rel!LazyHasMany(c.u)]
  <2>1. relCall' = [relCall EXCEPT ![k] = n] /\ c.pc = "asked" /\ c.op = "postSync" /\ posts' = posts
    BY <1>11 DEF Rel!PostSyncRead, Rel!Go
  <2>2. Rel!LazyHasMany(c.u) \subseteq Related
    BY DEF Rel!LazyHasMany, Rel!Live, Rel!Owned, Related
  <2>3. n \in RelCallType /\ n.pc = "finding" /\ n.op = c.op /\ n.u = c.u /\ n.want = c.want
    BY <1>2, <2>2 DEF RelCallType
  <2> HIDE DEF n
  <2>4. RelCallFits(n) /\ Goes(c, n) /\ n # c
    BY <1>2, <1>4, <2>1, <2>3 DEF RelCallFits, Goes
  <2>5. QED
    BY <1>1, <1>7, <2>1, <2>3, <2>4
<1>12. CASE Rel!PostSyncFind(k)
  <2>1. c.pc = "finding" /\ c.op = "postSync" /\ posts' = posts
    BY <1>12 DEF Rel!PostSyncFind, Rel!Go
  <2>2. CASE relCall' = [relCall EXCEPT ![k] = [@ EXCEPT !.pc = "detaching", !.todo = c.seen \ c.want]]
    <3> DEFINE n == [c EXCEPT !.pc = "detaching", !.todo = c.seen \ c.want]
    <3>1. relCall' = [relCall EXCEPT ![k] = n]
      BY <2>2
    <3>2. n \in RelCallType /\ n.pc = "detaching" /\ n.op = c.op /\ n.u = c.u
      BY <1>2 DEF RelCallType
    <3> HIDE DEF n
    <3>3. RelCallFits(n) /\ Goes(c, n) /\ n # c
      BY <1>2, <1>4, <2>1, <3>2 DEF RelCallFits, Goes
    <3>4. QED
      BY <1>1, <1>7, <2>1, <3>1, <3>2, <3>3
  <2>3. ASSUME NEW p \in c.todo, NEW gone,
               relCall' = [relCall EXCEPT ![k] = [@ EXCEPT !.todo = c.todo \ {p}, !.want = c.want \ gone]]
        PROVE  \E n \in RelCallType : /\ RelCallFits(n) /\ Goes(c, n) /\ n # c
                                      /\ relCall' = [relCall EXCEPT ![k] = n]
    <3> DEFINE n == [c EXCEPT !.todo = c.todo \ {p}, !.want = c.want \ gone]
    <3>1. relCall' = [relCall EXCEPT ![k] = n]
      BY <2>3
    <3>2. n \in RelCallType /\ n.pc = "finding" /\ n.op = c.op /\ n.u = c.u /\ p \notin n.todo
      BY <1>2, <2>1 DEF RelCallType
    <3> HIDE DEF n
    <3>3. RelCallFits(n) /\ Goes(c, n) /\ n # c
      BY <1>2, <1>4, <2>1, <2>3, <3>2 DEF RelCallFits, Goes
    <3>4. QED
      BY <3>1, <3>2, <3>3
  <2>4. \/ relCall' = [relCall EXCEPT ![k] = [@ EXCEPT !.pc = "detaching", !.todo = c.seen \ c.want]]
        \/ \E p \in c.todo : \E gone :
             relCall' = [relCall EXCEPT ![k] = [@ EXCEPT !.todo = c.todo \ {p}, !.want = c.want \ gone]]
    BY <1>12 DEF Rel!PostSyncFind
  <2>5. QED
    BY <1>1, <1>7, <2>1, <2>2, <2>3, <2>4
<1>13. CASE Rel!PostSyncDetach(k)
  <2>1. CASE /\ c.todo = {} /\ UNCHANGED posts
             /\ relCall' = [relCall EXCEPT ![k] = [@ EXCEPT !.pc = "attaching", !.todo = c.want \ c.seen]]
    <3> DEFINE n == [c EXCEPT !.pc = "attaching", !.todo = c.want \ c.seen]
    <3>1. relCall' = [relCall EXCEPT ![k] = n] /\ c.pc = "detaching" /\ c.op = "postSync" /\ posts' = posts
      BY <1>13, <2>1 DEF Rel!PostSyncDetach, Rel!Go
    <3>2. /\ n \in RelCallType /\ n.pc = "attaching" /\ n.op = c.op /\ n.u = c.u /\ n.want = c.want
          /\ n.todo \subseteq n.want
      BY <1>2 DEF RelCallType
    <3> HIDE DEF n
    <3>3. RelCallFits(n) /\ Goes(c, n) /\ n # c
      BY <1>2, <1>4, <3>1, <3>2 DEF RelCallFits, Goes
    <3>4. QED
      BY <1>1, <1>7, <3>1, <3>2, <3>3
  <2>2. ASSUME NEW p \in c.todo, Rel!DetachPost(p, c.u), relCall' = [relCall EXCEPT ![k].todo = @ \ {p}]
        PROVE  /\ \E n \in RelCallType : /\ RelCallFits(n) /\ Goes(c, n) /\ n # c
                                         /\ relCall' = [relCall EXCEPT ![k] = n]
               /\ \E P : P \subseteq Rel!Owned(u) /\ Rel!SetOwner(P, 0)
    BY <1>3, <1>6, <2>2 DEF Rel!DetachPost
  <2>3. QED
    BY <1>1, <1>9, <1>13, <2>1, <2>2 DEF Rel!PostSyncDetach
<1>14. CASE Rel!PostSyncAttach(k)
  <2>1. CASE Rel!End(k) /\ UNCHANGED posts
    BY <1>1, <1>5, <1>7, <2>1
  <2>2. ASSUME NEW p \in c.todo, Rel!SetOwner({p}, c.u), relCall' = [relCall EXCEPT ![k].todo = @ \ {p}]
        PROVE  /\ \E n \in RelCallType : /\ RelCallFits(n) /\ Goes(c, n) /\ n # c
                                         /\ relCall' = [relCall EXCEPT ![k] = n]
               /\ posts' \in [Posts -> [user_id : Nat, trashed : BOOLEAN]]
               /\ \A q \in Posts : posts'[q].user_id # posts[q].user_id =>
                    q \in c.want /\ posts'[q].user_id = c.u
    <3>1. p \in c.want
      BY <1>2, <1>14, <2>2 DEF Rel!PostSyncAttach, Rel!Go, RelCallFits
    <3>2. /\ posts' \in [Posts -> [user_id : Nat, trashed : BOOLEAN]]
          /\ \A q \in Posts : posts'[q].user_id = IF q = p THEN u ELSE posts[q].user_id
      <4>1. PICK P : P = {p}
        OBVIOUS
      <4>2. Rel!SetOwner(P, u)
        BY <1>3, <2>2, <4>1
      <4>3. QED
        BY <4>1, <4>2, OwnerTypes
    <3>3. QED
      BY <1>3, <1>6, <2>2, <3>1, <3>2
  <2>3. QED
    BY <1>1, <1>14, <2>1, <2>2 DEF Rel!PostSyncAttach
<1>15. QED
  BY <1>8, <1>10, <1>11, <1>12, <1>13, <1>14

LEMMA TrashKeeps ==
  ASSUME KeysFit, RelInv, Rel!Trash
  PROVE  RelInv' /\ \A p \in Posts : posts'[p].user_id = posts[p].user_id
<1> USE DEF RelInv
<1>1. UNCHANGED <<relCall, syncs>>
  BY DEF Rel!Trash
<1>2. /\ posts' \in [Posts -> [user_id : Nat, trashed : BOOLEAN]]
      /\ \A p \in Posts : posts'[p].user_id = posts[p].user_id
  <2>1. CASE posts' = posts
    BY <2>1 DEF RelTypes
  <2>2. ASSUME NEW p \in Posts, posts' = [posts EXCEPT ![p].trashed = ~@]
        PROVE  /\ posts' \in [Posts -> [user_id : Nat, trashed : BOOLEAN]]
               /\ \A q \in Posts : posts'[q].user_id = posts[q].user_id
    <3>1. posts' = [posts EXCEPT ![p] = [posts[p] EXCEPT !.trashed = ~posts[p].trashed]]
      BY <2>2 DEF RelTypes
    <3>2. QED
      BY <3>1 DEF RelTypes
  <2>3. QED
    BY <2>1, <2>2 DEF Rel!Trash
<1>3. /\ pivot' \in [Users -> [Roles -> Cell]]
      /\ \A v \in Users : Rel!RowsOf(v)' = Rel!RowsOf(v)
  <2>1. CASE pivot' = pivot
    BY <2>1 DEF RelTypes, Rel!RowsOf
  <2>2. ASSUME NEW u \in RoleUsers, NEW r \in Roles, pivot[u][r].row = "live",
               pivot' = [pivot EXCEPT ![u][r].row = "trashed"]
        PROVE  /\ pivot' \in [Users -> [Roles -> Cell]]
               /\ \A v \in Users : Rel!RowsOf(v)' = Rel!RowsOf(v)
    <3>1. u \in Users
      BY DEF KeysFit
    <3>2. PICK cell \in Cell : cell = [pivot[u][r] EXCEPT !.row = "trashed"] /\ cell.row = "trashed"
      <4>1. PICK old \in Cell : old = pivot[u][r]
        BY <3>1 DEF RelTypes
      <4>2. [old EXCEPT !.row = "trashed"] \in Cell /\ [old EXCEPT !.row = "trashed"].row = "trashed"
        BY DEF Cell
      <4>3. QED
        BY <4>1, <4>2
    <3>3. pivot' = [pivot EXCEPT ![u][r] = cell]
      BY <2>2, <3>2
    <3>4. /\ pivot' \in [Users -> [Roles -> Cell]]
          /\ \A v \in Users \ {u} : pivot'[v] = pivot[v]
          /\ Rel!RowsOf(u)' = Rel!RowsOf(u) \cup {r}
      BY <3>1, <3>2, <3>3, AttachedCells
    <3>5. r \in Rel!RowsOf(u)
      BY <2>2 DEF Rel!RowsOf
    <3>6. QED
      BY <3>4, <3>5 DEF Rel!RowsOf
  <2>3. QED
    BY <2>1, <2>2 DEF Rel!Trash
<1>4. \A v \in Users : Episode(v)'
  BY <1>1, <1>3, Elsewhere
<1>5. QED
  BY <1>1, <1>2, <1>3, <1>4 DEF RelTypes

LEMMA RelStep == KeysFit /\ RelInv /\ [Rel!Next]_(Rel!vars) => RelInv'
<1> SUFFICES ASSUME KeysFit, RelInv, [Rel!Next]_(Rel!vars) PROVE RelInv'
  OBVIOUS
<1>1. CASE UNCHANGED Rel!vars
  BY <1>1 DEF Rel!vars, RelInv, RelTypes, Episode, Syncing, Rel!RowsOf
<1>2. CASE Rel!AnyPivotStart
  <2>1. PICK k \in Callers, op \in Rel!PivotOps, u \in RoleUsers, R \in SUBSET Roles, l \in 0 .. 1 :
          Rel!StartPivot(k, op, u, R, l)
    BY <1>2, Zenon DEF Rel!AnyPivotStart, Rel!PivotOps
  <2>2. QED
    BY <2>1, StartPivotKeeps
<1>3. CASE Rel!AnyPostStart
  <2>1. PICK k \in Callers, op \in PostOps, u \in Users, P \in SUBSET Posts : Rel!Begin(k, op, u, P, 0)
    BY <1>3, Zenon DEF Rel!AnyPostStart, PostOps
  <2>2. QED
    BY <1>3, <2>1, StartPostKeeps DEF Rel!AnyPostStart
<1>4. CASE Rel!Trash
  BY <1>4, TrashKeeps
<1>5. ASSUME NEW k \in Callers, Rel!Step(k) PROVE RelInv'
  <2>1. CASE \/ Rel!PostAttach(k) \/ Rel!PostDetach(k) \/ Rel!Associate(k)
             \/ Rel!PostSyncRead(k) \/ Rel!PostSyncFind(k) \/ Rel!PostSyncDetach(k) \/ Rel!PostSyncAttach(k)
    BY <2>1, PostStep, PostsKeep
  <2>2. QED
    BY <1>5, <2>1, AttachKeeps, DetachKeeps, UpdateKeeps, SyncReadKeeps, SyncAttachKeeps,
       SyncDetachKeeps, ToggleKeeps DEF Rel!Step
<1>6. QED
  BY <1>1, <1>2, <1>3, <1>4, <1>5 DEF Rel!Next

\* When no call runs on a user's roles, no sync has anything left to do.
LEMMA SyncShown == RelInv => Rel!SyncReplaces
<1> SUFFICES ASSUME RelInv, NEW u \in Users, syncs[u].any, syncs[u].only, ~Rel!PivotBusy(u)
             PROVE  /\ syncs[u].common \subseteq Rel!RowsOf(u)
                    /\ Rel!RowsOf(u) \subseteq syncs[u].all
  BY DEF Rel!SyncReplaces
<1>1. \A k \in Callers : \A r : ~Removes(relCall[k], u, r) /\ ~Adds(relCall[k], u, r)
  BY DEF Rel!PivotBusy, Rel!PivotOps, Removes, Adds
<1>2. QED
  BY <1>1 DEF RelInv, Episode, Syncing

\* Who does not work on posts leaves them to their users.
LEMMA PostsStay ==
  ASSUME KeysFit, RelInv, [Rel!Next]_(Rel!vars), NEW p \in Posts, posts'[p].user_id # posts[p].user_id
  PROVE  \E k \in Callers : relCall'[k] # relCall[k] /\
           (relCall[k].u = posts[p].user_id \/ (p \in relCall[k].want /\ posts'[p].user_id = relCall[k].u))
<1>1. posts' # posts
  OBVIOUS
<1>2. ~Rel!AnyPivotStart /\ ~Rel!AnyPostStart /\ ~Rel!Trash
  <2>1. \A k, op, u, R, l : ~Rel!Begin(k, op, u, R, l)
    BY <1>1 DEF Rel!Begin
  <2>2. ~Rel!AnyPivotStart
    <3>1. \A k, op, u, R, l : ~Rel!StartPivot(k, op, u, R, l)
      BY <2>1, Zenon DEF Rel!StartPivot
    <3>2. QED
      BY <3>1, Zenon DEF Rel!AnyPivotStart
  <2>3. ~Rel!AnyPostStart
    BY <2>1, Zenon DEF Rel!AnyPostStart
  <2>4. ~Rel!Trash
    BY TrashKeeps
  <2>5. QED
    BY <2>2, <2>3, <2>4
<1>3. PICK k \in Callers : Rel!Step(k)
  BY <1>1, <1>2 DEF Rel!Next, Rel!vars
<1>4. \/ Rel!PostAttach(k) \/ Rel!PostDetach(k) \/ Rel!Associate(k)
      \/ Rel!PostSyncRead(k) \/ Rel!PostSyncFind(k) \/ Rel!PostSyncDetach(k) \/ Rel!PostSyncAttach(k)
  BY <1>1, <1>3 DEF Rel!Step, Rel!Data, Rel!Attach, Rel!Detach, Rel!DetachOne, Rel!UpdateExistingPivot,
                    Rel!SyncRead, Rel!SyncAttach, Rel!SyncDetach,
                    Rel!ToggleRead, Rel!ToggleAttach, Rel!ToggleDetach
<1>5. PICK n \in RelCallType : n # relCall[k] /\ relCall' = [relCall EXCEPT ![k] = n]
  BY <1>4, PostStep
<1>6. relCall'[k] # relCall[k]
  BY <1>5 DEF RelInv, RelTypes
<1>7. QED
  BY <1>4, <1>6, PostStep

\* CallsTouchTheirOwn: when only syncs ran on a user's roles and they are over,
\* every id all of them wanted has a row and no id has one that none wanted; and
\* a post leaves a user only through a call on that user, or one that names the
\* post - whatever attaches, detaches, toggles and syncs overlap, on any number
\* of users, roles and posts.
THEOREM CallsKeepToTheirOwn == KeysFit => (Rel!Spec => CallsTouchTheirOwn)
<1> SUFFICES ASSUME KeysFit PROVE Rel!Spec => CallsTouchTheirOwn
  OBVIOUS
<1>1. Rel!Init => RelInv
  BY RelInit
<1>2. RelInv /\ [Rel!Next]_(Rel!vars) => RelInv'
  BY RelStep
<1>3. RelInv /\ [Rel!Next]_(Rel!vars) =>
        [\A p \in Posts : posts'[p].user_id # posts[p].user_id =>
           \E k \in Callers : relCall'[k] # relCall[k] /\
              (relCall[k].u = posts[p].user_id
               \/ (p \in relCall[k].want /\ posts'[p].user_id = relCall[k].u))]_(Rel!vars)
  BY PostsStay
<1>4. Rel!Spec => []RelInv
  BY <1>1, <1>2, PTL DEF Rel!Spec
<1>5. Rel!Spec => Rel!NobodyElsesPost
  BY <1>3, <1>4, PTL DEF Rel!Spec, Rel!NobodyElsesPost
<1>6. Rel!Spec => []Rel!SyncReplaces
  BY <1>4, SyncShown, PTL
<1>7. QED
  BY <1>5, <1>6 DEF CallsTouchTheirOwn, Rel!CallsTouchTheirOwn

LEMMA EagerShown == KeysFit => EagerIsLazy
<1> SUFFICES ASSUME KeysFit PROVE EagerIsLazy
  OBVIOUS
<1>1. ASSUME mongo => \A p \in Posts : ~posts[p].trashed, NEW u \in Users, NEW U \in SUBSET Users, u \in U
      PROVE  /\ Rel!loadRelationship("hasMany", U, u) = Rel!LazyHasMany(u)
             /\ (\A p, q \in Rel!LazyHasMany(u) : p = q)
                  => Rel!loadRelationship("hasOne", U, u) = Rel!LazyHasOne(u)
  <2> DEFINE mine == Rel!Live(Rel!Owned(u))
  <2>1. mine = IF mongo THEN Rel!Keyed(Posts, U) \cap Rel!Owned(u)
                        ELSE Rel!Keyed(Rel!Live(Posts), U) \cap Rel!Owned(u)
    BY <1>1 DEF Rel!Live, Rel!Owned, Rel!Keyed
  <2>2. mine \subseteq Nat
    BY DEF Rel!Live, Rel!Owned, KeysFit
  <2>3. Rel!loadRelationship("hasMany", U, u) = mine
    BY <2>1 DEF Rel!loadRelationship, Rel!loadHasMany, Rel!loadHasManyMongo
  <2>4. Rel!loadRelationship("hasOne", U, u) = Rel!Last(mine)
    BY <2>1 DEF Rel!loadRelationship, Rel!loadHasOne, Rel!loadHasOneMongo
  <2>5. (\A p, q \in mine : p = q) => Rel!Last(mine) = mine /\ Rel!Least(mine) = mine
    BY <2>2 DEF Rel!Last, Rel!Least
  <2> HIDE DEF mine
  <2>6. QED
    BY <2>3, <2>4, <2>5 DEF mine, Rel!LazyHasMany, Rel!LazyHasOne
<1>2. ASSUME mongo \/ roles = {}, NEW u \in Users, NEW U \in SUBSET Users, u \in U
      PROVE  Rel!loadRelationship("belongsToMany", U, u) = Rel!LazyBelongsToMany(u)
  <2>1. Rel!PivotShown(u) = Rel!PivotShown(u) \cap UNION {Rel!PivotShown(v) : v \in U}
    BY <1>2
  <2>2. QED
    BY <1>2, <2>1 DEF Rel!loadRelationship, Rel!loadBelongsToMany, Rel!loadBelongsToManyMongo,
                      Rel!LazyBelongsToMany
<1>3. ASSUME NEW p \in Posts, NEW gone \in SUBSET Users
      PROVE  IF mongo THEN Rel!loadBelongsToMongo(Posts, p) = Rel!LazyBelongsTo(p, {})
                      ELSE Rel!loadBelongsTo(Posts, p, gone) = Rel!LazyBelongsTo(p, gone)
  BY DEF Rel!loadBelongsToMongo, Rel!loadBelongsTo, Rel!LazyBelongsTo
<1>4. QED
  BY <1>1, <1>2, <1>3 DEF EagerIsLazy, Rel!EagerIsLazy

\* EagerIsLazy: whatever rows there are and for however many parents at once,
\* eager loading shows each parent what asking it alone shows, under the
\* conditions on trashed rows that the loaders of the two databases need.
THEOREM EagerAlwaysLazy == KeysFit => (Rel!Spec => []EagerIsLazy)
<1> SUFFICES ASSUME KeysFit PROVE Rel!Spec => []EagerIsLazy
  OBVIOUS
<1>1. EagerIsLazy
  BY EagerShown
<1>2. QED
  BY <1>1, PTL

-----------------------------------------------------------------------------
(* Files.  Of SizesFit a configuration must see to: there is a size of     *)
(* thumbnails.                                                             *)

SizeSet == F!ToSet(Sizes)
SizesFit == Sizes \in Seq(SizeSet) /\ Sizes # <<>> /\ MaxUploads \in Nat
Formatted == {"webp", "original"}
Variety == SizeSet \X Formatted
AllThumbs(type) == F!ToSet(F!Variants(type))
FileRows == [is : {"none", "live", "trashed"}, type : F!Types, thumbs : SUBSET Variety]
Todo == ({"unlink", "make"} \X Variety) \cup Variety \cup {F!Main}
AskedOps == F!Reads \cup {"thumbnail", "regenerate", "destroy"}
ReqPcs == {"idle", "write", "insert", "find", "findAgain", "metadata", "make", "making", "record",
        "choose", "unlink", "remove"}
ReqType == [pc : ReqPcs, op : {"", "store"} \cup AskedOps, n : Nat, row : FileRows, want : Variety \cup {F!Main},
            todo : Seq(Todo), again : BOOLEAN, ans : Nat]
FileTypes ==
    /\ files \in [F!Uploads -> FileRows]
    /\ uploads \in 0 .. MaxUploads
    /\ req \in [Requests -> ReqType]

\* A row names all its thumbnails or none; links and paths are of rows there are.
RowsFit ==
    /\ \A n \in F!Uploads : /\ files[n].thumbs \in {{}, AllThumbs(files[n].type)}
                            /\ files[n].is = "none" => files[n].thumbs = {}
                            /\ n > uploads => files[n].is = "none"
    /\ \A l \in links : l[1] \in 1 .. uploads /\ files[l[1]].is # "none" /\ l[2] \in {"download", "thumbnail"}
    /\ \A path \in disk : /\ path[1] \in 1 .. uploads /\ path = F!Path(path[1], path[2])
                          /\ path[2] = F!Main \/ path[2] \in AllThumbs(files[path[1]].type)
                          /\ files[path[1]].is = "none" => path[2] = F!Main

\* What a request q has read and is about to do, at each of its steps.
MakerPcs == {"make", "making", "record"}
ReqFits(q) ==
    /\ q.pc # "idle" => q.n \in 1 .. uploads
    /\ q.pc \in {"write", "insert"} => q.op = "store" /\ files[q.n].is = "none" /\ q.row.thumbs = {}
    /\ q.op \notin {"", "store"} \/ q.pc \notin {"idle", "write", "insert"} =>
          q.n \in 1 .. uploads /\ files[q.n].is # "none"
    /\ q.op = "thumbnail" /\ q.pc # "idle" => q.want \in Variety
    /\ q.pc \in {"find", "findAgain"} => ~q.again
    /\ q.pc = "find" => q.op \in AskedOps
    /\ q.pc \in {"metadata", "choose"} \cup MakerPcs =>
          /\ q.op \in {"store", "regenerate", "thumbnail"}
          /\ q.row.type = files[q.n].type /\ q.row.type # "text" /\ q.row.thumbs \subseteq files[q.n].thumbs
          /\ q.row.thumbs \in {{}, AllThumbs(q.row.type)}
    /\ q.pc = "findAgain" => /\ q.op \in {"destroy", "regenerate", "thumbnail"}
                             /\ q.op # "destroy" => files[q.n].type # "text"
    /\ q.pc = "choose" => q.op = "thumbnail"
    /\ q.pc \in {"unlink", "remove"} => q.op = "destroy"
    /\ q.pc \in {"make", "making"} =>
          \A i \in DOMAIN q.todo :
                /\ q.todo[i] \in {"unlink", "make"} \X AllThumbs(q.row.type)
                /\ q.todo[i][1] = "unlink" => /\ q.op = "regenerate"
                                              /\ \E j \in DOMAIN q.todo : j > i /\ q.todo[j] = <<"make", q.todo[i][2]>>
    /\ q.pc = "making" => q.todo # <<>> /\ q.todo[1][1] = "make"
Storing(q) == q.pc \in {"write", "insert"}
ReqsFit ==
    /\ \A r \in Requests : ReqFits(req[r])
    /\ \A r, s \in Requests : Storing(req[r]) /\ req[s].pc # "idle" /\ req[s].n = req[r].n => s = r
FileShape == FileTypes /\ RowsFit /\ ReqsFit

-----------------------------------------------------------------------------
(* The moves a request q may make to p. *)

Stays == UNCHANGED <<files, disk, uploads, broken>>
SameFile(q, p) == p.n = q.n /\ p.op = q.op
Ends(q, p) == SameFile(q, p) /\ p.pc = "idle"
NextTodo(q) == [q EXCEPT !.todo = Tail(q.todo)]
GoesTo(q, pc) == [q EXCEPT !.pc = pc]

Begins(q, p) ==
    /\ q.pc = "idle" /\ UNCHANGED <<files, disk, broken>>
    /\ \/ uploads' = uploads /\ p.pc = "idle" /\ p.op = ""
       \/ /\ uploads < MaxUploads /\ uploads' = uploads + 1 /\ p.pc = "write" /\ p.op = "store"
          /\ p.n = uploads + 1 /\ p.row.thumbs = {}
       \/ /\ uploads' = uploads /\ p.pc = "find" /\ p.n \in 1 .. uploads /\ files[p.n].is # "none"
          /\ p.op \in AskedOps /\ ~p.again /\ (p.op = "thumbnail" => p.want \in Variety)
WritesFile(q, p) == /\ q.pc = "write" /\ p = GoesTo(q, "insert") /\ disk' = disk \cup {F!Path(q.n, F!Main)}
                    /\ UNCHANGED <<files, uploads, broken>>
InsertsRow(q, p) == /\ q.pc = "insert" /\ SameFile(q, p) /\ files' = [files EXCEPT ![q.n] = [q.row EXCEPT !.is = "live"]]
                    /\ \/ p.pc = "idle"
                       \/ p.pc = "metadata" /\ p.row = [q.row EXCEPT !.is = "live"] /\ q.row.type # "text"
                    /\ UNCHANGED <<disk, uploads, broken>>
Live(n) == files[n].is = "live"
Looks(q, p) ==
    /\ Stays /\ SameFile(q, p) /\ (q.pc # "choose" => Live(q.n) /\ p.want = q.want /\ p.again = q.again)
    /\ \/ /\ q.pc = "find" /\ p.pc = "findAgain" /\ q.op \in {"thumbnail", "regenerate", "destroy"}
          /\ q.op # "destroy" => files[q.n].type # "text"
       \/ /\ q.pc = "findAgain" /\ p.pc \in {"metadata", "choose"} /\ q.op \in {"regenerate", "thumbnail"}
          /\ (p.pc = "choose" => q.op = "thumbnail") /\ p.row = files[q.n]
       \/ q.pc = "choose" /\ p.pc = "metadata" /\ p.row = q.row /\ p.want \in Variety
Answers(q, p) ==
    /\ Stays /\ Ends(q, p) /\ q.pc \in {"find", "findAgain", "choose"}
    /\ Live(q.n) /\ q.op \in {"show", "download", "view"} /\ F!Path(q.n, F!Main) \in disk => p.ans = 200
    /\ Live(q.n) /\ q.op = "thumbnail" /\ files[q.n].type # "text" =>
          /\ q.pc = "choose"
          /\ \E v \in {q.want, <<q.want[1], "webp">>} :
                /\ q.again => v = <<q.want[1], "webp">>
                /\ ~q.again => v \in q.row.thumbs
                /\ v \in q.row.thumbs /\ F!Path(q.n, v) \in disk => p.ans = 200
Dooms(q, p) == /\ Stays /\ SameFile(q, p) /\ q.pc = "findAgain" /\ p.pc = "unlink" /\ q.op = "destroy" /\ Live(q.n)
               /\ p.todo = F!Unlinked(files[q.n])
Plans(q, p) == /\ Stays /\ q.pc = "metadata" /\ F!Path(q.n, F!Main) \in disk
               /\ p = [q EXCEPT !.pc = "make", !.todo = F!Jobs(q.row, q.op = "regenerate")]
Leaves(q, p, thumbs) ==
    /\ SameFile(q, p)
    /\ \/ p.pc = "idle" /\ q.op \in {"store", "regenerate"}
       \/ /\ p.pc = "choose" /\ q.op = "thumbnail" /\ p.want = q.want /\ p.again = q.again
          /\ p.row = [q.row EXCEPT !.thumbs = thumbs]
GivesUp(q, p) == /\ Stays /\ q.pc \in {"metadata", "make"} /\ F!Path(q.n, F!Main) \notin disk
                 /\ Leaves(q, p, q.row.thumbs)
Passes(q, p) == /\ Stays /\ q.pc = "make" /\ q.todo # <<>> /\ q.todo[1][1] = "make"
                /\ F!Path(q.n, q.todo[1][2]) \in disk /\ p = NextTodo(q)
Clears(q, p) == /\ q.pc = "make" /\ q.todo # <<>> /\ q.todo[1][1] = "unlink" /\ p = NextTodo(q)
                /\ disk' = disk \ {F!Path(q.n, q.todo[1][2])} /\ UNCHANGED <<files, uploads, broken>>
Starts(q, p) == Stays /\ q.pc = "make" /\ q.todo # <<>> /\ q.todo[1][1] = "make" /\ p = GoesTo(q, "making")
Makes(q, p) == /\ q.pc = "making" /\ p = GoesTo(NextTodo(q), "make") /\ disk' = disk \cup {F!Path(q.n, q.todo[1][2])}
               /\ UNCHANGED <<files, uploads, broken>>
Finishes(q, p) == Stays /\ q.pc = "make" /\ q.todo = <<>> /\ p = GoesTo(q, "record")
Records(q, p) == /\ q.pc = "record" /\ UNCHANGED <<disk, uploads, broken>>
                 /\ files' = [files EXCEPT ![q.n].thumbs = q.row.thumbs \cup AllThumbs(q.row.type)]
                 /\ Leaves(q, p, q.row.thumbs \cup AllThumbs(q.row.type))
Unlinks(q, p) == /\ q.pc = "unlink" /\ q.todo # <<>> /\ p = NextTodo(q)
                 /\ disk' = disk \ {F!Path(q.n, q.todo[1])} /\ UNCHANGED <<files, uploads, broken>>
UnlinksLast(q, p) == Stays /\ q.pc = "unlink" /\ q.todo = <<>> /\ p = GoesTo(q, "remove")
RemovesRow(q, p) == /\ q.pc = "remove" /\ Ends(q, p) /\ files' = [files EXCEPT ![q.n].is = "trashed"]
                    /\ UNCHANGED <<disk, uploads, broken>>
Spares(q, p) == Stays /\ q.pc = "write" /\ Ends(q, p)
Breaks(q, p) ==
    /\ UNCHANGED <<files, disk, uploads>> /\ broken' = broken \cup {q.n}
    /\ \/ q.pc \in {"insert", "remove"} /\ Ends(q, p)
       \/ q.pc \in {"metadata", "making", "record"} /\ Leaves(q, p, q.row.thumbs)
       \/ q.pc = "unlink" /\ q.todo # <<>> /\ p = NextTodo(q)

MovesTo(q, p) ==
    \/ Begins(q, p) \/ WritesFile(q, p) \/ InsertsRow(q, p) \/ Looks(q, p) \/ Answers(q, p) \/ Dooms(q, p)
    \/ Plans(q, p) \/ GivesUp(q, p) \/ Passes(q, p) \/ Clears(q, p) \/ Starts(q, p) \/ Makes(q, p)
    \/ Finishes(q, p) \/ Records(q, p) \/ Unlinks(q, p) \/ UnlinksLast(q, p) \/ RemovesRow(q, p)
    \/ Spares(q, p) \/ Breaks(q, p)
LinksFit == \A l \in links' : \/ l \in links
                              \/ /\ l[1] \in 1 .. uploads /\ files[l[1]].is # "none"
                                 /\ l[2] \in {"download", "thumbnail"}
MovesOne(r, p) == p \in ReqType /\ req' = [req EXCEPT ![r] = p] /\ MovesTo(req[r], p) /\ LinksFit
Crashed == /\ UNCHANGED <<files, disk, uploads, links>> /\ req' = [r \in Requests |-> F!Idle]
           /\ broken' = broken \cup {req[r].n : r \in {q \in Requests : req[q].pc # "idle"}}
Expired == UNCHANGED <<files, disk, uploads, req, broken>> /\ links' \subseteq links

-----------------------------------------------------------------------------
LEMMA StepIndex ==
  ASSUME NEW m \in {1, 2, 4}, NEW n \in Nat, NEW i \in 1 .. n, NEW j \in 1 .. m
  PROVE  /\ (i - 1) * m + j \in 1 .. m * n
         /\ ((((i - 1) * m + j) - 1) \div m) + 1 = i
         /\ ((((i - 1) * m + j) - 1) % m) + 1 = j
<1>1. CASE m = 1
  BY <1>1
<1>2. CASE m = 2
  BY <1>2
<1>3. CASE m = 4
  BY <1>3
<1>4. QED
  BY <1>1, <1>2, <1>3

LEMMA StepIndexBack ==
  ASSUME NEW m \in {1, 2, 4}, NEW n \in Nat, NEW k \in 1 .. m * n
  PROVE  ((k - 1) \div m) + 1 \in 1 .. n /\ ((k - 1) % m) + 1 \in 1 .. m
         /\ k = ((k - 1) \div m) * m + ((k - 1) % m) + 1
<1>1. CASE m = 1
  BY <1>1
<1>2. CASE m = 2
  BY <1>2
<1>3. CASE m = 4
  BY <1>3
<1>4. QED
  BY <1>1, <1>2, <1>3

LEMMA FormatsFit ==
  ASSUME NEW type \in F!Types
  PROVE  /\ F!Formats(type) \in Seq(Formatted) /\ Len(F!Formats(type)) \in {1, 2}
         /\ "webp" \in F!ToSet(F!Formats(type)) /\ F!ToSet(F!Formats(type)) \subseteq Formatted
         /\ \A size : F!VariantsOf(type, size) = [i \in 1 .. Len(F!Formats(type)) |-> <<size, F!Formats(type)[i]>>]
<1> DEFINE f == F!Formats(type)
<1>1. f \in Seq(Formatted) /\ Len(f) \in {1, 2} /\ DOMAIN f = 1 .. Len(f) /\ f[1] = "webp"
  <2>1. f = <<"webp">> \/ f = <<"webp", "original">>
    BY DEF F!Formats
  <2>2. <<"webp">> \in Seq({"webp", "original"}) /\ <<"webp", "original">> \in Seq({"webp", "original"})
    OBVIOUS
  <2> HIDE DEF f
  <2>3. CASE f = <<"webp">>
    BY <2>2, <2>3 DEF Formatted
  <2>4. CASE f = <<"webp", "original">>
    BY <2>2, <2>4 DEF Formatted
  <2>5. QED
    BY <2>1, <2>3, <2>4
<1> HIDE DEF f
<1>2. "webp" \in F!ToSet(f) /\ F!ToSet(f) \subseteq Formatted
  BY <1>1 DEF F!ToSet
<1>3. \A size : F!VariantsOf(type, size) = [i \in 1 .. Len(f) |-> <<size, f[i]>>]
  BY <1>1 DEF f, F!VariantsOf
<1>4. QED
  BY <1>1, <1>2, <1>3 DEF f

\* The k-th of m steps for each size is about a size, and of each there is one.
LEMMA SizesSplit ==
  ASSUME SizesFit, NEW m \in {1, 2, 4}, NEW size \in SizeSet, NEW j \in 1 .. m
  PROVE  \E k \in 1 .. m * Len(Sizes) : F!SizeAt(m, k) = size /\ F!StepAt(m, k) = j
<1>1. Len(Sizes) \in Nat /\ DOMAIN Sizes = 1 .. Len(Sizes)
  BY DEF SizesFit
<1>2. PICK i \in 1 .. Len(Sizes) : size = Sizes[i]
  BY <1>1 DEF SizeSet, F!ToSet
<1> DEFINE n == Len(Sizes)
           k == (i - 1) * m + j
<1> HIDE DEF n
<1>3. k \in 1 .. m * n /\ ((k - 1) \div m) + 1 = i /\ ((k - 1) % m) + 1 = j
  BY <1>1, <1>2, StepIndex DEF n
<1> HIDE DEF k
<1>4. F!SizeAt(m, k) = size /\ F!StepAt(m, k) = j
  BY <1>2, <1>3 DEF F!SizeAt, F!StepAt
<1>5. QED
  BY <1>3, <1>4 DEF n

LEMMA SizesBack ==
  ASSUME SizesFit, NEW m \in {1, 2, 4}, NEW k \in 1 .. m * Len(Sizes)
  PROVE  F!SizeAt(m, k) \in SizeSet /\ F!StepAt(m, k) \in 1 .. m
<1>1. Len(Sizes) \in Nat /\ DOMAIN Sizes = 1 .. Len(Sizes)
  BY DEF SizesFit
<1> DEFINE n == Len(Sizes)
<1> HIDE DEF n
<1>2. ((k - 1) \div m) + 1 \in 1 .. n /\ ((k - 1) % m) + 1 \in 1 .. m
  BY <1>1, StepIndexBack DEF n
<1>3. QED
  BY <1>1, <1>2 DEF F!SizeAt, F!StepAt, n, SizeSet, F!ToSet

\* The steps for a size follow each other.
LEMMA SizesNext ==
  ASSUME SizesFit, NEW m \in {1, 2}, NEW k \in 1 .. (2 * m) * Len(Sizes), F!StepAt(2 * m, k) <= m
  PROVE  /\ k + m \in 1 .. (2 * m) * Len(Sizes) /\ k + m > k
         /\ F!SizeAt(2 * m, k + m) = F!SizeAt(2 * m, k) /\ F!StepAt(2 * m, k + m) = F!StepAt(2 * m, k) + m
<1> DEFINE n == Len(Sizes)
<1>1. n \in Nat
  BY DEF SizesFit
<1> HIDE DEF n
<1>2. k \in 1 .. (2 * m) * n /\ ((k - 1) % (2 * m)) + 1 <= m
  BY DEF n, F!StepAt
<1>3. k + m \in 1 .. (2 * m) * n /\ k + m > k
      /\ ((k + m - 1) \div (2 * m)) + 1 = ((k - 1) \div (2 * m)) + 1
      /\ ((k + m - 1) % (2 * m)) + 1 = ((k - 1) % (2 * m)) + 1 + m
  <2>1. CASE m = 1
    BY <1>1, <1>2, <2>1
  <2>2. CASE m = 2
    BY <1>1, <1>2, <2>2
  <2>3. QED
    BY <2>1, <2>2
<1>4. QED
  BY <1>3 DEF n, F!SizeAt, F!StepAt

\* Variants lists the thumbnails of each size in each format.
LEMMA VariantsListed ==
  ASSUME SizesFit, NEW type \in F!Types
  PROVE  /\ F!Variants(type) \in Seq(Variety)
         /\ AllThumbs(type) = SizeSet \X F!ToSet(F!Formats(type))
         /\ AllThumbs(type) \subseteq Variety
<1> DEFINE m == Len(F!Formats(type))
           n == Len(Sizes)
           Pairs == SizeSet \X F!ToSet(F!Formats(type))
<1>1. m \in {1, 2} /\ n \in Nat /\ DOMAIN F!Formats(type) = 1 .. m /\ m \in {1, 2, 4} /\ m * n \in Nat
  BY FormatsFit DEF SizesFit
<1>2. F!Variants(type) = [k \in 1 .. m * n |-> F!VariantsOf(type, F!SizeAt(m, k))[F!StepAt(m, k)]]
  BY DEF F!Variants, F!SizeAt, F!StepAt
<1> HIDE DEF m, n
<1>3. \A k \in 1 .. m * n : F!SizeAt(m, k) \in SizeSet /\ F!StepAt(m, k) \in 1 .. m
  BY <1>1, SizesBack DEF n
<1>4. \A k \in 1 .. m * n : F!Variants(type)[k] = <<F!SizeAt(m, k), F!Formats(type)[F!StepAt(m, k)]>>
  BY <1>2, <1>3, FormatsFit DEF m
<1>5. ASSUME NEW k \in 1 .. m * n
      PROVE  F!Variants(type)[k] \in Pairs
  <2>1. \A j \in 1 .. m : F!Formats(type)[j] \in F!ToSet(F!Formats(type))
    BY <1>1 DEF F!ToSet
  <2>2. F!SizeAt(m, k) \in SizeSet /\ F!Formats(type)[F!StepAt(m, k)] \in F!ToSet(F!Formats(type))
    BY <1>3, <2>1
  <2>3. <<F!SizeAt(m, k), F!Formats(type)[F!StepAt(m, k)]>> \in Pairs
    BY <2>2
  <2>4. F!Variants(type)[k] = <<F!SizeAt(m, k), F!Formats(type)[F!StepAt(m, k)]>>
    BY <1>4
  <2> HIDE DEF Pairs
  <2>5. QED
    BY <2>3, <2>4
<1>6. ASSUME NEW v \in Pairs
      PROVE  \E k \in 1 .. m * n : F!Variants(type)[k] = v
  <2>1. PICK size \in SizeSet, j \in 1 .. m : v = <<size, F!Formats(type)[j]>>
    BY <1>1 DEF F!ToSet
  <2>2. PICK k \in 1 .. m * n : F!SizeAt(m, k) = size /\ F!StepAt(m, k) = j
    BY <1>1, SizesSplit DEF n
  <2>3. QED
    BY <1>4, <2>1, <2>2
<1>7. DOMAIN F!Variants(type) = 1 .. m * n
  BY <1>2
<1>8. AllThumbs(type) = Pairs
  BY <1>5, <1>6, <1>7 DEF AllThumbs, F!ToSet
<1>9. Pairs \subseteq Variety
  BY FormatsFit DEF Variety
<1>10. F!Variants(type) \in Seq(Variety)
  BY <1>1, <1>2, <1>5, <1>7, <1>9
<1>11. QED
  BY <1>8, <1>9, <1>10

\* The file itself is none of its thumbnails.
LEMMA MainApart ==
  ASSUME SizesFit
  PROVE  F!Main \notin Variety /\ \A type \in F!Types : F!Main \notin AllThumbs(type)
<1>1. ASSUME NEW size \in SizeSet, NEW form \in Formatted PROVE F!Main # <<size, form>>
  <2>1. form # "" /\ F!Main = <<"main", "">>
    BY DEF Formatted, F!Main
  <2>2. QED
    BY <2>1
<1>2. F!Main \notin SizeSet \X Formatted
  BY <1>1
<1>3. QED
  BY <1>2, VariantsListed DEF Variety

\* Jobs makes every thumbnail, and makes what it unlinks.
LEMMA JobsListed ==
  ASSUME SizesFit, NEW row \in FileRows, NEW force \in BOOLEAN, NEW todo, todo = F!Jobs(row, force)
  PROVE  /\ todo \in Seq({"unlink", "make"} \X AllThumbs(row.type))
         /\ \A v \in AllThumbs(row.type) : \E i \in DOMAIN todo : todo[i] = <<"make", v>>
         /\ \A i \in DOMAIN todo : todo[i][1] = "unlink" =>
              force /\ \E j \in DOMAIN todo : j > i /\ todo[j] = <<"make", todo[i][2]>>
<1> DEFINE type == row.type
           m == Len(F!Formats(type))
           n == Len(Sizes)
           fs == F!Formats(type)
<1>1. /\ type \in F!Types /\ m \in {1, 2} /\ n \in Nat /\ DOMAIN fs = 1 .. m
      /\ m \in {1, 2, 4} /\ 2 * m \in {1, 2, 4} /\ m * n \in Nat /\ (2 * m) * n \in Nat
  <2>1. type \in F!Types
    BY DEF FileRows
  <2>2. m \in {1, 2} /\ DOMAIN fs = 1 .. m
    BY <2>1, FormatsFit
  <2>3. n \in Nat
    BY DEF SizesFit
  <2> HIDE DEF m, n
  <2>4. QED
    BY <2>1, <2>2, <2>3
<1>2. ASSUME NEW size \in SizeSet, NEW i \in 1 .. m
      PROVE  F!VariantsOf(type, size)[i] = <<size, fs[i]>> /\ <<size, fs[i]>> \in AllThumbs(type)
  BY <1>1, FormatsFit, VariantsListed DEF F!ToSet
<1>3. ASSUME NEW v \in AllThumbs(type)
      PROVE  \E size \in SizeSet, j \in 1 .. m : v = <<size, fs[j]>>
  BY <1>1, VariantsListed DEF F!ToSet
<1>4. CASE ~force
  <2>1. todo = [k \in 1 .. m * n |-> <<"make", F!VariantsOf(type, F!SizeAt(m, k))[F!StepAt(m, k)]>>]
    BY <1>4 DEF F!Jobs, F!SizeAt, F!StepAt
  <2> HIDE DEF m, n, type, fs
  <2>2. \A k \in 1 .. m * n : F!SizeAt(m, k) \in SizeSet /\ F!StepAt(m, k) \in 1 .. m
    BY <1>1, SizesBack DEF n
  <2>3. ASSUME NEW k \in 1 .. m * n
        PROVE  /\ todo[k] = <<"make", <<F!SizeAt(m, k), fs[F!StepAt(m, k)]>>>>
               /\ todo[k] \in {"unlink", "make"} \X AllThumbs(type)
    <3>1. todo[k] = <<"make", F!VariantsOf(type, F!SizeAt(m, k))[F!StepAt(m, k)]>>
      BY <2>1
    <3>2. /\ F!VariantsOf(type, F!SizeAt(m, k))[F!StepAt(m, k)] = <<F!SizeAt(m, k), fs[F!StepAt(m, k)]>>
          /\ <<F!SizeAt(m, k), fs[F!StepAt(m, k)]>> \in AllThumbs(type)
      BY <1>2, <2>2
    <3>3. QED
      BY <3>1, <3>2
  <2>4. DOMAIN todo = 1 .. m * n
    BY <2>1
  <2>5. todo \in Seq({"unlink", "make"} \X AllThumbs(type))
    <3> DEFINE T == {"unlink", "make"} \X AllThumbs(type)
    <3>1. \A k \in 1 .. m * n : todo[k] \in T
      BY <2>3
    <3>2. m * n \in Nat /\ todo = [k \in 1 .. m * n |-> todo[k]]
      BY <1>1, <2>1
    <3> HIDE DEF T
    <3>3. QED
      BY <3>1, <3>2 DEF T
  <2>6. ASSUME NEW v \in AllThumbs(type)
        PROVE  \E i \in DOMAIN todo : todo[i] = <<"make", v>>
    <3>1. PICK size \in SizeSet, j \in 1 .. m : v = <<size, fs[j]>>
      BY <1>3
    <3>2. PICK k \in 1 .. m * n : F!SizeAt(m, k) = size /\ F!StepAt(m, k) = j
      BY <1>1, SizesSplit DEF n
    <3>3. QED
      BY <2>3, <2>4, <3>1, <3>2
  <2>7. \A k \in DOMAIN todo : todo[k][1] = "make"
    BY <2>3, <2>4
  <2>8. QED
    BY <2>5, <2>6, <2>7 DEF type
<1>5. CASE force
  <2> DEFINE p == 2 * m
  <2>1. todo = [k \in 1 .. p * n |->
                  IF F!StepAt(p, k) <= m THEN <<"unlink", F!VariantsOf(type, F!SizeAt(p, k))[F!StepAt(p, k)]>>
                                       ELSE <<"make", F!VariantsOf(type, F!SizeAt(p, k))[F!StepAt(p, k) - m]>>]
    BY <1>5 DEF F!Jobs, F!SizeAt, F!StepAt
  <2>2. \A j \in 1 .. p : IF j <= m THEN j \in 1 .. m ELSE j - m \in 1 .. m /\ j > m
    BY <1>1
  <2>3. \A j \in 1 .. m : j + m \in 1 .. p /\ ~(j + m <= m) /\ j + m - m = j
    BY <1>1
  <2> HIDE DEF p, m, n, type, fs
  <2>4. \A k \in 1 .. p * n : F!SizeAt(p, k) \in SizeSet /\ F!StepAt(p, k) \in 1 .. p
    BY <1>1, SizesBack DEF n, p
  <2>5. ASSUME NEW k \in 1 .. p * n
        PROVE  /\ F!StepAt(p, k) <= m => todo[k] = <<"unlink", <<F!SizeAt(p, k), fs[F!StepAt(p, k)]>>>>
               /\ ~(F!StepAt(p, k) <= m) => todo[k] = <<"make", <<F!SizeAt(p, k), fs[F!StepAt(p, k) - m]>>>>
               /\ todo[k] \in {"unlink", "make"} \X AllThumbs(type)
    <3> DEFINE size == F!SizeAt(p, k)
               j == F!StepAt(p, k)
    <3>1. size \in SizeSet /\ j \in 1 .. p
      BY <2>4
    <3>2. todo[k] = IF j <= m THEN <<"unlink", F!VariantsOf(type, size)[j]>>
                              ELSE <<"make", F!VariantsOf(type, size)[j - m]>>
      BY <2>1
    <3> HIDE DEF size, j
    <3>3. CASE j <= m
      <4>1. j \in 1 .. m
        BY <2>2, <3>1, <3>3
      <4>2. F!VariantsOf(type, size)[j] = <<size, fs[j]>> /\ <<size, fs[j]>> \in AllThumbs(type)
        BY <1>2, <3>1, <4>1
      <4>3. QED
        BY <3>2, <3>3, <4>2 DEF size, j
    <3>4. CASE ~(j <= m)
      <4>1. j - m \in 1 .. m
        BY <2>2, <3>1, <3>4
      <4>2. F!VariantsOf(type, size)[j - m] = <<size, fs[j - m]>> /\ <<size, fs[j - m]>> \in AllThumbs(type)
        BY <1>2, <3>1, <4>1
      <4>3. QED
        BY <3>2, <3>4, <4>2 DEF size, j
    <3>5. QED
      BY <3>3, <3>4
  <2>6. DOMAIN todo = 1 .. p * n
    BY <2>1
  <2>7. todo \in Seq({"unlink", "make"} \X AllThumbs(type))
    BY <1>1, <2>1, <2>5, <2>6 DEF p
  <2>8. ASSUME NEW v \in AllThumbs(type)
        PROVE  \E i \in DOMAIN todo : todo[i] = <<"make", v>>
    <3>1. PICK size \in SizeSet, j \in 1 .. m : v = <<size, fs[j]>>
      BY <1>3
    <3>2. PICK k \in 1 .. p * n : F!SizeAt(p, k) = size /\ F!StepAt(p, k) = j + m
      BY <1>1, <2>3, SizesSplit DEF n, p
    <3>3. todo[k] = <<"make", <<size, fs[(j + m) - m]>>>>
      BY <2>3, <2>5, <3>2
    <3>4. (j + m) - m = j
      BY <1>1
    <3>5. QED
      BY <2>6, <3>1, <3>2, <3>3, <3>4
  <2>9. ASSUME NEW k \in DOMAIN todo, todo[k][1] = "unlink"
        PROVE  \E j \in DOMAIN todo : j > k /\ todo[j] = <<"make", todo[k][2]>>
    <3>1. k \in 1 .. p * n /\ F!StepAt(p, k) \in 1 .. p
      BY <2>4, <2>6, <2>9
    <3>2. F!StepAt(p, k) <= m
      BY <2>5, <2>9, <3>1
    <3>3. F!StepAt(p, k) \in 1 .. m /\ todo[k] = <<"unlink", <<F!SizeAt(p, k), fs[F!StepAt(p, k)]>>>>
      BY <2>2, <2>5, <3>1, <3>2
    <3>4. k + m \in 1 .. p * n /\ k + m > k /\ F!SizeAt(p, k + m) = F!SizeAt(p, k) /\ F!StepAt(p, k + m) = F!StepAt(p, k) + m
      BY <1>1, <3>1, <3>2, SizesNext DEF n, p
    <3>5. todo[k + m] = <<"make", <<F!SizeAt(p, k), fs[F!StepAt(p, k)]>>>>
      <4> DEFINE j == F!StepAt(p, k)
      <4> HIDE DEF j
      <4>1. j \in 1 .. m /\ F!StepAt(p, k + m) = j + m
        BY <3>3, <3>4 DEF j
      <4>2. todo[k + m] = <<"make", <<F!SizeAt(p, k + m), fs[(j + m) - m]>>>>
        BY <2>3, <2>5, <3>4, <4>1
      <4>3. QED
        <5>1. (j + m) - m = j
          BY <1>1, <4>1
        <5>2. QED
          BY <3>4, <4>2, <5>1 DEF j
    <3>6. QED
      BY <2>6, <3>3, <3>4, <3>5
  <2>10. QED
    BY <1>5, <2>7, <2>8, <2>9 DEF type
<1>6. QED
  BY <1>4, <1>5

-----------------------------------------------------------------------------
LEMMA IdleReqFits == F!Idle \in ReqType /\ F!Idle.pc = "idle" /\ F!Idle.op = "" /\ ~F!Idle.again
<1>1. F!NoRow \in FileRows
  BY DEF F!NoRow, FileRows, F!Types
<1>2. <<>> \in Seq(Todo) /\ F!Main \in Variety \cup {F!Main}
  OBVIOUS
<1> HIDE DEF F!Main
<1>3. QED
  BY <1>1, <1>2 DEF F!Idle, ReqType, ReqPcs

LEMMA Answered ==
  ASSUME FileTypes, NEW r \in Requests, NEW code \in Nat, F!Answer(r, code)
  PROVE  \E p \in ReqType : req' = [req EXCEPT ![r] = p] /\ Ends(req[r], p) /\ p.ans = code
<1> DEFINE p == [F!Idle EXCEPT !.n = req[r].n, !.op = req[r].op, !.ans = code]
<1>1. req[r] \in ReqType
  BY DEF FileTypes
<1>2. p \in ReqType /\ p.n = req[r].n /\ p.op = req[r].op /\ p.ans = code /\ p.pc = "idle"
  BY <1>1, IdleReqFits DEF ReqType
<1>3. req' = [req EXCEPT ![r] = p]
  BY DEF F!Answer
<1> HIDE DEF p
<1>4. QED
  BY <1>2, <1>3 DEF Ends, SameFile

LEMMA LeftWith ==
  ASSUME FileTypes, NEW r \in Requests, NEW thumbs \in SUBSET Variety, F!Generated(r, thumbs),
         req[r].op \in {"store", "regenerate", "thumbnail"}
  PROVE  \E p \in ReqType : req' = [req EXCEPT ![r] = p] /\ Leaves(req[r], p, thumbs)
<1> DEFINE q == req[r]
<1>1. q \in ReqType /\ req \in [Requests -> ReqType]
  BY DEF FileTypes
<1>2. CASE q.op \in {"store", "regenerate"}
  <2>1. \E code \in Nat : F!Answer(r, code)
    BY <1>2 DEF F!Generated
  <2>2. QED
    BY <1>2, <2>1, Answered DEF Leaves, Ends
<1>3. CASE q.op = "thumbnail"
  <2> DEFINE p == [q EXCEPT !.pc = "choose", !.row.thumbs = thumbs, !.todo = <<>>]
  <2>1. req' = [req EXCEPT ![r].pc = "choose", ![r].row.thumbs = thumbs, ![r].todo = <<>>]
    BY <1>3 DEF F!Generated
  <2>2. req' = [req EXCEPT ![r] = p]
    BY <1>1, <2>1
  <2>3. [q.row EXCEPT !.thumbs = thumbs] \in FileRows
    BY <1>1 DEF ReqType, FileRows
  <2>4. <<>> \in Seq(Todo)
    OBVIOUS
  <2>5. p = [q EXCEPT !.pc = "choose", !.row = [q.row EXCEPT !.thumbs = thumbs], !.todo = <<>>]
    BY <1>1 DEF ReqType
  <2>6. /\ p \in ReqType /\ p.n = q.n /\ p.op = q.op /\ p.pc = "choose" /\ p.want = q.want /\ p.again = q.again
        /\ p.row = [q.row EXCEPT !.thumbs = thumbs]
    BY <1>1, <2>3, <2>4, <2>5 DEF ReqType, ReqPcs
  <2> HIDE DEF p
  <2>7. QED
    BY <1>3, <2>2, <2>6 DEF Leaves, SameFile
<1>4. QED
  BY <1>2, <1>3

LEMMA UploadsFit == ASSUME FileShape, SizesFit PROVE uploads \in Nat /\ 1 .. uploads \subseteq F!Uploads /\ 1 .. uploads \subseteq Nat
BY DEF FileShape, FileTypes, SizesFit, F!Uploads

\* What the proofs of moves use of the request r and its row.
LEMMA AtRequest ==
  ASSUME FileShape, NEW r \in Requests, SizesFit
  PROVE  /\ req[r] \in ReqType /\ req \in [Requests -> ReqType] /\ ReqFits(req[r])
         /\ 1 .. uploads \subseteq F!Uploads /\ uploads \in Nat
         /\ req[r].n \in 1 .. uploads => files[req[r].n] \in FileRows /\ req[r].n \in F!Uploads
         /\ Sizes[1] \in SizeSet
         /\ \A type \in F!Types : AllThumbs(type) \subseteq Variety /\ F!Variants(type) \in Seq(Variety)
<1>1. 1 .. uploads \subseteq F!Uploads /\ uploads \in Nat
  BY DEF FileShape, FileTypes, SizesFit, F!Uploads
<1>2. Sizes[1] \in SizeSet
  BY DEF SizesFit
<1>3. QED
  BY <1>1, <1>2, VariantsListed DEF FileShape, FileTypes, ReqsFit

LEMMA MovesUpload == ASSUME SizesFit, FileShape, NEW r \in Requests, F!Upload(r) PROVE \E p : MovesOne(r, p)
<1>1. PICK type \in F!Types : req' = [req EXCEPT ![r] = [F!Idle EXCEPT !.pc = "write", !.op = "store",
                                                       !.n = uploads + 1, !.row.type = type]]
  BY DEF F!Upload
<1> DEFINE p == [F!Idle EXCEPT !.pc = "write", !.op = "store", !.n = uploads + 1, !.row.type = type]
<1>2. [F!NoRow EXCEPT !.type = type] \in FileRows /\ F!Idle.row = F!NoRow /\ [F!NoRow EXCEPT !.type = type].thumbs = {}
  BY DEF F!NoRow, FileRows, F!Idle
<1>3. p = [F!Idle EXCEPT !.pc = "write", !.op = "store", !.n = uploads + 1, !.row = [F!NoRow EXCEPT !.type = type]]
  BY <1>2, IdleReqFits DEF ReqType
<1>4. p \in ReqType /\ p.pc = "write" /\ p.op = "store" /\ p.n = uploads + 1 /\ p.row.thumbs = {}
  <2>1. F!Idle \in ReqType /\ uploads + 1 \in Nat
    <3>1. F!Idle \in ReqType
      BY IdleReqFits
    <3>2. uploads + 1 \in Nat
      BY UploadsFit
    <3>3. QED
      BY <3>1, <3>2
  <2>2. p.pc = "write" /\ p.op = "store" /\ p.n = uploads + 1 /\ p.row = [F!NoRow EXCEPT !.type = type]
    BY <1>3, <2>1 DEF ReqType
  <2>3. p \in ReqType
    BY <1>2, <1>3, <2>1 DEF ReqType, ReqPcs
  <2>4. QED
    BY <1>2, <2>2, <2>3
<1>5. req' = [req EXCEPT ![r] = p]
  BY <1>1
<1> HIDE DEF p
<1>6. Begins(req[r], p) /\ LinksFit
  BY <1>4 DEF F!Upload, F!At, Begins, LinksFit
<1>7. QED
  BY <1>4, <1>5, <1>6 DEF MovesOne, MovesTo

LEMMA MovesWrite == ASSUME SizesFit, FileShape, NEW r \in Requests, F!WriteFile(r) PROVE \E p : MovesOne(r, p)
<1> DEFINE p == GoesTo(req[r], "insert")
<1>1. p \in ReqType /\ req' = [req EXCEPT ![r] = p]
  BY AtRequest DEF F!WriteFile, F!Goes, GoesTo, ReqType, ReqPcs
<1>2. WritesFile(req[r], p) /\ LinksFit
  BY DEF F!WriteFile, F!At, WritesFile, LinksFit
<1> HIDE DEF p
<1>3. QED
  BY <1>1, <1>2 DEF MovesOne, MovesTo

LEMMA MovesInsert == ASSUME SizesFit, FileShape, NEW r \in Requests, F!Insert(r) PROVE \E p : MovesOne(r, p)
<1> DEFINE q == req[r]
           row == [q.row EXCEPT !.is = "live"]
<1>1. q \in ReqType /\ row \in FileRows /\ row.type = q.row.type
  BY AtRequest DEF ReqType, FileRows
<1>2. /\ q.pc = "insert" /\ files' = [files EXCEPT ![q.n] = row] /\ UNCHANGED <<disk, uploads, links, broken>>
      /\ IF row.type = "text" THEN F!Answer(r, 201) ELSE req' = [req EXCEPT ![r].row = row, ![r].pc = "metadata"]
  BY DEF F!Insert, F!At
<1>3. CASE row.type = "text"
  <2>1. PICK p \in ReqType : req' = [req EXCEPT ![r] = p] /\ Ends(req[r], p)
    BY <1>2, <1>3, Answered DEF FileShape
  <2>2. InsertsRow(req[r], p) /\ LinksFit
    BY <1>2, <2>1 DEF InsertsRow, Ends, LinksFit
  <2>3. QED
    BY <2>1, <2>2 DEF MovesOne, MovesTo
<1>4. CASE row.type # "text"
  <2> DEFINE p == [q EXCEPT !.row = row, !.pc = "metadata"]
  <2>1. req' = [req EXCEPT ![r] = p]
    BY <1>2, <1>4, AtRequest
  <2>2. p \in ReqType /\ p.row = row /\ p.pc = "metadata" /\ p.n = q.n /\ p.op = q.op
    BY <1>1 DEF ReqType, ReqPcs
  <2> HIDE DEF p
  <2>3. InsertsRow(req[r], p) /\ LinksFit
    BY <1>1, <1>2, <1>4, <2>2 DEF InsertsRow, SameFile, LinksFit
  <2>4. QED
    BY <2>1, <2>2, <2>3 DEF MovesOne, MovesTo
<1>5. QED
  BY <1>3, <1>4

LEMMA MovesAsk == ASSUME SizesFit, FileShape, NEW r \in Requests, F!Ask(r) PROVE \E p : MovesOne(r, p)
<1>1. PICK n \in 1 .. uploads, op \in AskedOps, want \in Variety \cup {F!Main} :
        /\ op = "thumbnail" => want \in Variety
        /\ req' = [req EXCEPT ![r] = IF files[n].is = "none" THEN [F!Idle EXCEPT !.ans = 422]
                                     ELSE [F!Idle EXCEPT !.pc = "find", !.op = op, !.n = n, !.want = want]]
  <2>1. F!Wanted = Variety
    BY DEF F!Wanted, Variety, SizeSet, Formatted
  <2>2. PICK n \in 1 .. uploads, op \in F!Reads \union {"thumbnail", "regenerate", "destroy"} :
          \E want \in IF op = "thumbnail" THEN F!Wanted ELSE {F!Main} :
            req' = [req EXCEPT ![r] = IF files[n].is = "none" THEN [F!Idle EXCEPT !.ans = 422]
                                      ELSE [F!Idle EXCEPT !.pc = "find", !.op = op, !.n = n, !.want = want]]
    BY DEF F!Ask
  <2>3. PICK want \in IF op = "thumbnail" THEN F!Wanted ELSE {F!Main} :
            req' = [req EXCEPT ![r] = IF files[n].is = "none" THEN [F!Idle EXCEPT !.ans = 422]
                                      ELSE [F!Idle EXCEPT !.pc = "find", !.op = op, !.n = n, !.want = want]]
    BY <2>2
  <2>4. op \in AskedOps /\ want \in Variety \cup {F!Main} /\ (op = "thumbnail" => want \in Variety)
    BY <2>1 DEF AskedOps
  <2> HIDE DEF F!Main
  <2>5. QED
    BY <2>3, <2>4
<1>2. CASE files[n].is = "none"
  <2> DEFINE p == [F!Idle EXCEPT !.ans = 422]
  <2>1. p \in ReqType /\ p.pc = "idle" /\ p.op = ""
    <3>1. F!Idle \in ReqType /\ F!Idle.pc = "idle" /\ F!Idle.op = ""
      BY IdleReqFits
    <3>2. 422 \in Nat
      OBVIOUS
    <3>3. p.pc = "idle" /\ p.op = ""
      BY <3>1 DEF ReqType
    <3>4. p \in ReqType
      BY <3>1, <3>2 DEF ReqType
    <3>5. QED
      BY <3>3, <3>4
  <2>2. req' = [req EXCEPT ![r] = p]
    BY <1>1, <1>2
  <2> HIDE DEF p
  <2>3. Begins(req[r], p) /\ LinksFit
    BY <2>1 DEF F!Ask, F!At, Begins, LinksFit
  <2>4. QED
    BY <2>1, <2>2, <2>3 DEF MovesOne, MovesTo
<1>3. CASE files[n].is # "none"
  <2> DEFINE p == [F!Idle EXCEPT !.pc = "find", !.op = op, !.n = n, !.want = want]
  <2>1. p \in ReqType /\ p.pc = "find" /\ p.op = op /\ p.n = n /\ ~p.again /\ p.want = want
    <3>1. F!Idle \in ReqType /\ n \in Nat /\ ~F!Idle.again
      BY IdleReqFits, UploadsFit
    <3>2. p.pc = "find" /\ p.op = op /\ p.n = n /\ p.again = F!Idle.again /\ p.want = want
      BY <3>1 DEF ReqType
    <3>3. p \in ReqType
      BY <3>1 DEF ReqType, ReqPcs
    <3>4. QED
      BY <3>1, <3>2, <3>3
  <2>2. req' = [req EXCEPT ![r] = p]
    BY <1>1, <1>3
  <2> HIDE DEF p
  <2>3. Begins(req[r], p) /\ LinksFit
    BY <1>1, <1>3, <2>1 DEF F!Ask, F!At, Begins, LinksFit
  <2>4. QED
    BY <2>1, <2>2, <2>3 DEF MovesOne, MovesTo
<1>4. QED
  BY <1>2, <1>3

LEMMA MovesOpen == ASSUME SizesFit, FileShape, NEW r \in Requests, F!Open(r) PROVE \E p : MovesOne(r, p)
<1>1. PICK l \in links, want \in Variety \cup {F!Main} :
        /\ l[2] = "thumbnail" => want \in Variety
        /\ req' = [req EXCEPT ![r] = [F!Idle EXCEPT !.pc = "find", !.op = l[2], !.n = l[1], !.want = want]]
  BY DEF F!Open, F!Wanted, Variety, SizeSet, Formatted
<1> DEFINE p == [F!Idle EXCEPT !.pc = "find", !.op = l[2], !.n = l[1], !.want = want]
<1>2. l[1] \in 1 .. uploads /\ files[l[1]].is # "none" /\ l[2] \in {"download", "thumbnail"}
  BY DEF FileShape, RowsFit
<1>3. p \in ReqType /\ p.pc = "find" /\ p.op = l[2] /\ p.n = l[1] /\ ~p.again /\ p.want = want
  <2>1. F!Idle \in ReqType /\ l[1] \in Nat /\ ~F!Idle.again
    BY <1>2, IdleReqFits, UploadsFit
  <2>2. p.pc = "find" /\ p.op = l[2] /\ p.n = l[1] /\ p.again = F!Idle.again /\ p.want = want
    BY <2>1 DEF ReqType
  <2>3. l[2] \in AskedOps
    BY <1>2 DEF AskedOps, F!Reads
  <2>4. p \in ReqType
    BY <2>1, <2>3 DEF ReqType, ReqPcs
  <2>5. QED
    BY <2>1, <2>2, <2>4
<1>4. req' = [req EXCEPT ![r] = p]
  BY <1>1
<1> HIDE DEF p
<1>5. Begins(req[r], p) /\ LinksFit
  BY <1>1, <1>2, <1>3 DEF F!Open, F!At, Begins, LinksFit, AskedOps, F!Reads
<1>6. QED
  BY <1>3, <1>4, <1>5 DEF MovesOne, MovesTo

LEMMA MovesFind == ASSUME SizesFit, FileShape, NEW r \in Requests, F!Find(r) PROVE \E p : MovesOne(r, p)
<1> DEFINE q == req[r]
           row == files[q.n]
<1>1. /\ q \in ReqType /\ q.pc = "find" /\ q.op \in AskedOps /\ q.n \in 1 .. uploads /\ row.is # "none"
      /\ Stays
  BY AtRequest DEF F!Find, F!At, ReqFits, Stays
<1>2. LinksFit
  BY <1>1 DEF F!Find, LinksFit
<1>3. ASSUME NEW code \in Nat, F!Answer(r, code),
             Live(q.n) /\ q.op \in {"show", "download", "view"} /\ F!Path(q.n, F!Main) \in disk => code = 200,
             ~(Live(q.n) /\ q.op = "thumbnail" /\ row.type # "text")
      PROVE  \E p : MovesOne(r, p)
  <2>1. PICK p \in ReqType : req' = [req EXCEPT ![r] = p] /\ Ends(req[r], p) /\ p.ans = code
    BY <1>3, Answered DEF FileShape
  <2>2. Answers(req[r], p)
    BY <1>1, <1>3, <2>1 DEF Answers
  <2>3. QED
    BY <1>2, <2>1, <2>2 DEF MovesOne, MovesTo
<1>4. ASSUME Live(q.n), q.op \in {"thumbnail", "regenerate", "destroy"}, q.op # "destroy" => row.type # "text",
             req' = F!Goes(r, "findAgain")
      PROVE  \E p : MovesOne(r, p)
  <2> DEFINE p == GoesTo(q, "findAgain")
  <2>1. /\ p \in ReqType /\ req' = [req EXCEPT ![r] = p]
        /\ p.pc = "findAgain" /\ p.n = q.n /\ p.op = q.op /\ p.want = q.want /\ p.again = q.again
    BY <1>4, AtRequest DEF F!Goes, GoesTo, ReqType, ReqPcs
  <2> HIDE DEF p
  <2>2. Looks(req[r], p)
    BY <1>1, <1>4, <2>1 DEF Looks, SameFile
  <2>3. QED
    BY <1>2, <2>1, <2>2 DEF MovesOne, MovesTo
<1>5. \/ row.is # "live" /\ F!Answer(r, 404)
      \/ row.is = "live" /\ q.op = "show" /\ F!Answer(r, 200)
      \/ /\ row.is = "live" /\ q.op \in {"download", "view"}
         /\ F!Answer(r, IF F!Path(q.n, F!Main) \in disk THEN 200 ELSE 404)
      \/ row.is = "live" /\ q.op = "signedUrl" /\ F!Answer(r, 200)
      \/ row.is = "live" /\ q.op = "signedThumbnailUrl" /\ (F!Answer(r, 404) \/ F!Answer(r, 200))
      \/ /\ row.is = "live" /\ q.op \in {"thumbnail", "regenerate"}
         /\ IF row.type = "text" THEN F!Answer(r, 404) ELSE req' = F!Goes(r, "findAgain")
      \/ row.is = "live" /\ q.op = "destroy" /\ (req' = F!Goes(r, "findAgain") \/ F!Answer(r, 403))
  BY DEF F!Find
<1>6. QED
  BY <1>3, <1>4, <1>5 DEF Live

\* What is unlinked are paths of the file.
LEMMA UnlinkedFits ==
  ASSUME SizesFit, NEW row \in FileRows
  PROVE  /\ F!Unlinked(row) \in Seq(Todo)
         /\ F!Main \in F!ToSet(F!Unlinked(row))
         /\ row.thumbs # {} => AllThumbs(row.type) \subseteq F!ToSet(F!Unlinked(row))
<1> DEFINE rest == IF row.thumbs = {} THEN <<>> ELSE F!Variants(row.type)
<1>1. row.type \in F!Types
  BY DEF FileRows
<1>2. F!Variants(row.type) \in Seq(Variety) /\ <<>> \in Seq(Variety)
  BY <1>1, VariantsListed
<1>3. rest \in Seq(Variety)
  BY <1>2
<1> HIDE DEF rest, F!Main
<1>4. F!Unlinked(row) = <<F!Main>> \o rest
  BY DEF F!Unlinked, rest
<1>5. <<F!Main>> \in Seq(Todo) /\ rest \in Seq(Todo)
  BY <1>3 DEF Todo
<1>6. /\ F!Unlinked(row) \in Seq(Todo) /\ Len(F!Unlinked(row)) = 1 + Len(rest) /\ F!Unlinked(row)[1] = F!Main
      /\ \A i \in 1 .. Len(rest) : F!Unlinked(row)[i + 1] = rest[i]
  BY <1>4, <1>5
<1>7. DOMAIN F!Unlinked(row) = 1 .. 1 + Len(rest) /\ Len(rest) \in Nat /\ DOMAIN rest = 1 .. Len(rest)
  BY <1>5, <1>6
<1>8. F!Main \in F!ToSet(F!Unlinked(row))
  BY <1>6, <1>7 DEF F!ToSet
<1>9. F!ToSet(rest) \subseteq F!ToSet(F!Unlinked(row))
  <2>1. \A i \in 1 .. Len(rest) : i + 1 \in DOMAIN F!Unlinked(row)
    BY <1>7
  <2>2. QED
    BY <1>6, <1>7, <2>1 DEF F!ToSet
<1>10. row.thumbs # {} => F!ToSet(rest) = AllThumbs(row.type)
  BY DEF rest, AllThumbs
<1>11. QED
  BY <1>6, <1>8, <1>9, <1>10

LEMMA MovesFindAgain == ASSUME SizesFit, FileShape, NEW r \in Requests, F!FindAgain(r) PROVE \E p : MovesOne(r, p)
<1> DEFINE q == req[r]
           row == files[q.n]
<1>1. /\ q \in ReqType /\ q.pc = "findAgain" /\ q.op \in {"destroy", "regenerate", "thumbnail"}
      /\ q.op # "destroy" => row.type # "text"
      /\ q.n \in 1 .. uploads /\ row.is # "none" /\ row \in FileRows /\ Stays
  BY AtRequest DEF F!FindAgain, F!At, ReqFits, Stays
<1>2. LinksFit
  BY DEF F!FindAgain, LinksFit
<1>3. CASE row.is # "live"
  <2>1. \E code \in Nat : F!Answer(r, code)
    BY <1>3 DEF F!FindAgain
  <2>2. PICK p \in ReqType : req' = [req EXCEPT ![r] = p] /\ Ends(req[r], p)
    BY <2>1, Answered DEF FileShape
  <2>3. Answers(req[r], p)
    BY <1>1, <1>3, <2>2 DEF Answers, Live
  <2>4. QED
    BY <1>2, <2>2, <2>3 DEF MovesOne, MovesTo
<1>4. CASE row.is = "live" /\ q.op = "destroy"
  <2> DEFINE p == [q EXCEPT !.row = row, !.pc = "unlink", !.todo = F!Unlinked(row)]
  <2>1. req' = [[req EXCEPT ![r].row = row] EXCEPT ![r].pc = "unlink", ![r].todo = F!Unlinked(row)]
    BY <1>1, <1>4 DEF F!FindAgain
  <2>2. req' = [req EXCEPT ![r] = p]
    BY <1>1, <2>1, AtRequest
  <2>3. F!Unlinked(row) \in Seq(Todo)
    BY <1>1, UnlinkedFits
  <2>4. p \in ReqType
    BY <1>1, <2>3 DEF ReqType, ReqPcs
  <2>5. p.pc = "unlink" /\ p.todo = F!Unlinked(row) /\ p.n = q.n /\ p.op = q.op
    BY <1>1 DEF ReqType
  <2> HIDE DEF p
  <2>6. Dooms(req[r], p)
    BY <1>1, <1>4, <2>5 DEF Dooms, SameFile, Live
  <2>7. QED
    BY <1>2, <2>2, <2>4, <2>6 DEF MovesOne, MovesTo
<1>5. CASE row.is = "live" /\ q.op # "destroy"
  <2>1. PICK pc \in {"metadata", "choose"} :
           /\ pc = "choose" => q.op = "thumbnail"
           /\ req' = [[req EXCEPT ![r].row = row] EXCEPT ![r].pc = pc]
    <3>1. CASE q.op = "regenerate"
      BY <1>1, <1>5, <3>1 DEF F!FindAgain
    <3>2. CASE q.op = "thumbnail"
      <4>1. req' = [[req EXCEPT ![r].row = row] EXCEPT ![r].pc = IF row.thumbs = {} THEN "metadata" ELSE "choose"]
        BY <1>1, <1>5, <3>2 DEF F!FindAgain
      <4>2. QED
        BY <3>2, <4>1
    <3>3. QED
      BY <1>1, <1>5, <3>1, <3>2
  <2> DEFINE p == [q EXCEPT !.row = row, !.pc = pc]
  <2>2. req' = [req EXCEPT ![r] = p]
    BY <1>1, <2>1, AtRequest
  <2>3. p \in ReqType
    BY <1>1, <2>1 DEF ReqType, ReqPcs
  <2>4. p.pc = pc /\ p.row = row /\ p.n = q.n /\ p.op = q.op /\ p.want = q.want /\ p.again = q.again
    BY <1>1 DEF ReqType
  <2> HIDE DEF p
  <2>5. Looks(req[r], p)
    BY <1>1, <1>5, <2>1, <2>4 DEF Looks, SameFile, Live
  <2>6. QED
    BY <1>2, <2>2, <2>3, <2>5 DEF MovesOne, MovesTo
<1>6. QED
  BY <1>3, <1>4, <1>5

LEMMA MovesMetadata == ASSUME SizesFit, FileShape, NEW r \in Requests, F!Metadata(r) PROVE \E p : MovesOne(r, p)
<1> DEFINE q == req[r]
<1>1. /\ q \in ReqType /\ q.pc = "metadata" /\ q.op \in {"store", "regenerate", "thumbnail"}
      /\ q.row \in FileRows /\ q.row.thumbs \in SUBSET Variety /\ Stays /\ q.row.type \in F!Types
  BY AtRequest DEF F!Metadata, F!At, ReqFits, Stays, ReqType, FileRows
<1>2. LinksFit
  BY DEF F!Metadata, LinksFit
<1>3. CASE F!Path(q.n, F!Main) \in disk
  <2> DEFINE todo == F!Jobs(q.row, q.op = "regenerate")
             p == [q EXCEPT !.pc = "make", !.todo = todo]
  <2>1. req' = [req EXCEPT ![r].pc = "make", ![r].todo = todo]
    BY <1>3 DEF F!Metadata
  <2>2. req' = [req EXCEPT ![r] = p]
    BY <2>1, AtRequest
  <2>3. todo \in Seq(Todo)
    <3>1. (q.op = "regenerate") \in BOOLEAN
      OBVIOUS
    <3>2. todo \in Seq({"unlink", "make"} \X AllThumbs(q.row.type))
      BY <1>1, <3>1, JobsListed
    <3>3. {"unlink", "make"} \X AllThumbs(q.row.type) \subseteq Todo
      BY <1>1, VariantsListed DEF Todo
    <3> HIDE DEF todo
    <3>4. QED
      BY <3>2, <3>3
  <2> HIDE DEF todo
  <2>4. p \in ReqType
    BY <1>1, <2>3 DEF ReqType, ReqPcs
  <2>5. Plans(req[r], p)
    BY <1>1, <1>3 DEF Plans, todo
  <2> HIDE DEF p
  <2>6. QED
    BY <1>2, <2>2, <2>4, <2>5 DEF MovesOne, MovesTo
<1>4. CASE F!Path(q.n, F!Main) \notin disk
  <2>1. PICK p \in ReqType : req' = [req EXCEPT ![r] = p] /\ Leaves(req[r], p, q.row.thumbs)
    BY <1>1, <1>4, LeftWith DEF F!Metadata, FileShape
  <2>2. GivesUp(req[r], p)
    BY <1>1, <1>4, <2>1 DEF GivesUp
  <2>3. QED
    BY <1>2, <2>1, <2>2 DEF MovesOne, MovesTo
<1>5. QED
  BY <1>3, <1>4

LEMMA TailFits == ASSUME NEW S, NEW s \in Seq(S), s # <<>>
                  PROVE  /\ Tail(s) \in Seq(S) /\ Head(s) = s[1] /\ s[1] \in S /\ 1 \in DOMAIN s
                         /\ DOMAIN s = 1 .. Len(s) /\ DOMAIN Tail(s) = 1 .. Len(s) - 1 /\ Len(s) \in Nat
                         /\ \A i \in 1 .. Len(s) - 1 : Tail(s)[i] = s[i + 1]
OBVIOUS

LEMMA MovesMake == ASSUME SizesFit, FileShape, NEW r \in Requests, F!Make(r) PROVE \E p : MovesOne(r, p)
<1> DEFINE q == req[r]
<1>1. /\ q \in ReqType /\ q.pc = "make" /\ q.op \in {"store", "regenerate", "thumbnail"}
      /\ q.row.thumbs \in SUBSET Variety /\ UNCHANGED <<files, uploads, broken>> /\ q.todo \in Seq(Todo)
  BY AtRequest DEF F!Make, F!At, ReqFits, ReqType, FileRows, MakerPcs
<1>2. LinksFit
  BY DEF F!Make, LinksFit
<1>3. CASE q.todo = <<>>
  <2> DEFINE p == GoesTo(q, "record")
  <2>1. req' = F!Goes(r, "record") /\ UNCHANGED disk
    BY <1>3 DEF F!Make
  <2>2. req' = [req EXCEPT ![r] = p] /\ p \in ReqType
    BY <1>1, <2>1, AtRequest DEF F!Goes, GoesTo, ReqType, ReqPcs
  <2>3. Finishes(req[r], p)
    BY <1>1, <1>3, <2>1 DEF Finishes, Stays
  <2> HIDE DEF p
  <2>4. QED
    BY <1>2, <2>2, <2>3 DEF MovesOne, MovesTo
<1>4. CASE q.todo # <<>>
  <2>1. Tail(q.todo) \in Seq(Todo) /\ Head(q.todo) = q.todo[1]
    BY <1>1, <1>4, TailFits
  <2> DEFINE p == NextTodo(q)
  <2>2. p \in ReqType
    BY <1>1, <2>1 DEF NextTodo, ReqType
  <2>3. ASSUME req' = [req EXCEPT ![r].todo = Tail(@)]
        PROVE  req' = [req EXCEPT ![r] = p]
    BY <2>3, AtRequest DEF NextTodo
  <2>4. CASE Head(q.todo)[1] = "unlink"
    <3>1. disk' = disk \ {F!Path(q.n, q.todo[1][2])} /\ req' = [req EXCEPT ![r].todo = Tail(@)]
      BY <1>4, <2>1, <2>4 DEF F!Make
    <3>2. Clears(req[r], p)
      BY <1>1, <1>4, <2>1, <2>4, <3>1 DEF Clears
    <3> HIDE DEF p
    <3>3. QED
      BY <1>2, <2>2, <2>3, <3>1, <3>2 DEF MovesOne, MovesTo
  <2>5. CASE Head(q.todo)[1] = "make"
    <3>1. UNCHANGED disk /\ Stays
      BY <1>1, <1>4, <2>5 DEF F!Make, Stays
    <3>2. CASE F!Path(q.n, Head(q.todo)[2]) \in disk
      <4>1. req' = [req EXCEPT ![r].todo = Tail(@)]
        BY <1>4, <2>5, <3>2 DEF F!Make
      <4>2. Passes(req[r], p)
        BY <1>1, <1>4, <2>1, <2>5, <3>1, <3>2 DEF Passes
      <4> HIDE DEF p
      <4>3. QED
        BY <1>2, <2>2, <2>3, <4>1, <4>2 DEF MovesOne, MovesTo
    <3>3. CASE F!Path(q.n, Head(q.todo)[2]) \notin disk /\ F!Path(q.n, F!Main) \in disk
      <4> DEFINE o == GoesTo(q, "making")
      <4>1. req' = F!Goes(r, "making")
        BY <1>4, <2>5, <3>3 DEF F!Make
      <4>2. req' = [req EXCEPT ![r] = o] /\ o \in ReqType
        BY <1>1, <4>1, AtRequest DEF F!Goes, GoesTo, ReqType, ReqPcs
      <4>3. Starts(req[r], o)
        BY <1>1, <1>4, <2>1, <2>5, <3>1 DEF Starts
      <4> HIDE DEF o
      <4>4. QED
        BY <1>2, <4>2, <4>3 DEF MovesOne, MovesTo
    <3>4. CASE F!Path(q.n, Head(q.todo)[2]) \notin disk /\ F!Path(q.n, F!Main) \notin disk
      <4>1. F!Generated(r, q.row.thumbs)
        BY <1>4, <2>5, <3>4 DEF F!Make
      <4>2. PICK o \in ReqType : req' = [req EXCEPT ![r] = o] /\ Leaves(req[r], o, q.row.thumbs)
        BY <1>1, <4>1, LeftWith DEF FileShape
      <4>3. GivesUp(req[r], o)
        BY <1>1, <3>1, <3>4, <4>2 DEF GivesUp
      <4>4. QED
        BY <1>2, <4>2, <4>3 DEF MovesOne, MovesTo
    <3>5. QED
      BY <3>2, <3>3, <3>4
  <2>6. QED
    BY <1>4, <2>4, <2>5 DEF F!Make
<1>5. QED
  BY <1>3, <1>4

LEMMA MovesMade == ASSUME SizesFit, FileShape, NEW r \in Requests, F!Made(r) PROVE \E p : MovesOne(r, p)
<1> DEFINE q == req[r]
           p == GoesTo(NextTodo(q), "make")
<1>1. q \in ReqType /\ q.pc = "making" /\ q.todo # <<>> /\ q.todo \in Seq(Todo)
  BY AtRequest DEF F!Made, F!At, ReqFits, ReqType
<1>2. Tail(q.todo) \in Seq(Todo) /\ Head(q.todo) = q.todo[1]
  BY <1>1, TailFits
<1>3. req' = [req EXCEPT ![r].pc = "make", ![r].todo = Tail(@)]
  BY DEF F!Made
<1>4. req' = [req EXCEPT ![r] = p]
  BY <1>1, <1>3, AtRequest DEF GoesTo, NextTodo, ReqType
<1>5. p \in ReqType
  BY <1>1, <1>2 DEF GoesTo, NextTodo, ReqType, ReqPcs
<1>6. Makes(req[r], p)
  BY <1>1, <1>2 DEF F!Made, Makes
<1>7. LinksFit
  BY DEF F!Made, LinksFit
<1> HIDE DEF p
<1>8. QED
  BY <1>4, <1>5, <1>6, <1>7 DEF MovesOne, MovesTo

LEMMA MovesRecord == ASSUME SizesFit, FileShape, NEW r \in Requests, F!Record(r) PROVE \E p : MovesOne(r, p)
<1> DEFINE q == req[r]
           thumbs == q.row.thumbs \cup AllThumbs(q.row.type)
<1>1. /\ q \in ReqType /\ q.pc = "record" /\ q.op \in {"store", "regenerate", "thumbnail"}
      /\ q.row.thumbs \in SUBSET Variety /\ q.row.type \in F!Types
  BY AtRequest DEF F!Record, F!At, ReqFits, ReqType, FileRows, MakerPcs
<1>2. thumbs \in SUBSET Variety
  BY <1>1, VariantsListed
<1>3. files' = [files EXCEPT ![q.n].thumbs = thumbs] /\ F!Generated(r, thumbs) /\ UNCHANGED <<disk, uploads, links, broken>>
  BY DEF F!Record, AllThumbs
<1>4. PICK p \in ReqType : req' = [req EXCEPT ![r] = p] /\ Leaves(req[r], p, thumbs)
  BY <1>1, <1>2, <1>3, LeftWith DEF FileShape
<1>5. Records(req[r], p) /\ LinksFit
  BY <1>1, <1>3, <1>4 DEF Records, LinksFit
<1>6. QED
  BY <1>4, <1>5 DEF MovesOne, MovesTo

LEMMA MovesChoose == ASSUME SizesFit, FileShape, NEW r \in Requests, F!Choose(r) PROVE \E p : MovesOne(r, p)
<1> DEFINE q == req[r]
           webp == <<q.want[1], "webp">>
           Served(v) == F!Answer(r, IF v \in q.row.thumbs /\ F!Path(q.n, v) \in disk THEN 200 ELSE 404)
<1>1. /\ q \in ReqType /\ q.pc = "choose" /\ q.op = "thumbnail" /\ q.want \in Variety
      /\ q.n \in 1 .. uploads /\ Stays
  BY AtRequest DEF F!Choose, F!At, ReqFits, Stays
<1>2. LinksFit
  BY DEF F!Choose, LinksFit
<1>3. ASSUME NEW v \in {q.want, webp}, Served(v), q.again => v = webp, ~q.again => v \in q.row.thumbs
      PROVE  \E p : MovesOne(r, p)
  <2>1. \E code \in Nat : F!Answer(r, code) /\ (v \in q.row.thumbs /\ F!Path(q.n, v) \in disk => code = 200)
    BY <1>3
  <2>2. PICK p \in ReqType : /\ req' = [req EXCEPT ![r] = p] /\ Ends(req[r], p)
                             /\ v \in q.row.thumbs /\ F!Path(q.n, v) \in disk => p.ans = 200
    BY <2>1, Answered DEF FileShape
  <2>3. Answers(req[r], p)
    BY <1>1, <1>3, <2>2 DEF Answers
  <2>4. QED
    BY <1>2, <2>2, <2>3 DEF MovesOne, MovesTo
<1>4. CASE q.again
  <2>1. Served(webp)
    BY <1>4 DEF F!Choose
  <2>2. QED
    BY <1>3, <1>4, <2>1
<1>5. CASE ~q.again /\ q.want \in q.row.thumbs
  <2>1. Served(q.want)
    BY <1>5 DEF F!Choose
  <2>2. QED
    BY <1>3, <1>5, <2>1
<1>6. CASE ~q.again /\ q.want \notin q.row.thumbs
  <2>1. PICK size \in SizeSet : req' = [req EXCEPT ![r].pc = "metadata", ![r].again = TRUE, ![r].want[1] = size]
    <3>1. Sizes[1] \in SizeSet /\ q.want[1] \in SizeSet
      BY <1>1, AtRequest DEF Variety
    <3>2. QED
      BY <1>6, <3>1 DEF F!Choose
  <2> DEFINE want == [q.want EXCEPT ![1] = size]
             p == [q EXCEPT !.pc = "metadata", !.again = TRUE, !.want = want]
  <2>2. want \in Variety
    <3>1. PICK a \in SizeSet, b \in Formatted : q.want = <<a, b>>
      BY <1>1 DEF Variety
    <3>2. want = <<size, b>>
      BY <3>1
    <3>3. QED
      BY <3>2 DEF Variety
  <2>3. req' = [req EXCEPT ![r] = p]
    BY <1>1, <2>1, AtRequest DEF ReqType
  <2> HIDE DEF want
  <2>4. p \in ReqType
    BY <1>1, <2>2 DEF ReqType, ReqPcs
  <2>5. p.pc = "metadata" /\ p.row = q.row /\ p.want = want /\ p.n = q.n /\ p.op = q.op
    BY <1>1 DEF ReqType
  <2> HIDE DEF p
  <2>6. Looks(req[r], p)
    BY <1>1, <2>2, <2>5 DEF Looks, SameFile
  <2>7. QED
    BY <1>2, <2>3, <2>4, <2>6 DEF MovesOne, MovesTo
<1>7. QED
  BY <1>4, <1>5, <1>6

LEMMA MovesUnlink == ASSUME SizesFit, FileShape, NEW r \in Requests, F!Unlink(r) PROVE \E p : MovesOne(r, p)
<1> DEFINE q == req[r]
<1>1. q \in ReqType /\ q.pc = "unlink" /\ q.todo \in Seq(Todo) /\ UNCHANGED <<files, uploads, broken>>
  BY AtRequest DEF F!Unlink, F!At, ReqType
<1>2. LinksFit
  BY DEF F!Unlink, LinksFit
<1>3. CASE q.todo = <<>>
  <2> DEFINE p == GoesTo(q, "remove")
  <2>1. req' = F!Goes(r, "remove") /\ UNCHANGED disk
    BY <1>3 DEF F!Unlink
  <2>2. req' = [req EXCEPT ![r] = p] /\ p \in ReqType
    BY <1>1, <2>1, AtRequest DEF F!Goes, GoesTo, ReqType, ReqPcs
  <2>3. UnlinksLast(req[r], p)
    BY <1>1, <1>3, <2>1 DEF UnlinksLast, Stays
  <2> HIDE DEF p
  <2>4. QED
    BY <1>2, <2>2, <2>3 DEF MovesOne, MovesTo
<1>4. CASE q.todo # <<>>
  <2> DEFINE p == NextTodo(q)
  <2>1. Tail(q.todo) \in Seq(Todo) /\ Head(q.todo) = q.todo[1]
    BY <1>1, <1>4, TailFits
  <2>2. disk' = disk \ {F!Path(q.n, q.todo[1])} /\ req' = [req EXCEPT ![r].todo = Tail(@)]
    BY <1>4, <2>1 DEF F!Unlink
  <2>3. req' = [req EXCEPT ![r] = p]
    BY <2>2, AtRequest DEF NextTodo
  <2>4. p \in ReqType
    BY <1>1, <2>1 DEF NextTodo, ReqType
  <2>5. Unlinks(req[r], p)
    BY <1>1, <1>4, <2>2 DEF Unlinks
  <2> HIDE DEF p
  <2>6. QED
    BY <1>2, <2>3, <2>4, <2>5 DEF MovesOne, MovesTo
<1>5. QED
  BY <1>3, <1>4

LEMMA MovesRemove == ASSUME SizesFit, FileShape, NEW r \in Requests, F!RemoveRow(r) PROVE \E p : MovesOne(r, p)
<1>1. PICK p \in ReqType : req' = [req EXCEPT ![r] = p] /\ Ends(req[r], p)
  BY Answered DEF F!RemoveRow, FileShape
<1>2. RemovesRow(req[r], p) /\ LinksFit
  BY <1>1 DEF F!RemoveRow, F!At, RemovesRow, LinksFit
<1>3. QED
  BY <1>1, <1>2 DEF MovesOne, MovesTo

LEMMA MovesFail == ASSUME SizesFit, FileShape, NEW r \in Requests, F!Fail(r) PROVE \E p : MovesOne(r, p)
<1> DEFINE q == req[r]
<1>1. /\ q \in ReqType /\ q.row.thumbs \in SUBSET Variety /\ q.todo \in Seq(Todo)
      /\ broken' = broken \cup (IF q.pc = "write" THEN {} ELSE {q.n}) /\ UNCHANGED <<files, disk, uploads, links>>
  BY AtRequest DEF F!Fail, F!InTrouble, ReqType, FileRows
<1>2. LinksFit
  BY <1>1 DEF LinksFit
<1>3. CASE q.pc \in {"write", "insert", "remove"} /\ F!Answer(r, 500)
  <2>1. PICK p \in ReqType : req' = [req EXCEPT ![r] = p] /\ Ends(req[r], p)
    BY <1>3, Answered DEF FileShape
  <2>2. Spares(req[r], p) \/ Breaks(req[r], p)
    BY <1>1, <1>3, <2>1 DEF Spares, Stays, Breaks, Ends
  <2>3. QED
    BY <1>2, <2>1, <2>2 DEF MovesOne, MovesTo
<1>4. CASE q.pc \in {"metadata", "making", "record"} /\ F!Generated(r, q.row.thumbs)
  <2>1. q.op \in {"store", "regenerate", "thumbnail"}
    BY <1>4, AtRequest DEF ReqFits, MakerPcs
  <2>2. PICK p \in ReqType : req' = [req EXCEPT ![r] = p] /\ Leaves(req[r], p, q.row.thumbs)
    BY <1>1, <1>4, <2>1, LeftWith DEF FileShape
  <2>3. Breaks(req[r], p)
    BY <1>1, <1>4, <2>2 DEF Breaks
  <2>4. QED
    BY <1>2, <2>2, <2>3 DEF MovesOne, MovesTo
<1>5. CASE q.pc = "unlink" /\ q.todo # <<>> /\ req' = [req EXCEPT ![r].todo = Tail(@)]
  <2> DEFINE p == NextTodo(q)
  <2>1. Tail(q.todo) \in Seq(Todo)
    BY <1>1, <1>5, TailFits
  <2>2. req' = [req EXCEPT ![r] = p]
    BY <1>5, AtRequest DEF NextTodo
  <2>3. p \in ReqType
    BY <1>1, <2>1 DEF NextTodo, ReqType
  <2>4. Breaks(req[r], p)
    BY <1>1, <1>5 DEF Breaks
  <2> HIDE DEF p
  <2>5. QED
    BY <1>2, <2>2, <2>3, <2>4 DEF MovesOne, MovesTo
<1>6. QED
  BY <1>3, <1>4, <1>5 DEF F!Fail

\* Every step is a move of one request, the death of the process, or only
\* drops a link.
LEMMA FileMoves ==
  ASSUME SizesFit, FileShape, F!Next
  PROVE  (\E r \in Requests : \E p : MovesOne(r, p)) \/ Crashed \/ Expired
<1>1. CASE F!Expire
  BY <1>1 DEF F!Expire, Expired
<1>2. CASE F!Crash
  BY <1>2 DEF F!Crash, Crashed, F!InTrouble, F!At
<1>3. ASSUME NEW r \in Requests,
             \/ F!Upload(r) \/ F!WriteFile(r) \/ F!Insert(r) \/ F!Ask(r) \/ F!Open(r) \/ F!Find(r) \/ F!FindAgain(r)
             \/ F!Metadata(r) \/ F!Make(r) \/ F!Made(r) \/ F!Record(r) \/ F!Choose(r) \/ F!Unlink(r) \/ F!RemoveRow(r) \/ F!Fail(r)
      PROVE  \E p : MovesOne(r, p)
  BY <1>3, MovesUpload, MovesWrite, MovesInsert, MovesAsk, MovesOpen, MovesFind, MovesFindAgain, MovesMetadata,
     MovesMake, MovesMade, MovesRecord, MovesChoose, MovesUnlink, MovesRemove, MovesFail
<1>4. QED
  BY <1>1, <1>2, <1>3 DEF F!Next

-----------------------------------------------------------------------------
(* Rows stay, keep their type and gain thumbnails. *)
Grown(n) == /\ files[n].is # "none" => /\ files'[n].is # "none" /\ files'[n].type = files[n].type
                                       /\ files[n].thumbs \subseteq files'[n].thumbs
                                       /\ files'[n].is = "live" => files[n].is = "live"
            /\ files[n].is = "none" /\ files'[n] # files[n] =>
                  \E s \in Requests : req[s].pc = "insert" /\ req[s].n = n
RowFits(n) == /\ files[n].thumbs \in {{}, AllThumbs(files[n].type)}
              /\ files[n].is = "none" => files[n].thumbs = {}
              /\ n > uploads => files[n].is = "none"

LEMMA FileRowsGrow ==
  ASSUME SizesFit, FileShape, NEW r \in Requests, NEW p, MovesOne(r, p)
  PROVE  /\ files' \in [F!Uploads -> FileRows] /\ uploads' \in 0 .. MaxUploads /\ uploads <= uploads'
         /\ \A n \in F!Uploads : Grown(n) /\ RowFits(n)'
<1> DEFINE q == req[r]
<1>1. /\ q \in ReqType /\ ReqFits(q) /\ files \in [F!Uploads -> FileRows] /\ uploads \in 0 .. MaxUploads
      /\ MaxUploads \in Nat /\ \A n \in F!Uploads : RowFits(n) /\ n \in Nat
  BY AtRequest DEF FileShape, FileTypes, RowsFit, RowFits, SizesFit, F!Uploads
<1>2. CASE files' = files /\ uploads' \in {uploads, uploads + 1} /\ uploads' \in 0 .. MaxUploads
  BY <1>1, <1>2 DEF Grown, RowFits
<1>3. CASE InsertsRow(q, p)
  <2>1. /\ q.n \in F!Uploads /\ q.n \in 1 .. uploads /\ files[q.n].is = "none" /\ q.row.thumbs = {} /\ q.row \in FileRows
        /\ files' = [files EXCEPT ![q.n] = [q.row EXCEPT !.is = "live"]] /\ uploads' = uploads /\ q.pc = "insert"
    BY <1>1, <1>3, AtRequest DEF InsertsRow, ReqFits, ReqType
  <2> DEFINE row == [q.row EXCEPT !.is = "live"]
  <2>2. row \in FileRows /\ row.is = "live" /\ row.thumbs = {}
    BY <2>1 DEF FileRows
  <2>3. files' = [files EXCEPT ![q.n] = row]
    BY <2>1
  <2> HIDE DEF row
  <2>4. files' \in [F!Uploads -> FileRows]
    BY <1>1, <2>2, <2>3
  <2>5. ASSUME NEW n \in F!Uploads PROVE Grown(n) /\ RowFits(n)'
    <3>1. CASE n = q.n
      BY <1>1, <2>1, <2>2, <2>3, <3>1 DEF Grown, RowFits
    <3>2. CASE n # q.n
      BY <1>1, <2>1, <2>3, <3>2 DEF Grown, RowFits
    <3>3. QED
      BY <3>1, <3>2
  <2>6. QED
    BY <1>1, <2>1, <2>4, <2>5
<1>4. CASE Records(q, p)
  <2> DEFINE thumbs == q.row.thumbs \cup AllThumbs(q.row.type)
  <2>1. /\ q.n \in F!Uploads /\ q.n \in 1 .. uploads /\ files[q.n].is # "none" /\ files[q.n] \in FileRows
        /\ q.row.type = files[q.n].type /\ q.row.type \in F!Types /\ q.row \in FileRows
        /\ thumbs = AllThumbs(q.row.type)
        /\ files' = [files EXCEPT ![q.n].thumbs = thumbs] /\ uploads' = uploads
    <3>1. q.pc = "record" /\ q.row \in FileRows
      BY <1>1, <1>4 DEF Records, ReqType
    <3>2. q.row.type \in F!Types
      BY <3>1 DEF FileRows
    <3>3. q.row.thumbs \in {{}, AllThumbs(q.row.type)} /\ q.n \in 1 .. uploads /\ files[q.n].is # "none" /\ q.row.type = files[q.n].type
      BY <1>1, <3>1 DEF ReqFits, MakerPcs
    <3>4. QED
      BY <1>4, <3>1, <3>2, <3>3, AtRequest DEF Records
  <2> HIDE DEF thumbs
  <2>2. thumbs \in SUBSET Variety
    BY <2>1, VariantsListed
  <2> DEFINE row == [files[q.n] EXCEPT !.thumbs = thumbs]
  <2>3. row \in FileRows /\ row.is = files[q.n].is /\ row.type = files[q.n].type /\ row.thumbs = thumbs
    BY <2>1, <2>2 DEF FileRows
  <2>4. files' = [files EXCEPT ![q.n] = row]
    BY <1>1, <2>1
  <2>5. files[q.n].thumbs \subseteq thumbs
    BY <1>1, <2>1 DEF RowFits
  <2> HIDE DEF row
  <2>6. files' \in [F!Uploads -> FileRows]
    BY <1>1, <2>3, <2>4
  <2>7. ASSUME NEW n \in F!Uploads PROVE Grown(n) /\ RowFits(n)'
    <3>1. CASE n = q.n
      <4>1. files'[n] = row
        BY <1>1, <2>4, <3>1
      <4>2. Grown(n)
        BY <2>1, <2>3, <2>5, <3>1, <4>1 DEF Grown
      <4>3. RowFits(n)'
        BY <1>1, <2>1, <2>3, <3>1, <4>1 DEF RowFits
      <4>4. QED
        BY <4>2, <4>3
    <3>2. CASE n # q.n
      BY <1>1, <2>1, <2>4, <3>2 DEF Grown, RowFits
    <3>3. QED
      BY <3>1, <3>2
  <2>8. QED
    BY <1>1, <2>1, <2>6, <2>7
<1>5. CASE RemovesRow(q, p)
  <2>1. /\ q.n \in F!Uploads /\ q.n \in 1 .. uploads /\ files[q.n].is # "none" /\ files[q.n] \in FileRows
        /\ files' = [files EXCEPT ![q.n].is = "trashed"] /\ uploads' = uploads
    BY <1>1, <1>5, AtRequest DEF RemovesRow, ReqFits
  <2> DEFINE row == [files[q.n] EXCEPT !.is = "trashed"]
  <2>2. row \in FileRows /\ row.is = "trashed" /\ row.type = files[q.n].type /\ row.thumbs = files[q.n].thumbs
    BY <2>1 DEF FileRows
  <2>3. files' = [files EXCEPT ![q.n] = row]
    BY <1>1, <2>1
  <2> HIDE DEF row
  <2>4. files' \in [F!Uploads -> FileRows]
    BY <1>1, <2>2, <2>3
  <2>5. ASSUME NEW n \in F!Uploads PROVE Grown(n) /\ RowFits(n)'
    <3>1. CASE n = q.n
      BY <1>1, <2>1, <2>2, <2>3, <3>1 DEF Grown, RowFits
    <3>2. CASE n # q.n
      BY <1>1, <2>1, <2>3, <3>2 DEF Grown, RowFits
    <3>3. QED
      BY <3>1, <3>2
  <2>6. QED
    BY <1>1, <2>1, <2>4, <2>5
<1>6. CASE ~(InsertsRow(q, p) \/ Records(q, p) \/ RemovesRow(q, p))
  <2>1. files' = files /\ (uploads' = uploads \/ (uploads < MaxUploads /\ uploads' = uploads + 1))
    BY <1>6 DEF MovesOne, MovesTo, Begins, WritesFile, Looks, Answers, Dooms, Plans, GivesUp, Passes, Clears, Starts, Makes,
               Finishes, Unlinks, UnlinksLast, Spares, Breaks, Stays
  <2>2. QED
    BY <1>1, <1>2, <2>1
<1>7. QED
  BY <1>3, <1>4, <1>5, <1>6

\* Paths are of uploads; they come and go one by one.
LEMMA DiskMoves ==
  ASSUME SizesFit, FileShape, NEW r \in Requests, NEW p, MovesOne(r, p), NEW path \in disk', path \notin disk
  PROVE  /\ path = F!Path(req[r].n, path[2]) /\ path[1] = req[r].n /\ req[r].n \in 1 .. uploads
         /\ \/ path[2] = F!Main /\ WritesFile(req[r], p)
            \/ path[2] \in AllThumbs(files[req[r].n].type) /\ files[req[r].n].is # "none" /\ Makes(req[r], p)
<1> DEFINE q == req[r]
<1>1. WritesFile(q, p) \/ Makes(q, p)
  BY DEF MovesOne, MovesTo, Begins, InsertsRow, Looks, Answers, Dooms, Plans, GivesUp, Passes, Clears, Starts,
         Finishes, Records, Unlinks, UnlinksLast, RemovesRow, Spares, Breaks, Stays
<1>2. CASE WritesFile(q, p)
  <2>1. path = F!Path(q.n, F!Main) /\ q.n \in 1 .. uploads
    BY <1>2, AtRequest DEF WritesFile, ReqFits
  <2>2. path[1] = q.n /\ path[2] = F!Main
    BY <2>1 DEF F!Path
  <2>3. QED
    BY <1>2, <2>1, <2>2
<1>3. CASE Makes(q, p)
  <2>1. q.pc = "making" /\ path = F!Path(q.n, q.todo[1][2]) /\ q.todo # <<>> /\ q.todo \in Seq(Todo)
    BY <1>3, AtRequest DEF Makes, ReqFits, ReqType
  <2>2. 1 \in DOMAIN q.todo
    BY <2>1, TailFits
  <2>3. /\ q.n \in 1 .. uploads /\ q.row.type = files[q.n].type /\ files[q.n].is # "none"
        /\ q.todo[1] \in {"unlink", "make"} \X AllThumbs(q.row.type)
    BY <2>1, <2>2, AtRequest DEF ReqFits, MakerPcs
  <2>4. q.todo[1][2] \in AllThumbs(files[q.n].type)
    BY <2>3
  <2>5. path[1] = q.n /\ path[2] = q.todo[1][2]
    BY <2>1 DEF F!Path
  <2>6. QED
    BY <1>3, <2>1, <2>3, <2>4, <2>5
<1>4. QED
  BY <1>1, <1>2, <1>3

LEMMA RowsFitKept ==
  ASSUME SizesFit, FileShape, NEW r \in Requests, NEW p, MovesOne(r, p)
  PROVE  RowsFit'
<1>1. /\ files' \in [F!Uploads -> FileRows] /\ uploads' \in Nat /\ uploads \in Nat /\ uploads <= uploads'
      /\ \A n \in F!Uploads : Grown(n) /\ RowFits(n)'
      /\ 1 .. uploads \subseteq F!Uploads /\ 1 .. uploads \subseteq 1 .. uploads'
  BY FileRowsGrow, UploadsFit
<1>2. ASSUME NEW l \in links'
      PROVE  l[1] \in 1 .. uploads' /\ files'[l[1]].is # "none" /\ l[2] \in {"download", "thumbnail"}
  <2>1. l[1] \in 1 .. uploads /\ files[l[1]].is # "none" /\ l[2] \in {"download", "thumbnail"}
    BY DEF MovesOne, LinksFit, FileShape, RowsFit
  <2>2. QED
    BY <1>1, <2>1 DEF Grown
<1>3. ASSUME NEW path \in disk'
      PROVE  /\ path[1] \in 1 .. uploads' /\ path = F!Path(path[1], path[2])
             /\ path[2] = F!Main \/ path[2] \in AllThumbs(files'[path[1]].type)
             /\ files'[path[1]].is = "none" => path[2] = F!Main
  <2>1. /\ path[1] \in 1 .. uploads /\ path = F!Path(path[1], path[2])
        /\ \/ path[2] = F!Main
           \/ path[2] \in AllThumbs(files[path[1]].type) /\ files[path[1]].is # "none"
    <3>1. CASE path \in disk
      <4>1. /\ path[1] \in 1 .. uploads /\ path = F!Path(path[1], path[2])
            /\ path[2] = F!Main \/ path[2] \in AllThumbs(files[path[1]].type)
            /\ files[path[1]].is = "none" => path[2] = F!Main
        BY <3>1 DEF FileShape, RowsFit
      <4>2. QED
        BY <4>1
    <3>2. CASE path \notin disk
      BY <3>2, DiskMoves
    <3>3. QED
      BY <3>1, <3>2
  <2>2. Grown(path[1]) /\ path[1] \in 1 .. uploads'
    BY <1>1, <2>1
  <2>3. QED
    BY <2>1, <2>2 DEF Grown
<1>4. QED
  BY <1>1, <1>2, <1>3 DEF RowsFit, RowFits

\* What fits a request before a step of another fits it afterwards.
LEMMA ReqFitsKept ==
  ASSUME NEW x, ReqFits(x), uploads \in Nat, uploads' \in Nat, uploads <= uploads', 1 .. uploads \subseteq F!Uploads,
         \A n \in F!Uploads : Grown(n), Storing(x) => files'[x.n] = files[x.n]
  PROVE  ReqFits(x)'
<1>1. x.n \in 1 .. uploads => x.n \in 1 .. uploads' /\ Grown(x.n)
  OBVIOUS
<1>2. /\ x.pc # "idle" => x.n \in 1 .. uploads'
      /\ x.pc \in {"write", "insert"} => x.op = "store" /\ files'[x.n].is = "none" /\ x.row.thumbs = {}
      /\ x.op \notin {"", "store"} \/ x.pc \notin {"idle", "write", "insert"} =>
            x.n \in 1 .. uploads' /\ files'[x.n].is # "none"
  BY <1>1 DEF ReqFits, Grown, Storing
<1>3. x.pc \in {"metadata", "choose"} \cup MakerPcs =>
        /\ x.op \in {"store", "regenerate", "thumbnail"}
        /\ x.row.type = files'[x.n].type /\ x.row.type # "text" /\ x.row.thumbs \subseteq files'[x.n].thumbs
        /\ x.row.thumbs \in {{}, AllThumbs(x.row.type)}
  BY <1>1 DEF ReqFits, Grown, MakerPcs
<1>4. x.pc = "findAgain" => /\ x.op \in {"destroy", "regenerate", "thumbnail"}
                            /\ x.op # "destroy" => files'[x.n].type # "text"
  BY <1>1 DEF ReqFits, Grown
<1>5. /\ x.op = "thumbnail" /\ x.pc # "idle" => x.want \in Variety
      /\ x.pc \in {"find", "findAgain"} => ~x.again
      /\ x.pc = "find" => x.op \in AskedOps
      /\ x.pc = "choose" => x.op = "thumbnail"
      /\ x.pc \in {"unlink", "remove"} => x.op = "destroy"
      /\ x.pc \in {"make", "making"} =>
           \A i \in DOMAIN x.todo :
                /\ x.todo[i] \in {"unlink", "make"} \X AllThumbs(x.row.type)
                /\ x.todo[i][1] = "unlink" => /\ x.op = "regenerate"
                                              /\ \E j \in DOMAIN x.todo : j > i /\ x.todo[j] = <<"make", x.todo[i][2]>>
      /\ x.pc = "making" => x.todo # <<>> /\ x.todo[1][1] = "make"
  BY DEF ReqFits
<1>6. QED
  BY <1>2, <1>3, <1>4, <1>5 DEF ReqFits

\* What the maker of thumbnails has still to do.
TodosFit(x) == \A i \in DOMAIN x.todo :
                /\ x.todo[i] \in {"unlink", "make"} \X AllThumbs(x.row.type)
                /\ x.todo[i][1] = "unlink" => /\ x.op = "regenerate"
                                              /\ \E j \in DOMAIN x.todo : j > i /\ x.todo[j] = <<"make", x.todo[i][2]>>
LEMMA TodosTail ==
  ASSUME NEW q \in ReqType, TodosFit(q), q.todo # <<>>, NEW p \in ReqType, p.todo = Tail(q.todo), p.row = q.row, p.op = q.op
  PROVE  TodosFit(p)
<1>1. /\ DOMAIN q.todo = 1 .. Len(q.todo) /\ DOMAIN p.todo = 1 .. Len(q.todo) - 1 /\ Len(q.todo) \in Nat
      /\ \A i \in 1 .. Len(q.todo) - 1 : p.todo[i] = q.todo[i + 1]
  <2>1. q.todo \in Seq(Todo)
    BY DEF ReqType
  <2>2. QED
    BY <2>1, TailFits
<1>2. ASSUME NEW i \in DOMAIN p.todo
      PROVE  /\ p.todo[i] \in {"unlink", "make"} \X AllThumbs(p.row.type)
             /\ p.todo[i][1] = "unlink" => /\ p.op = "regenerate"
                                           /\ \E j \in DOMAIN p.todo : j > i /\ p.todo[j] = <<"make", p.todo[i][2]>>
  <2>1. i + 1 \in DOMAIN q.todo /\ p.todo[i] = q.todo[i + 1] /\ i \in Nat
    BY <1>1
  <2>2. ASSUME p.todo[i][1] = "unlink"
        PROVE  p.op = "regenerate" /\ \E j \in DOMAIN p.todo : j > i /\ p.todo[j] = <<"make", p.todo[i][2]>>
    <3>1. PICK j \in DOMAIN q.todo : j > i + 1 /\ q.todo[j] = <<"make", q.todo[i + 1][2]>>
      BY <2>1, <2>2 DEF TodosFit
    <3>2. j - 1 \in DOMAIN p.todo /\ j - 1 > i /\ (j - 1) + 1 = j
      BY <1>1, <2>1, <3>1
    <3>3. p.todo[j - 1] = <<"make", p.todo[i][2]>>
      BY <1>1, <2>1, <3>1, <3>2
    <3>4. q.op = "regenerate"
      BY <2>1, <2>2 DEF TodosFit
    <3>5. QED
      BY <3>2, <3>3, <3>4
  <2>3. p.todo[i] \in {"unlink", "make"} \X AllThumbs(p.row.type)
    BY <2>1 DEF TodosFit
  <2>4. QED
    BY <2>2, <2>3
<1>3. QED
  BY <1>2 DEF TodosFit

LEMMA ReqFitsMoved ==
  ASSUME SizesFit, FileShape, NEW r \in Requests, NEW p, MovesOne(r, p)
  PROVE  ReqFits(p)'
<1> DEFINE q == req[r]
<1>1. /\ q \in ReqType /\ p \in ReqType /\ ReqFits(q) /\ MovesTo(q, p)
  BY AtRequest DEF MovesOne
<1>2. /\ files' \in [F!Uploads -> FileRows] /\ uploads' \in Nat /\ uploads \in Nat /\ uploads <= uploads'
      /\ \A n \in F!Uploads : Grown(n)
      /\ 1 .. uploads \subseteq F!Uploads /\ 1 .. uploads \subseteq 1 .. uploads' /\ 1 .. uploads' \subseteq F!Uploads
  BY FileRowsGrow, UploadsFit DEF SizesFit, F!Uploads
<1>3. q.pc # "idle" => q.n \in 1 .. uploads /\ q.n \in 1 .. uploads' /\ Grown(q.n)
  BY <1>1, <1>2 DEF ReqFits
<1>4. CASE Begins(q, p)
  <2>1. CASE p.pc = "idle" /\ p.op = ""
    BY <2>1 DEF ReqFits, MakerPcs
  <2>2. CASE /\ uploads < MaxUploads /\ uploads' = uploads + 1 /\ p.pc = "write" /\ p.op = "store"
             /\ p.n = uploads + 1 /\ p.row.thumbs = {}
    <3>1. p.n \in 1 .. uploads' /\ p.n \in F!Uploads /\ p.n > uploads
      BY <1>2, <2>2
    <3>2. files[p.n].is = "none" /\ files' = files
      BY <1>4, <3>1 DEF FileShape, RowsFit, Begins
    <3>3. QED
      BY <2>2, <3>1, <3>2 DEF ReqFits, MakerPcs
  <2>3. CASE /\ uploads' = uploads /\ p.pc = "find" /\ p.n \in 1 .. uploads /\ files[p.n].is # "none"
             /\ p.op \in AskedOps /\ ~p.again /\ (p.op = "thumbnail" => p.want \in Variety)
    <3>1. files' = files
      BY <1>4 DEF Begins
    <3>2. QED
      BY <2>3, <3>1 DEF ReqFits, MakerPcs
  <2>4. QED
    BY <1>4, <2>1, <2>2, <2>3 DEF Begins
<1>5. CASE p.pc = "idle" /\ SameFile(q, p) /\ (q.op \notin {"", "store"} => files'[q.n].is # "none") /\ q.pc # "idle"
  BY <1>1, <1>3, <1>5 DEF ReqFits, SameFile, MakerPcs
<1>6. \A op \in {"store", "thumbnail", "regenerate"} : q.pc # "idle" /\ q.pc \notin {"write", "insert"} => files'[q.n].is # "none"
  BY <1>1, <1>3 DEF ReqFits, Grown
<1>7. CASE WritesFile(q, p)
  <2>1. p.pc = "insert" /\ p.n = q.n /\ p.op = q.op /\ p.row = q.row /\ q.pc = "write" /\ files' = files
    BY <1>1, <1>7 DEF WritesFile, GoesTo, ReqType
  <2>2. QED
    BY <1>1, <1>3, <2>1 DEF ReqFits, MakerPcs
<1>8. CASE InsertsRow(q, p)
  <2>1. q.pc = "insert" /\ q.op = "store" /\ q.row \in FileRows /\ q.row.thumbs = {}
    BY <1>1, <1>8 DEF InsertsRow, ReqFits, ReqType
  <2> DEFINE row == [q.row EXCEPT !.is = "live"]
  <2>2. row.is = "live" /\ row.type = q.row.type /\ row.thumbs = {}
    BY <2>1 DEF FileRows
  <2>3. files'[q.n] = row /\ SameFile(q, p)
    BY <1>2, <1>3, <1>8, <2>1 DEF InsertsRow, FileShape, FileTypes
  <2>4. p.pc = "idle" \/ (p.pc = "metadata" /\ p.row = row /\ q.row.type # "text")
    BY <1>8 DEF InsertsRow
  <2> HIDE DEF row
  <2>5. QED
    BY <1>3, <2>1, <2>2, <2>3, <2>4 DEF ReqFits, SameFile, MakerPcs
<1>9. CASE Looks(q, p)
  <2>1. SameFile(q, p) /\ files' = files
    BY <1>9 DEF Looks, Stays
  <2>2. CASE /\ q.pc = "find" /\ p.pc = "findAgain" /\ q.op \in {"thumbnail", "regenerate", "destroy"}
             /\ q.op # "destroy" => files[q.n].type # "text"
    <3>1. p.want = q.want /\ p.again = q.again
      BY <1>9, <2>2 DEF Looks
    <3>2. QED
      BY <1>1, <1>3, <2>1, <2>2, <3>1 DEF ReqFits, SameFile, MakerPcs
  <2>3. CASE /\ q.pc = "findAgain" /\ p.pc \in {"metadata", "choose"} /\ q.op \in {"regenerate", "thumbnail"}
             /\ (p.pc = "choose" => q.op = "thumbnail") /\ p.row = files[q.n]
    <3>1. p.want = q.want
      BY <1>9, <2>3 DEF Looks
    <3>2. files[q.n].type # "text" /\ files[q.n].thumbs \in {{}, AllThumbs(files[q.n].type)}
      BY <1>1, <1>2, <1>3, <2>3 DEF ReqFits, FileShape, RowsFit
    <3>3. QED
      BY <1>1, <1>3, <2>1, <2>3, <3>1, <3>2 DEF ReqFits, SameFile, MakerPcs
  <2>4. CASE q.pc = "choose" /\ p.pc = "metadata" /\ p.row = q.row /\ p.want \in Variety
    BY <1>1, <1>3, <2>1, <2>4 DEF ReqFits, SameFile, MakerPcs
  <2>5. QED
    BY <1>9, <2>2, <2>3, <2>4 DEF Looks
<1>10. CASE Answers(q, p) \/ Spares(q, p)
  <2>1. SameFile(q, p) /\ p.pc = "idle" /\ files' = files /\ q.pc # "idle"
    BY <1>10 DEF Answers, Spares, Ends, Stays
  <2>2. QED
    BY <1>1, <1>5, <2>1 DEF ReqFits
<1>11. CASE Dooms(q, p)
  <2>1. p.pc = "unlink" /\ q.op = "destroy" /\ SameFile(q, p) /\ files' = files /\ q.pc = "findAgain"
    BY <1>11 DEF Dooms, Stays
  <2>2. QED
    BY <1>1, <1>3, <2>1 DEF ReqFits, SameFile, MakerPcs
<1>12. CASE Plans(q, p)
  <2> DEFINE todo == F!Jobs(q.row, q.op = "regenerate")
  <2>1. /\ q.pc = "metadata" /\ p.pc = "make" /\ p.n = q.n /\ p.op = q.op /\ p.row = q.row /\ p.want = q.want
        /\ p.todo = todo /\ files' = files
    BY <1>1, <1>12 DEF Plans, ReqType, Stays
  <2>2. TodosFit(p)
    <3>1. q.row \in FileRows /\ (q.op = "regenerate") \in BOOLEAN
      BY <1>1 DEF ReqType
    <3>2. /\ p.todo \in Seq({"unlink", "make"} \X AllThumbs(p.row.type))
          /\ \A i \in DOMAIN p.todo : p.todo[i][1] = "unlink" =>
              q.op = "regenerate" /\ \E j \in DOMAIN p.todo : j > i /\ p.todo[j] = <<"make", p.todo[i][2]>>
      BY <2>1, <3>1, JobsListed
    <3>3. \A i \in DOMAIN p.todo : p.todo[i] \in {"unlink", "make"} \X AllThumbs(p.row.type)
      BY <3>2
    <3>4. QED
      BY <2>1, <3>2, <3>3 DEF TodosFit
  <2> HIDE DEF todo
  <2>3. QED
    BY <1>1, <1>3, <2>1, <2>2 DEF ReqFits, MakerPcs, TodosFit
<1>13. ASSUME NEW thumbs \in {q.row.thumbs, q.row.thumbs \cup AllThumbs(q.row.type)}, Leaves(q, p, thumbs),
              q.pc \in {"metadata", "make", "making", "record"}, thumbs \subseteq files'[q.n].thumbs
       PROVE  ReqFits(p)'
  <2>1. /\ q.row \in FileRows /\ q.row.type = files[q.n].type /\ q.row.type # "text"
        /\ q.row.thumbs \in {{}, AllThumbs(q.row.type)} /\ files[q.n].is # "none"
    BY <1>1, <1>13 DEF ReqFits, MakerPcs, ReqType
  <2>2. files'[q.n].is # "none" /\ files'[q.n].type = q.row.type
    BY <1>3, <1>13, <2>1 DEF Grown
  <2>3. CASE p.pc = "idle"
    BY <1>5, <1>13, <2>2, <2>3 DEF Leaves
  <2>4. CASE /\ p.pc = "choose" /\ q.op = "thumbnail" /\ p.want = q.want /\ p.again = q.again
             /\ p.row = [q.row EXCEPT !.thumbs = thumbs]
    <3>1. p.row.thumbs = thumbs /\ p.row.type = q.row.type /\ SameFile(q, p)
      BY <1>13, <2>1, <2>4 DEF Leaves, FileRows
    <3>2. thumbs \in {{}, AllThumbs(q.row.type)} /\ q.want \in Variety
      BY <1>1, <1>13, <2>1, <2>4 DEF ReqFits
    <3>3. QED
      BY <1>3, <1>13, <2>1, <2>2, <2>4, <3>1, <3>2 DEF ReqFits, SameFile, MakerPcs
  <2>5. QED
    BY <1>13, <2>3, <2>4 DEF Leaves
<1>14. CASE GivesUp(q, p)
  <2>1. q.row.thumbs \subseteq files[q.n].thumbs /\ files' = files
    BY <1>1, <1>14 DEF GivesUp, ReqFits, Stays, MakerPcs
  <2>2. QED
    BY <1>13, <1>14, <2>1 DEF GivesUp
<1>15. ASSUME q.todo # <<>>, files' = files,
              (q.pc = "make" /\ p = NextTodo(q)) \/ (q.pc = "making" /\ p = GoesTo(NextTodo(q), "make"))
       PROVE  ReqFits(p)'
  <2>1. /\ p.pc = "make" /\ p.n = q.n /\ p.op = q.op /\ p.row = q.row /\ p.want = q.want
        /\ p.todo = Tail(q.todo)
    BY <1>1, <1>15 DEF NextTodo, GoesTo, ReqType
  <2>2. TodosFit(q)
    BY <1>1, <1>15 DEF ReqFits, TodosFit
  <2>3. TodosFit(p)
    BY <1>1, <1>15, <2>1, <2>2, TodosTail
  <2>4. QED
    BY <1>1, <1>3, <1>15, <2>1, <2>3 DEF ReqFits, MakerPcs, TodosFit
<1>16. CASE Passes(q, p) \/ Clears(q, p)
  BY <1>15, <1>16 DEF Passes, Clears, Stays
<1>17. CASE Makes(q, p)
  <2>1. q.todo # <<>>
    BY <1>1, <1>17 DEF Makes, ReqFits
  <2>2. QED
    BY <1>15, <1>17, <2>1 DEF Makes
<1>18. CASE Starts(q, p)
  <2>1. /\ p.pc = "making" /\ p.n = q.n /\ p.op = q.op /\ p.row = q.row /\ p.want = q.want /\ p.todo = q.todo
        /\ q.pc = "make" /\ q.todo # <<>> /\ q.todo[1][1] = "make" /\ files' = files
    BY <1>1, <1>18 DEF Starts, GoesTo, ReqType, Stays
  <2>2. TodosFit(p)
    BY <1>1, <2>1 DEF ReqFits, TodosFit
  <2>3. QED
    BY <1>1, <1>3, <2>1, <2>2 DEF ReqFits, MakerPcs, TodosFit
<1>19. CASE Finishes(q, p)
  <2>1. /\ p.pc = "record" /\ p.n = q.n /\ p.op = q.op /\ p.row = q.row /\ p.want = q.want
        /\ q.pc = "make" /\ files' = files
    BY <1>1, <1>19 DEF Finishes, GoesTo, ReqType, Stays
  <2>2. QED
    BY <1>1, <1>3, <2>1 DEF ReqFits, MakerPcs
<1>20. CASE Records(q, p)
  <2> DEFINE thumbs == q.row.thumbs \cup AllThumbs(q.row.type)
  <2>1. q.pc = "record" /\ files' = [files EXCEPT ![q.n].thumbs = thumbs] /\ Leaves(q, p, thumbs)
    BY <1>20 DEF Records
  <2>2. files'[q.n].thumbs = thumbs
    <3>1. files \in [F!Uploads -> FileRows] /\ q.n \in F!Uploads
      BY <1>2, <1>3, <2>1 DEF FileShape, FileTypes
    <3>2. files[q.n] \in FileRows
      BY <3>1
    <3> HIDE DEF thumbs
    <3>3. QED
      BY <2>1, <3>1, <3>2 DEF FileRows
  <2>3. QED
    BY <1>13, <2>1, <2>2
<1>21. CASE Unlinks(q, p) \/ UnlinksLast(q, p)
  <2>1. /\ p.pc \in {"unlink", "remove"} /\ p.n = q.n /\ p.op = q.op /\ q.pc = "unlink" /\ files' = files
    BY <1>1, <1>21 DEF Unlinks, UnlinksLast, NextTodo, GoesTo, ReqType, Stays
  <2>2. QED
    BY <1>1, <1>3, <2>1 DEF ReqFits, MakerPcs
<1>22. CASE RemovesRow(q, p)
  <2>1. q.pc = "remove" /\ SameFile(q, p) /\ p.pc = "idle"
    BY <1>22 DEF RemovesRow, Ends
  <2>2. files'[q.n].is # "none"
    BY <1>1, <1>3, <2>1 DEF ReqFits, Grown
  <2>3. QED
    BY <1>5, <2>1, <2>2
<1>23. CASE Breaks(q, p)
  <2>1. files' = files
    BY <1>23 DEF Breaks
  <2>2. CASE q.pc \in {"insert", "remove"} /\ Ends(q, p)
    BY <1>1, <1>5, <2>1, <2>2 DEF Ends, ReqFits
  <2>3. CASE q.pc \in {"metadata", "making", "record"} /\ Leaves(q, p, q.row.thumbs)
    <3>1. q.row.thumbs \subseteq files[q.n].thumbs
      BY <1>1, <2>3 DEF ReqFits, MakerPcs
    <3>2. QED
      BY <1>13, <2>1, <2>3, <3>1
  <2>4. CASE q.pc = "unlink" /\ q.todo # <<>> /\ p = NextTodo(q)
    <3>1. p.pc = "unlink" /\ p.n = q.n /\ p.op = q.op
      BY <1>1, <2>4 DEF NextTodo, ReqType
    <3>2. QED
      BY <1>1, <1>3, <2>1, <2>4, <3>1 DEF ReqFits, MakerPcs
  <2>5. QED
    BY <1>23, <2>2, <2>3, <2>4 DEF Breaks
<1>24. QED
  BY <1>1, <1>4, <1>7, <1>8, <1>9, <1>10, <1>11, <1>12, <1>14, <1>16, <1>17, <1>18, <1>19, <1>20, <1>21, <1>22, <1>23
     DEF MovesTo

LEMMA ShapeMoved ==
  ASSUME SizesFit, FileShape, NEW r \in Requests, NEW p, MovesOne(r, p)
  PROVE  FileShape'
<1> DEFINE q == req[r]
<1>1. /\ q \in ReqType /\ p \in ReqType /\ ReqFits(q) /\ MovesTo(q, p) /\ req' = [req EXCEPT ![r] = p]
      /\ req \in [Requests -> ReqType]
  BY AtRequest DEF MovesOne
<1>2. req' \in [Requests -> ReqType] /\ req'[r] = p /\ \A s \in Requests \ {r} : req'[s] = req[s]
  BY <1>1
<1>3. FileTypes'
  BY <1>2, FileRowsGrow DEF FileTypes
<1>4. /\ uploads' \in Nat /\ uploads \in Nat /\ uploads <= uploads' /\ \A n \in F!Uploads : Grown(n)
      /\ 1 .. uploads \subseteq F!Uploads
  BY FileRowsGrow, UploadsFit
<1>5. \A s, t \in Requests : Storing(req[s]) /\ req[t].pc # "idle" /\ req[t].n = req[s].n => t = s
  BY DEF FileShape, ReqsFit
<1>6. ASSUME NEW s \in Requests
      PROVE  ReqFits(req[s])'
  <2>1. CASE s = r
    <3>1. ReqFits(p)'
      BY ReqFitsMoved
    <3>2. QED
      BY <1>2, <2>1, <3>1 DEF ReqFits
  <2>2. CASE s # r
    <3>1. PICK x : x = req[s]
      OBVIOUS
    <3>2. ReqFits(x) /\ req'[s] = x
      BY <1>2, <2>2, <3>1 DEF FileShape, ReqsFit
    <3>3. Storing(x) => files'[x.n] = files[x.n]
      <4>1. ASSUME Storing(x), files'[x.n] # files[x.n] PROVE FALSE
        <5>1. x.n \in F!Uploads /\ files[x.n].is = "none"
          BY <1>4, <3>2, <4>1 DEF ReqFits, Storing
        <5>2. files' # files
          BY <4>1
        <5>3. InsertsRow(q, p) \/ Records(q, p) \/ RemovesRow(q, p)
          BY <1>1, <5>2 DEF MovesTo, Begins, WritesFile, Looks, Answers, Dooms, Plans, GivesUp, Passes, Clears, Starts, Makes,
               Finishes, Unlinks, UnlinksLast, Spares, Breaks, Stays
        <5>4. q.n = x.n /\ q.pc # "idle"
          <6>1. q.pc # "idle"
            BY <5>3 DEF InsertsRow, Records, RemovesRow
          <6>2. q.n # x.n => files'[x.n] = files[x.n]
            <7>1. files \in [F!Uploads -> FileRows]
              BY DEF FileShape, FileTypes
            <7>2. QED
              BY <5>1, <5>3, <7>1 DEF InsertsRow, Records, RemovesRow
          <6>3. QED
            BY <4>1, <6>1, <6>2
        <5>5. QED
          BY <1>5, <2>2, <3>1, <4>1, <5>4
      <4>2. QED
        BY <4>1
    <3>4. ReqFits(x)'
      BY <1>4, <3>2, <3>3, ReqFitsKept
    <3>5. QED
      BY <3>2, <3>4 DEF ReqFits
  <2>3. QED
    BY <2>1, <2>2
<1>7. ASSUME NEW s \in Requests, NEW t \in Requests, Storing(req'[s]), req'[t].pc # "idle", req'[t].n = req'[s].n
      PROVE  t = s
  <2>1. CASE Begins(q, p)
    <3>1. \A u \in Requests : req[u].pc # "idle" => req[u].n \in 1 .. uploads
      BY DEF FileShape, ReqsFit, ReqFits
    <3>2. Storing(p) => p.n = uploads + 1
      BY <2>1 DEF Begins, Storing
    <3>3. Storing(req[s]) => files[req[s].n].is = "none"
      BY DEF FileShape, ReqsFit, ReqFits, Storing
    <3>4. p.pc = "find" => files[p.n].is # "none"
      BY <2>1 DEF Begins
    <3>5. p.pc \in {"idle", "write", "find"}
      BY <2>1 DEF Begins
    <3>6. CASE s = r
      BY <1>2, <1>4, <1>7, <3>1, <3>2, <3>6
    <3>7. CASE s # r /\ t = r
      <4>1. Storing(req[s]) /\ p.n = req[s].n /\ p.pc # "idle" /\ req[s].pc # "idle"
        BY <1>2, <1>7, <3>7 DEF Storing
      <4>2. p.pc = "write"
        BY <3>3, <3>4, <3>5, <4>1
      <4>3. QED
        BY <1>4, <3>1, <3>2, <4>1, <4>2 DEF Storing
    <3>8. CASE s # r /\ t # r
      BY <1>2, <1>5, <1>7, <3>8
    <3>9. QED
      BY <3>6, <3>7, <3>8
  <2>2. CASE ~Begins(q, p)
    <3>1. q.pc # "idle" /\ p.n = q.n /\ (Storing(p) => Storing(q))
      BY <1>1, <2>2 DEF MovesTo, WritesFile, InsertsRow, Looks, Answers, Dooms, Plans, GivesUp, Passes, Clears, Starts, Makes,
               Finishes, Records, Unlinks, UnlinksLast, RemovesRow, Spares, Breaks, Leaves, SameFile, Ends, Storing, GoesTo, NextTodo, ReqType
    <3>2. QED
      BY <1>2, <1>5, <1>7, <3>1
  <2>3. QED
    BY <2>1, <2>2
<1>8. ReqsFit'
  BY <1>6, <1>7 DEF ReqsFit, Storing
<1>9. QED
  BY <1>3, <1>8, RowsFitKept DEF FileShape

LEMMA ShapeInit == SizesFit /\ F!Init => FileShape
<1> SUFFICES ASSUME SizesFit, F!Init PROVE FileShape
  OBVIOUS
<1>1. F!NoRow \in FileRows /\ F!NoRow.is = "none" /\ F!NoRow.thumbs = {}
  BY DEF F!NoRow, FileRows, F!Types
<1>2. FileTypes
  <2>1. files \in [F!Uploads -> FileRows] /\ req \in [Requests -> ReqType]
    BY <1>1, IdleReqFits DEF F!Init
  <2>2. uploads \in 0 .. MaxUploads
    BY DEF F!Init, SizesFit
  <2>3. QED
    BY <2>1, <2>2 DEF FileTypes
<1>3. RowsFit
  BY <1>1 DEF F!Init, RowsFit
<1>4. ReqFits(F!Idle)
  BY IdleReqFits DEF ReqFits, MakerPcs
<1>5. ReqsFit
  BY <1>4, IdleReqFits DEF F!Init, ReqsFit, Storing
<1>6. QED
  BY <1>2, <1>3, <1>5 DEF FileShape

LEMMA ShapeCrashed == ASSUME SizesFit, FileShape, Crashed \/ Expired \/ UNCHANGED F!fileVars PROVE FileShape'
<1>1. UNCHANGED <<files, disk, uploads>> /\ links' \subseteq links
  BY DEF Crashed, Expired, F!fileVars
<1>2. RowsFit'
  BY <1>1 DEF FileShape, RowsFit
<1>3. CASE UNCHANGED req
  <2>1. FileTypes'
    BY <1>1, <1>3 DEF FileShape, FileTypes
  <2>2. ReqsFit'
    <3>1. ASSUME NEW r \in Requests PROVE ReqFits(req[r])'
      <4>1. ReqFits(req[r])
        BY DEF FileShape, ReqsFit
      <4>2. QED
        BY <1>1, <1>3, <4>1 DEF ReqFits
    <3>2. \A r, s \in Requests : Storing(req[r]) /\ req[s].pc # "idle" /\ req[s].n = req[r].n => s = r
      BY DEF FileShape, ReqsFit
    <3>3. QED
      BY <1>3, <3>1, <3>2 DEF ReqsFit, Storing
  <2>3. QED
    BY <1>2, <2>1, <2>2 DEF FileShape
<1>4. CASE req' = [r \in Requests |-> F!Idle]
  <2>1. FileTypes'
    BY <1>1, <1>4, IdleReqFits DEF FileShape, FileTypes
  <2>2. ReqFits(F!Idle)'
    BY IdleReqFits DEF ReqFits, MakerPcs
  <2>3. \A r \in Requests : req'[r] = F!Idle
    BY <1>4
  <2>4. ASSUME NEW r \in Requests PROVE ReqFits(req[r])'
    <3>1. req'[r] = F!Idle
      BY <2>3
    <3>2. QED
      BY <3>1, IdleReqFits DEF ReqFits, MakerPcs
  <2>5. ReqsFit'
    BY <2>3, <2>4, IdleReqFits DEF ReqsFit, Storing
  <2>6. QED
    BY <1>2, <2>1, <2>5 DEF FileShape
<1>5. QED
  BY <1>3, <1>4 DEF Crashed, Expired, F!fileVars

-----------------------------------------------------------------------------
(* The inductive invariant about files, and its parts.                     *)

BusyAt(n, pcs) == \E s \in Requests : req[s].n = n /\ req[s].pc \in pcs
MakingPcs == {"metadata", "make", "making", "record"}
DeletingPcs == {"unlink", "remove"}

\* A file nobody deletes, and that met no trouble; the thumbnails that are there or
\* are about to be made again.
Sound(n) == n \notin broken /\ Live(n) /\ ~BusyAt(n, DeletingPcs)
StillMakes(q, v) == \E i \in DOMAIN q.todo : q.todo[i] = <<"make", v>>
Remakes(q, n, v) == q.op = "regenerate" /\ q.pc \in {"make", "making"} /\ q.n = n /\ StillMakes(q, v)
Covered(n, v) == F!Path(n, v) \in disk \/ \E s \in Requests : Remakes(req[s], n, v)

\* The file and the thumbnails of a sound file are there, and those a request has
\* gone through are when it records them.
MainThere ==
    /\ \A n \in F!Uploads : Sound(n) => F!Path(n, F!Main) \in disk
    /\ \A s \in Requests : req[s].pc = "insert" /\ req[s].n \notin broken => F!Path(req[s].n, F!Main) \in disk
ThumbsThere ==
    /\ \A n \in F!Uploads : Sound(n) => \A v \in files[n].thumbs : Covered(n, v)
    /\ \A s \in Requests : req[s].pc \in MakerPcs /\ Sound(req[s].n) =>
          \A v \in AllThumbs(req[s].row.type) : (req[s].pc # "record" /\ StillMakes(req[s], v)) \/ Covered(req[s].n, v)

\* What is left of a file that is being deleted is still to be unlinked, unless
\* thumbnails of it are made meanwhile.
Erases(q) ==
    /\ F!Path(q.n, F!Main) \in disk => q.pc = "unlink" /\ F!Main \in F!ToSet(q.todo)
    /\ q.n \notin crossed /\ ~BusyAt(q.n, MakingPcs) =>
          \A v \in AllThumbs(files[q.n].type) : F!Path(q.n, v) \in disk => q.pc = "unlink" /\ v \in F!ToSet(q.todo)
DeletersDelete == \A s \in Requests : req[s].pc \in DeletingPcs /\ req[s].n \notin broken => Erases(req[s])

\* A path is of a live row, which names it or is about to.
RowNames(path) ==
    /\ path[2] = F!Main /\ path[1] \notin broken => Live(path[1]) \/ BusyAt(path[1], {"insert"})
    /\ path[2] # F!Main /\ path[1] \notin broken \cup crossed =>
          Live(path[1]) /\ (path[2] \in files[path[1]].thumbs \/ BusyAt(path[1], MakerPcs))
OnlyNamed == \A path \in disk : RowNames(path)

\* Who makes thumbnails, and did not meet a delete, has the file to make them of.
MakersFile == \A s \in Requests : req[s].pc \in MakerPcs /\ req[s].n \notin broken \cup crossed =>
                 Live(req[s].n) /\ F!Path(req[s].n, F!Main) \in disk

\* A request nothing disturbed is alone with what it does to its file, and its
\* second look at the thumbnails finds them all.
Undisturbed == \A s \in Requests \ rough : req[s].pc # "idle" =>
                 \A t \in Requests \ {s} : ~(F!Disturbs(req[t]) /\ req[t].n = req[s].n)
SecondTime == \A s \in Requests \ rough :
             req[s].pc = "choose" /\ req[s].again /\ req[s].n \notin broken /\ Live(req[s].n) =>
                req[s].row.thumbs = AllThumbs(req[s].row.type)

DiskInv == MainThere /\ ThumbsThere /\ DeletersDelete /\ OnlyNamed /\ MakersFile
FileInv == FileShape /\ DiskInv /\ Undisturbed /\ SecondTime /\ F!Served

\* What Noted remembers.
NotedWell ==
    /\ crossed \subseteq crossed'
    /\ \A n \in F!Uploads : BusyAt(n, MakingPcs) /\ BusyAt(n, DeletingPcs) => n \in crossed'
    /\ \A s \in Requests : s \in rough /\ ~(req[s].pc = "idle" /\ req'[s].pc # "idle") => s \in rough'
    /\ Undisturbed'

LEMMA NotedRemembered == ASSUME F!Noted PROVE NotedWell
<1>1. crossed \subseteq crossed'
  BY DEF F!Noted
<1>2. \A n \in F!Uploads : BusyAt(n, MakingPcs) /\ BusyAt(n, DeletingPcs) => n \in crossed'
  BY DEF F!Noted, BusyAt, MakingPcs, DeletingPcs, F!Making, F!Deleting
<1>3. \A s \in Requests : s \in rough /\ ~(req[s].pc = "idle" /\ req'[s].pc # "idle") => s \in rough'
  BY DEF F!Noted, F!At
<1>4. Undisturbed'
  BY DEF F!Noted, Undisturbed
<1>5. QED
  BY <1>1, <1>2, <1>3, <1>4 DEF NotedWell

\* What the proofs use of a move.
LEMMA AtMove ==
  ASSUME SizesFit, FileShape, NEW r \in Requests, NEW p, MovesOne(r, p)
  PROVE  /\ req[r] \in ReqType /\ p \in ReqType /\ ReqFits(req[r]) /\ MovesTo(req[r], p)
         /\ req'[r] = p /\ \A s \in Requests : s # r => req'[s] = req[s]
         /\ \A s \in Requests : ReqFits(req[s]) /\ req[s] \in ReqType
         /\ broken \subseteq broken'
         /\ \A n \in F!Uploads : Grown(n)
         /\ 1 .. uploads \subseteq F!Uploads
<1>1. /\ req[r] \in ReqType /\ p \in ReqType /\ ReqFits(req[r]) /\ MovesTo(req[r], p)
      /\ req \in [Requests -> ReqType] /\ req' = [req EXCEPT ![r] = p]
  BY AtRequest DEF MovesOne
<1>2. req'[r] = p /\ \A s \in Requests : s # r => req'[s] = req[s]
  BY <1>1
<1>3. \A s \in Requests : ReqFits(req[s]) /\ req[s] \in ReqType
  BY <1>1 DEF FileShape, ReqsFit
<1>4. broken \subseteq broken'
  BY <1>1 DEF MovesTo, Begins, WritesFile, InsertsRow, Looks, Answers, Dooms, Plans, GivesUp, Passes, Clears, Starts, Makes,
               Finishes, Records, Unlinks, UnlinksLast, RemovesRow, Spares, Breaks, Stays
<1>5. QED
  BY <1>1, <1>2, <1>3, <1>4, FileRowsGrow, UploadsFit

\* Where rows change.
LEMMA RowMoves ==
  ASSUME SizesFit, FileShape, NEW r \in Requests, NEW p, MovesOne(r, p), NEW n \in F!Uploads, files'[n] # files[n]
  PROVE  /\ req[r].n = n /\ req[r].pc # "idle"
         /\ \/ InsertsRow(req[r], p) /\ files'[n].is = "live" /\ files'[n].thumbs = {} /\ req[r].pc = "insert"
            \/ /\ Records(req[r], p) /\ files'[n].thumbs = req[r].row.thumbs \cup AllThumbs(req[r].row.type)
               /\ files'[n].is = files[n].is /\ req[r].pc = "record"
            \/ RemovesRow(req[r], p) /\ files'[n].is = "trashed" /\ req[r].pc = "remove"
<1> DEFINE q == req[r]
<1>1. q \in ReqType /\ q.row \in FileRows /\ ReqFits(q) /\ MovesTo(q, p) /\ files \in [F!Uploads -> FileRows] /\ files[n] \in FileRows
  BY AtMove DEF FileShape, FileTypes, ReqType
<1>2. InsertsRow(q, p) \/ Records(q, p) \/ RemovesRow(q, p)
  BY <1>1 DEF MovesTo, Begins, WritesFile, Looks, Answers, Dooms, Plans, GivesUp, Passes, Clears, Starts, Makes,
               Finishes, Unlinks, UnlinksLast, Spares, Breaks, Stays
<1>3. q.n = n
  BY <1>1, <1>2 DEF InsertsRow, Records, RemovesRow
<1>4. CASE InsertsRow(q, p)
  <2>1. q.pc = "insert" /\ files' = [files EXCEPT ![n] = [q.row EXCEPT !.is = "live"]] /\ q.row.thumbs = {}
    BY <1>1, <1>3, <1>4 DEF InsertsRow, ReqFits
  <2>2. files'[n] = [q.row EXCEPT !.is = "live"]
    BY <1>1, <2>1
  <2>3. QED
    BY <1>1, <1>3, <1>4, <2>1, <2>2 DEF FileRows
<1>5. CASE Records(q, p)
  <2> DEFINE thumbs == q.row.thumbs \cup AllThumbs(q.row.type)
  <2>1. q.pc = "record" /\ files' = [files EXCEPT ![n].thumbs = thumbs]
    BY <1>3, <1>5 DEF Records
  <2> HIDE DEF thumbs
  <2>2. files'[n].thumbs = thumbs /\ files'[n].is = files[n].is
    BY <1>1, <2>1 DEF FileRows
  <2>3. QED
    BY <1>3, <1>5, <2>1, <2>2 DEF thumbs
<1>6. CASE RemovesRow(q, p)
  <2>1. q.pc = "remove" /\ files' = [files EXCEPT ![n].is = "trashed"]
    BY <1>3, <1>6 DEF RemovesRow
  <2>2. files'[n].is = "trashed"
    BY <1>1, <2>1 DEF FileRows
  <2>3. QED
    BY <1>3, <1>6, <2>1, <2>2
<1>7. QED
  BY <1>2, <1>4, <1>5, <1>6

\* Who takes a path from the disk.
LEMMA DiskLoses ==
  ASSUME SizesFit, FileShape, NEW r \in Requests, NEW p, MovesOne(r, p), NEW n, NEW what,
         F!Path(n, what) \in disk, F!Path(n, what) \notin disk'
  PROVE  /\ req[r].n = n /\ req[r].todo # <<>> /\ p = NextTodo(req[r])
         /\ \/ /\ Clears(req[r], p) /\ req[r].pc = "make" /\ req[r].todo[1] = <<"unlink", what>> /\ what # F!Main
            \/ Unlinks(req[r], p) /\ req[r].pc = "unlink" /\ req[r].todo[1] = what
<1> DEFINE q == req[r]
<1>1. Clears(q, p) \/ Unlinks(q, p)
  BY AtMove DEF MovesTo, Begins, WritesFile, InsertsRow, Looks, Answers, Dooms, Plans, GivesUp, Passes, Starts, Makes,
               Finishes, Records, UnlinksLast, RemovesRow, Spares, Breaks, Stays
<1>2. CASE Clears(q, p)
  <2>1. /\ q.pc = "make" /\ q.todo # <<>> /\ q.todo[1][1] = "unlink" /\ p = NextTodo(q)
        /\ F!Path(n, what) = F!Path(q.n, q.todo[1][2]) /\ q \in ReqType /\ ReqFits(q)
    BY <1>2, AtMove DEF Clears
  <2>2. q.n = n /\ q.todo[1][2] = what
    BY <2>1 DEF F!Path
  <2>3. 1 \in DOMAIN q.todo
    BY <2>1, TailFits DEF ReqType
  <2>4. q.todo[1] \in {"unlink", "make"} \X AllThumbs(q.row.type) /\ q.row.type \in F!Types
    BY <2>1, <2>3 DEF ReqFits, ReqType, FileRows
  <2>5. what \in AllThumbs(q.row.type) /\ q.todo[1] = <<"unlink", what>>
    BY <2>1, <2>2, <2>4
  <2>6. what # F!Main
    BY <2>4, <2>5, MainApart
  <2>7. QED
    BY <1>2, <2>1, <2>2, <2>5, <2>6
<1>3. CASE Unlinks(q, p)
  <2>1. F!Path(n, what) = F!Path(q.n, q.todo[1]) /\ q.pc = "unlink" /\ q.todo # <<>> /\ p = NextTodo(q)
    BY <1>3 DEF Unlinks
  <2>2. QED
    BY <1>3, <2>1 DEF F!Path
<1>4. QED
  BY <1>1, <1>2, <1>3

\* A file is sound after a move only if it was, or has just got its row.
LEMMA SoundBack ==
  ASSUME SizesFit, FileShape, NEW r \in Requests, NEW p, MovesOne(r, p), NEW n \in F!Uploads, Sound(n)'
  PROVE  Sound(n) \/ (InsertsRow(req[r], p) /\ req[r].n = n /\ req[r].pc = "insert" /\ files'[n].thumbs = {})
<1> DEFINE q == req[r]
<1>1. /\ q \in ReqType /\ MovesTo(q, p) /\ req'[r] = p /\ \A s \in Requests : s # r => req'[s] = req[s]
      /\ broken \subseteq broken'
  BY AtMove
<1>2. n \notin broken' /\ n \notin broken /\ files'[n].is = "live"
  BY <1>1 DEF Sound, Live
<1>3. files'[n] = files[n] \/ Records(q, p) => Live(n)
  <2>1. CASE files'[n] = files[n]
    BY <1>2, <2>1 DEF Live
  <2>2. CASE Records(q, p) /\ files'[n] # files[n]
    <3>1. ~InsertsRow(q, p) /\ ~RemovesRow(q, p)
      BY <2>2 DEF Records, InsertsRow, RemovesRow
    <3>2. QED
      BY <1>2, <2>2, <3>1, RowMoves DEF Live
  <2>3. QED
    BY <2>1, <2>2
<1>4. ASSUME BusyAt(n, DeletingPcs) PROVE RemovesRow(q, p) /\ q.n = n
  <2>1. PICK s \in Requests : req[s].n = n /\ req[s].pc \in DeletingPcs
    BY <1>4 DEF BusyAt
  <2>2. ~\E t \in Requests : req'[t].n = n /\ req'[t].pc \in DeletingPcs
    BY DEF Sound, BusyAt
  <2>3. s = r
    BY <1>1, <2>1, <2>2
  <2>4. q.n = n /\ q.pc \in {"unlink", "remove"} /\ ~(p.n = n /\ p.pc \in {"unlink", "remove"})
    BY <1>1, <2>1, <2>2, <2>3 DEF DeletingPcs
  <2>5. CASE Unlinks(q, p) \/ UnlinksLast(q, p)
    BY <1>1, <2>4, <2>5 DEF Unlinks, UnlinksLast, NextTodo, GoesTo, ReqType
  <2>6. CASE Breaks(q, p)
    BY <1>2, <2>4, <2>6 DEF Breaks
  <2>7. Unlinks(q, p) \/ UnlinksLast(q, p) \/ Breaks(q, p) \/ RemovesRow(q, p)
    BY <1>1, <2>4 DEF MovesTo, Begins, WritesFile, InsertsRow, Looks, Answers, Dooms, Plans, GivesUp, Passes, Clears, Starts, Makes,
               Finishes, Records, Spares
  <2>8. QED
    BY <2>4, <2>5, <2>6, <2>7
<1>5. CASE RemovesRow(q, p) /\ q.n = n
  <2>1. files \in [F!Uploads -> FileRows] /\ files[n] \in FileRows
    BY DEF FileShape, FileTypes
  <2>2. files'[n].is = "trashed"
    BY <1>5, <2>1 DEF RemovesRow, FileRows
  <2>3. QED
    BY <1>2, <2>2
<1>6. CASE ~BusyAt(n, DeletingPcs) /\ files'[n] # files[n] /\ ~Records(q, p)
  BY <1>2, <1>6, RowMoves
<1>7. CASE ~BusyAt(n, DeletingPcs) /\ (files'[n] = files[n] \/ Records(q, p))
  BY <1>2, <1>3, <1>7 DEF Sound
<1>8. QED
  BY <1>4, <1>5, <1>6, <1>7

LEMMA TailStill ==
  ASSUME NEW q \in ReqType, q.todo # <<>>, NEW p, p.todo = Tail(q.todo)
  PROVE  /\ \A v : StillMakes(q, v) => q.todo[1] = <<"make", v>> \/ StillMakes(p, v)
         /\ F!ToSet(q.todo) \subseteq {q.todo[1]} \cup F!ToSet(p.todo)
<1>1. /\ DOMAIN q.todo = 1 .. Len(q.todo) /\ DOMAIN p.todo = 1 .. Len(q.todo) - 1 /\ Len(q.todo) \in Nat
      /\ \A i \in 1 .. Len(q.todo) - 1 : p.todo[i] = q.todo[i + 1]
  <2>1. q.todo \in Seq(Todo)
    BY DEF ReqType
  <2>2. QED
    BY <2>1, TailFits
<1>2. ASSUME NEW i \in DOMAIN q.todo PROVE i = 1 \/ \E j \in DOMAIN p.todo : p.todo[j] = q.todo[i]
  <2>1. CASE i # 1
    <3>1. i - 1 \in DOMAIN p.todo /\ (i - 1) + 1 = i
      BY <1>1, <2>1
    <3>2. p.todo[i - 1] = q.todo[i]
      BY <1>1, <3>1
    <3>3. QED
      BY <3>1, <3>2
  <2>2. QED
    BY <2>1
<1>3. ASSUME NEW v, StillMakes(q, v) PROVE q.todo[1] = <<"make", v>> \/ StillMakes(p, v)
  <2>1. PICK i \in DOMAIN q.todo : q.todo[i] = <<"make", v>>
    BY <1>3 DEF StillMakes
  <2>2. QED
    BY <1>2, <2>1 DEF StillMakes
<1>4. F!ToSet(q.todo) \subseteq {q.todo[1]} \cup F!ToSet(p.todo)
  BY <1>2 DEF F!ToSet
<1>5. QED
  BY <1>3, <1>4

\* The maker goes on: what it has still to make it makes later, or it is there.
LEMMA MakerMoves ==
  ASSUME SizesFit, FileShape, NEW r \in Requests, NEW p, MovesOne(r, p), req[r].pc \in {"make", "making"}
  PROVE  \/ /\ p.n = req[r].n /\ p.row = req[r].row /\ p.op = req[r].op /\ p.pc \in MakerPcs
            /\ \A v : StillMakes(req[r], v) => (p.pc # "record" /\ StillMakes(p, v)) \/ F!Path(req[r].n, v) \in disk'
         \/ F!Path(req[r].n, F!Main) \notin disk /\ GivesUp(req[r], p)
         \/ req[r].n \in broken'
<1> DEFINE q == req[r]
<1>1. q \in ReqType /\ ReqFits(q) /\ MovesTo(q, p) /\ p \in ReqType
  BY AtMove
<1>2. GivesUp(q, p) \/ Passes(q, p) \/ Clears(q, p) \/ Starts(q, p) \/ Makes(q, p) \/ Finishes(q, p) \/ Breaks(q, p)
  BY <1>1 DEF MovesTo, Begins, WritesFile, InsertsRow, Looks, Answers, Dooms, Plans, Records, Unlinks, UnlinksLast, RemovesRow, Spares
<1>3. CASE Passes(q, p)
  <2>1. /\ q.todo # <<>> /\ p = NextTodo(q) /\ q.pc = "make" /\ F!Path(q.n, q.todo[1][2]) \in disk /\ disk' = disk
    BY <1>3 DEF Passes, Stays
  <2>2. p.n = q.n /\ p.row = q.row /\ p.op = q.op /\ p.pc = "make" /\ p.todo = Tail(q.todo)
    BY <1>1, <2>1 DEF NextTodo, ReqType
  <2>3. \A v : StillMakes(q, v) => StillMakes(p, v) \/ F!Path(q.n, v) \in disk'
    BY <1>1, <2>1, <2>2, TailStill
  <2>4. QED
    BY <2>2, <2>3 DEF MakerPcs
<1>4. CASE Clears(q, p)
  <2>1. /\ q.todo # <<>> /\ p = NextTodo(q) /\ q.pc = "make" /\ q.todo[1][1] = "unlink"
    BY <1>4 DEF Clears
  <2>2. p.n = q.n /\ p.row = q.row /\ p.op = q.op /\ p.pc = "make" /\ p.todo = Tail(q.todo)
    BY <1>1, <2>1 DEF NextTodo, ReqType
  <2>3. \A v : StillMakes(q, v) => StillMakes(p, v)
    BY <1>1, <2>1, <2>2, TailStill
  <2>4. QED
    BY <2>2, <2>3 DEF MakerPcs
<1>5. CASE Starts(q, p)
  <2>1. p.n = q.n /\ p.row = q.row /\ p.op = q.op /\ p.pc = "making" /\ p.todo = q.todo
    BY <1>1, <1>5 DEF Starts, GoesTo, ReqType
  <2>2. QED
    BY <2>1 DEF MakerPcs, StillMakes
<1>6. CASE Makes(q, p)
  <2>1. /\ p = GoesTo(NextTodo(q), "make") /\ q.pc = "making" /\ F!Path(q.n, q.todo[1][2]) \in disk'
    BY <1>6 DEF Makes
  <2>2. q.todo # <<>>
    BY <1>1, <2>1 DEF ReqFits
  <2>3. p.n = q.n /\ p.row = q.row /\ p.op = q.op /\ p.pc = "make" /\ p.todo = Tail(q.todo)
    BY <1>1, <2>1 DEF NextTodo, GoesTo, ReqType
  <2>4. \A v : StillMakes(q, v) => StillMakes(p, v) \/ F!Path(q.n, v) \in disk'
    BY <1>1, <2>1, <2>2, <2>3, TailStill
  <2>5. QED
    BY <2>3, <2>4 DEF MakerPcs
<1>7. CASE Finishes(q, p)
  <2>1. p.n = q.n /\ p.row = q.row /\ p.op = q.op /\ p.pc = "record" /\ q.todo = <<>>
    BY <1>1, <1>7 DEF Finishes, GoesTo, ReqType
  <2>2. \A v : ~StillMakes(q, v)
    BY <2>1 DEF StillMakes
  <2>3. QED
    BY <2>1, <2>2 DEF MakerPcs
<1>8. QED
  BY <1>2, <1>3, <1>4, <1>5, <1>6, <1>7 DEF GivesUp, Breaks

\* A thumbnail of a sound file is there, or is made again.
LEMMA CoverKept ==
  ASSUME SizesFit, FileShape, NEW r \in Requests, NEW p, MovesOne(r, p), NEW n \in F!Uploads, Sound(n), Sound(n)', MainThere,
         NEW v, Covered(n, v)
  PROVE  Covered(n, v)'
<1> DEFINE q == req[r]
<1>1. /\ q \in ReqType /\ p \in ReqType /\ ReqFits(q) /\ req'[r] = p /\ \A s \in Requests : s # r => req'[s] = req[s]
  BY AtMove
<1>2. n \notin broken' /\ ~BusyAt(n, DeletingPcs) /\ F!Path(n, F!Main) \in disk
  BY DEF Sound, MainThere
<1>3. (\E s \in Requests : Remakes(req'[s], n, v)) \/ F!Path(n, v) \in disk' => Covered(n, v)'
  BY DEF Covered, Remakes, StillMakes
<1>4. CASE F!Path(n, v) \in disk /\ F!Path(n, v) \notin disk'
  <2>1. Clears(q, p) /\ q.pc = "make" /\ q.todo[1] = <<"unlink", v>> /\ q.n = n /\ q.todo # <<>> /\ p = NextTodo(q)
    BY <1>2, <1>4, DiskLoses DEF BusyAt, DeletingPcs
  <2>2. q.todo \in Seq(Todo)
    BY <1>1 DEF ReqType
  <2>3. 1 \in DOMAIN q.todo /\ DOMAIN q.todo = 1 .. Len(q.todo)
    BY <2>1, <2>2, TailFits
  <2>4. q.op = "regenerate" /\ \E j \in DOMAIN q.todo : q.todo[j] = <<"make", v>>
    BY <1>1, <2>1, <2>3 DEF ReqFits
  <2>5. p.n = q.n /\ p.op = q.op /\ p.pc = "make" /\ p.todo = Tail(q.todo)
    BY <1>1, <2>1 DEF NextTodo, ReqType
  <2>6. StillMakes(p, v)
    <3>1. StillMakes(q, v)
      BY <2>4 DEF StillMakes
    <3>2. q.todo[1] = <<"make", v>> \/ StillMakes(p, v)
      BY <1>1, <2>1, <2>5, <3>1, TailStill
    <3>3. q.todo[1] # <<"make", v>>
      BY <2>1
    <3>4. QED
      BY <3>2, <3>3
  <2>7. Remakes(p, n, v)
    BY <2>1, <2>4, <2>5, <2>6 DEF Remakes
  <2>8. QED
    BY <1>1, <1>3, <2>7
<1>5. CASE F!Path(n, v) \notin disk
  <2>1. PICK s \in Requests : Remakes(req[s], n, v)
    BY <1>5 DEF Covered
  <2>2. CASE s # r
    BY <1>1, <1>3, <2>1, <2>2
  <2>3. CASE s = r
    <3>1. q.op = "regenerate" /\ q.pc \in {"make", "making"} /\ q.n = n /\ StillMakes(q, v)
      BY <2>1, <2>3 DEF Remakes
    <3>2. p.n = n /\ p.op = "regenerate" /\ p.pc \in MakerPcs /\ ((p.pc # "record" /\ StillMakes(p, v)) \/ F!Path(n, v) \in disk')
      BY <1>2, <3>1, MakerMoves
    <3>3. QED
      BY <1>1, <1>3, <3>2 DEF Remakes, MakerPcs
  <2>4. QED
    BY <2>2, <2>3
<1>6. QED
  BY <1>3, <1>4, <1>5

\* Two requests are not about a file that one of them is still to insert.
LEMMA StoresAlone ==
  ASSUME FileShape, NEW s \in Requests, NEW t \in Requests, req[s].pc \in {"write", "insert"}, req[t].pc # "idle",
         req[t].n = req[s].n
  PROVE  s = t
BY DEF FileShape, ReqsFit, Storing

LEMMA MainKept ==
  ASSUME SizesFit, FileShape, NEW r \in Requests, NEW p, MovesOne(r, p), MainThere
  PROVE  MainThere'
<1> DEFINE q == req[r]
<1>1. /\ q \in ReqType /\ p \in ReqType /\ ReqFits(q) /\ MovesTo(q, p) /\ broken \subseteq broken'
      /\ req'[r] = p /\ \A s \in Requests : s # r => req'[s] = req[s]
  BY AtMove
<1>2. ASSUME NEW n \in F!Uploads, Sound(n)' PROVE F!Path(n, F!Main) \in disk'
  <2>1. CASE Sound(n)
    <3>1. F!Path(n, F!Main) \in disk /\ ~BusyAt(n, DeletingPcs)
      BY <2>1 DEF MainThere, Sound
    <3>2. QED
      BY <3>1, DiskLoses DEF BusyAt, DeletingPcs
  <2>2. CASE InsertsRow(q, p) /\ q.n = n /\ q.pc = "insert"
    <3>1. n \notin broken
      BY <1>1, <1>2 DEF Sound
    <3>2. disk' = disk
      BY <2>2 DEF InsertsRow
    <3>3. QED
      BY <2>2, <3>1, <3>2 DEF MainThere
  <2>3. QED
    BY <1>2, <2>1, <2>2, SoundBack
<1>3. ASSUME NEW s \in Requests, req'[s].pc = "insert", req'[s].n \notin broken' PROVE F!Path(req'[s].n, F!Main) \in disk'
  <2>1. CASE s # r
    <3>1. req'[s] = req[s] /\ F!Path(req[s].n, F!Main) \in disk
      BY <1>1, <1>3, <2>1 DEF MainThere
    <3>2. req[s].pc = "insert"
      BY <1>3, <3>1
    <3>3. F!Path(req[s].n, F!Main) \notin disk' => q.n = req[s].n /\ q.pc # "idle"
      BY <3>1, DiskLoses
    <3>4. QED
      BY <2>1, <3>1, <3>2, <3>3, StoresAlone
  <2>2. CASE s = r
    <3>1. p.pc = "insert" /\ p.n \notin broken'
      BY <1>1, <1>3, <2>2
    <3>2. WritesFile(q, p)
      BY <1>1, <3>1 DEF MovesTo, Begins, InsertsRow, Looks, Answers, Dooms, Plans, GivesUp, Passes, Clears, Starts, Makes,
               Finishes, Records, Unlinks, UnlinksLast, RemovesRow, Spares, Breaks, Leaves, Ends, GoesTo, NextTodo, ReqType
    <3>3. p.n = q.n /\ F!Path(q.n, F!Main) \in disk'
      BY <1>1, <3>2 DEF WritesFile, GoesTo, ReqType
    <3>4. QED
      BY <1>1, <2>2, <3>3
  <2>3. QED
    BY <2>1, <2>2
<1>4. QED
  BY <1>2, <1>3 DEF MainThere, Sound, BusyAt, Live

LEMMA ThumbsKept ==
  ASSUME SizesFit, FileShape, NEW r \in Requests, NEW p, MovesOne(r, p), MainThere, ThumbsThere
  PROVE  ThumbsThere'
<1> DEFINE q == req[r]
<1>1. /\ q \in ReqType /\ p \in ReqType /\ ReqFits(q) /\ MovesTo(q, p) /\ broken \subseteq broken'
      /\ req'[r] = p /\ \A s \in Requests : s # r => req'[s] = req[s]
      /\ 1 .. uploads \subseteq F!Uploads
  BY AtMove
<1>2. ASSUME NEW n \in F!Uploads, Sound(n)', NEW v \in files'[n].thumbs PROVE Covered(n, v)'
  <2>1. CASE Sound(n) /\ files'[n] = files[n]
    <3>1. Covered(n, v)
      BY <1>2, <2>1 DEF ThumbsThere
    <3>2. QED
      BY <1>2, <2>1, <3>1, CoverKept
  <2>2. CASE Sound(n) /\ files'[n] # files[n]
    <3>1. files'[n].is = "live" /\ files'[n].thumbs # {}
      BY <1>2 DEF Sound, Live
    <3>2. q.n = n /\ files'[n].thumbs = q.row.thumbs \cup AllThumbs(q.row.type) /\ q.pc = "record"
      BY <2>2, <3>1, RowMoves
    <3>3. q.row.thumbs \subseteq files[n].thumbs
      BY <1>1, <3>2 DEF ReqFits, MakerPcs
    <3>4. v \in files[n].thumbs \/ v \in AllThumbs(q.row.type)
      BY <1>2, <3>2, <3>3
    <3>5. v \in files[n].thumbs => Covered(n, v)
      BY <2>2 DEF ThumbsThere
    <3>6. v \in AllThumbs(q.row.type) => Covered(n, v)
      BY <2>2, <3>2 DEF ThumbsThere, MakerPcs
    <3>7. QED
      BY <1>2, <2>2, <3>4, <3>5, <3>6, CoverKept
  <2>3. CASE files'[n].thumbs = {}
    BY <1>2, <2>3
  <2>4. QED
    BY <1>2, <2>1, <2>2, <2>3, SoundBack
<1>3. ASSUME NEW s \in Requests, NEW n, NEW v, req'[s].pc \in MakerPcs, req'[s].n = n, Sound(n)', v \in AllThumbs(req'[s].row.type)
      PROVE  (req'[s].pc # "record" /\ StillMakes(req'[s], v)) \/ Covered(n, v)'
  <2>1. CASE s # r
    <3>1. req'[s] = req[s] /\ req[s].pc \in MakerPcs /\ ReqFits(req[s]) /\ v \in AllThumbs(req[s].row.type) /\ n = req[s].n
      <4>1. req'[s] = req[s] /\ ReqFits(req[s])
        BY <1>1, <2>1, AtMove
      <4>2. QED
        BY <1>3, <4>1
    <3>2. n \in F!Uploads
      BY <1>1, <3>1 DEF ReqFits, MakerPcs
    <3>3. Sound(n)
      <4>1. ~(q.n = n /\ q.pc = "insert")
        BY <2>1, <3>1, StoresAlone DEF MakerPcs
      <4>2. QED
        BY <1>3, <3>2, <4>1, SoundBack
    <3>4. (req[s].pc # "record" /\ StillMakes(req[s], v)) \/ Covered(n, v)
      BY <3>1, <3>3 DEF ThumbsThere
    <3>5. Covered(n, v) => Covered(n, v)'
      BY <1>3, <3>2, <3>3, CoverKept
    <3>6. QED
      BY <3>1, <3>4, <3>5
  <2>2. CASE s = r
    <3>1. req'[s] = p /\ p.pc \in MakerPcs /\ v \in AllThumbs(p.row.type) /\ p.n = n
      <4>1. req'[s] = p
        BY <1>1, <2>2
      <4>2. QED
        BY <1>3, <4>1
    <3>2. CASE Plans(q, p)
      <4>1. /\ p = [q EXCEPT !.pc = "make", !.todo = F!Jobs(q.row, q.op = "regenerate")] /\ q.row \in FileRows
        BY <1>1, <3>2 DEF Plans, ReqType
      <4>2. p.pc = "make" /\ p.row = q.row /\ p.todo = F!Jobs(q.row, q.op = "regenerate")
        BY <1>1, <4>1 DEF ReqType
      <4>3. (q.op = "regenerate") \in BOOLEAN
        OBVIOUS
      <4>4. \A w \in AllThumbs(q.row.type) : \E i \in DOMAIN p.todo : p.todo[i] = <<"make", w>>
        <5> HIDE DEF q
        <5>1. QED
          BY <4>1, <4>2, <4>3, JobsListed
      <4>5. p.pc # "record" /\ StillMakes(p, v)
        BY <3>1, <4>2, <4>4 DEF StillMakes
      <4>6. QED
        BY <3>1, <4>5
    <3>3. CASE q.pc \in {"make", "making"}
      <4>1. p.pc # "choose" /\ p.pc # "idle"
        BY <3>1 DEF MakerPcs
      <4>2. ~GivesUp(q, p)
        BY <4>1 DEF GivesUp, Leaves
      <4>3. ~Breaks(q, p)
        BY <3>3, <4>1 DEF Breaks, Leaves
      <4>4. p.n = q.n /\ q.n = n
        BY <1>1, <3>1, <3>3, <4>2, <4>3 DEF MovesTo, Begins, WritesFile, InsertsRow, Looks, Answers, Dooms, Plans, Passes, Clears, Starts, Makes,
               Finishes, Records, Unlinks, UnlinksLast, RemovesRow, Spares, GoesTo, NextTodo, ReqType
      <4>5. n \in F!Uploads
        BY <1>1, <3>3, <4>4 DEF ReqFits
      <4>6. n \notin broken'
        BY <1>3 DEF Sound
      <4>7. /\ p.row = q.row
            /\ \A w : StillMakes(q, w) => (p.pc # "record" /\ StillMakes(p, w)) \/ F!Path(n, w) \in disk'
        BY <3>3, <4>2, <4>4, <4>6, MakerMoves
      <4>8. Sound(n)
        BY <1>3, <3>3, <4>5, SoundBack
      <4>9. StillMakes(q, v) \/ Covered(n, v)
        BY <3>1, <3>3, <4>4, <4>7, <4>8 DEF ThumbsThere, MakerPcs
      <4>10. Covered(n, v) => Covered(n, v)'
        BY <1>3, <4>5, <4>8, CoverKept
      <4>11. F!Path(n, v) \in disk' => Covered(n, v)'
        BY DEF Covered
      <4>12. QED
        BY <3>1, <4>7, <4>9, <4>10, <4>11
    <3>4. Plans(q, p) \/ q.pc \in {"make", "making"}
      BY <1>1, <3>1 DEF MovesTo, Begins, WritesFile, InsertsRow, Looks, Answers, Dooms, GivesUp, Passes, Clears, Starts, Makes,
               Finishes, Records, Unlinks, UnlinksLast, RemovesRow, Spares, Breaks, Leaves, Ends, GoesTo, NextTodo, ReqType, MakerPcs
    <3>5. QED
      BY <3>2, <3>3, <3>4
  <2>3. QED
    BY <2>1, <2>2
<1>4. ASSUME NEW s \in Requests, NEW v, req'[s].pc \in MakerPcs, Sound(req[s].n)', v \in AllThumbs(req'[s].row.type)
      PROVE  (req'[s].pc # "record" /\ StillMakes(req'[s], v)) \/ Covered(req[s].n, v)'
  <2>1. PICK n : n = req'[s].n
    OBVIOUS
  <2>2. Sound(n)'
    BY <1>4, <2>1 DEF Sound, Live, BusyAt
  <2>3. Covered(n, v)' => Covered(req[s].n, v)'
    BY <2>1 DEF Covered
  <2>4. QED
    BY <1>3, <1>4, <2>1, <2>2, <2>3
<1>5. QED
  BY <1>2, <1>4 DEF ThumbsThere, StillMakes

\* What Noted says of two requests that meet at a file.
LEMMA Meeting ==
  ASSUME SizesFit, FileShape, NotedWell, NEW n \in F!Uploads, n \notin crossed', NEW s \in Requests, req[s].n = n,
         req[s].pc \in DeletingPcs
  PROVE  n \notin crossed /\ ~BusyAt(n, MakingPcs)
BY DEF NotedWell, BusyAt

LEMMA DeletersKept ==
  ASSUME SizesFit, FileShape, NEW r \in Requests, NEW p, MovesOne(r, p), NotedWell, DeletersDelete, OnlyNamed
  PROVE  DeletersDelete'
<1> DEFINE q == req[r]
<1>1. /\ q \in ReqType /\ p \in ReqType /\ ReqFits(q) /\ MovesTo(q, p) /\ broken \subseteq broken'
      /\ req'[r] = p /\ \A s \in Requests : s # r => req'[s] = req[s]
      /\ 1 .. uploads \subseteq F!Uploads
  BY AtMove
\* What comes to the disk while a file is deleted comes from a maker of thumbnails.
<1>2. ASSUME NEW n \in F!Uploads, files[n].is # "none", NEW what, F!Path(n, what) \in disk', F!Path(n, what) \notin disk
      PROVE  BusyAt(n, MakingPcs) /\ what \in AllThumbs(files[n].type)
  <2>1. F!Path(n, what)[1] = n /\ F!Path(n, what)[2] = what
    BY DEF F!Path
  <2>2. q.n = n /\ (WritesFile(q, p) \/ (what \in AllThumbs(files[n].type) /\ Makes(q, p)))
    BY <1>2, <2>1, DiskMoves
  <2>3. ~WritesFile(q, p)
    BY <1>1, <1>2, <2>2 DEF WritesFile, ReqFits
  <2>4. QED
    BY <2>2, <2>3 DEF Makes, BusyAt, MakingPcs
<1>3. ASSUME NEW s \in Requests, NEW n, req'[s].pc \in DeletingPcs, req'[s].n = n, n \notin broken'
      PROVE  /\ F!Path(n, F!Main) \in disk' => req'[s].pc = "unlink" /\ F!Main \in F!ToSet(req'[s].todo)
             /\ n \notin crossed' /\ ~BusyAt(n, MakingPcs)' =>
                   \A v \in AllThumbs(files'[n].type) : F!Path(n, v) \in disk' => req'[s].pc = "unlink" /\ v \in F!ToSet(req'[s].todo)
  <2>1. CASE s # r
    <3>1. req'[s] = req[s] /\ ReqFits(req[s])
      BY <1>1, <2>1, AtMove
    <3>2. req[s].pc \in DeletingPcs /\ req[s].n = n /\ n \notin broken
      BY <1>1, <1>3, <3>1
    <3>3. n \in F!Uploads /\ files[n].is # "none"
      BY <1>1, <3>1, <3>2 DEF ReqFits, DeletingPcs
    <3>4. files'[n].type = files[n].type
      BY <3>3, AtMove DEF Grown
    <3>5. Erases(req[s])
      BY <3>2 DEF DeletersDelete
    <3>6. F!Path(n, F!Main) \in disk' => F!Path(n, F!Main) \in disk
      <4>1. F!Main \notin AllThumbs(files[n].type)
        <5>1. files[n].type \in F!Types
          BY <3>3 DEF FileShape, FileTypes, FileRows
        <5>2. QED
          BY <5>1, MainApart
      <4>2. QED
        BY <1>2, <3>3, <4>1
    <3>7. n \notin crossed' => n \notin crossed /\ ~BusyAt(n, MakingPcs)
      BY <3>2, <3>3, Meeting
    <3>8. QED
      BY <1>2, <3>1, <3>2, <3>3, <3>4, <3>5, <3>6, <3>7 DEF Erases
  <2>2. CASE s = r
    <3>1. p.pc \in {"unlink", "remove"} /\ p.n = n
      <4>1. req'[s] = p
        BY <1>1, <2>2
      <4>2. QED
        BY <1>3, <4>1 DEF DeletingPcs
    <3>2. CASE Dooms(q, p)
      <4>1. /\ q.n = n /\ q.pc = "findAgain" /\ p.pc = "unlink" /\ p.todo = F!Unlinked(files[n]) /\ disk' = disk /\ files' = files
            /\ q.op = "destroy" /\ broken' = broken
        BY <3>1, <3>2 DEF Dooms, SameFile, Stays
      <4>2. n \in F!Uploads /\ files[n] \in FileRows
        BY <1>1, <4>1 DEF ReqFits, FileShape, FileTypes
      <4>3. F!Main \in F!ToSet(p.todo) /\ (files[n].thumbs # {} => AllThumbs(files[n].type) \subseteq F!ToSet(p.todo))
        BY <4>1, <4>2, UnlinkedFits
      <4>4. ASSUME n \notin crossed', ~BusyAt(n, MakingPcs)', NEW v \in AllThumbs(files[n].type), F!Path(n, v) \in disk
            PROVE  v \in F!ToSet(p.todo)
        <5>1. n \notin crossed
          BY <4>2, <4>4 DEF NotedWell
        <5>2. ~\E t \in Requests : req'[t].n = n /\ req'[t].pc \in MakingPcs
          BY <4>4 DEF BusyAt
        <5>3. ~BusyAt(n, MakerPcs)
          BY <1>1, <4>1, <5>2 DEF BusyAt, MakingPcs, MakerPcs
        <5>4. v # F!Main => v \in files[n].thumbs
          <6>1. RowNames(F!Path(n, v)) /\ F!Path(n, v)[1] = n /\ F!Path(n, v)[2] = v
            BY <4>4 DEF OnlyNamed, F!Path
          <6>2. n \notin broken \cup crossed
            BY <1>3, <4>1, <5>1
          <6>3. QED
            BY <5>3, <6>1, <6>2 DEF RowNames
        <5>5. QED
          BY <4>3, <4>4, <5>4
      <4>5. QED
        BY <1>1, <2>2, <4>1, <4>3, <4>4
    <3>3. CASE Unlinks(q, p) \/ UnlinksLast(q, p)
      <4>1. q.pc = "unlink" /\ p.n = q.n /\ files' = files /\ broken' = broken /\ disk' \subseteq disk
        BY <1>1, <3>3 DEF Unlinks, UnlinksLast, NextTodo, GoesTo, ReqType, Stays
      <4>2. q.n = n /\ n \in F!Uploads /\ n \notin broken
        BY <1>1, <1>3, <3>1, <4>1 DEF ReqFits
      <4>3. Erases(q)
        BY <4>1, <4>2 DEF DeletersDelete, DeletingPcs
      <4>4. n \notin crossed' => n \notin crossed /\ ~BusyAt(n, MakingPcs)
        BY <4>1, <4>2, Meeting DEF DeletingPcs
      <4>5. ASSUME NEW what, F!Path(n, what) \in disk', what \in F!ToSet(q.todo)
            PROVE  p.pc = "unlink" /\ what \in F!ToSet(p.todo)
        <5>1. CASE Unlinks(q, p)
          <6>1. q.todo # <<>> /\ p = NextTodo(q) /\ disk' = disk \ {F!Path(n, q.todo[1])}
            BY <4>2, <5>1 DEF Unlinks
          <6>2. p.pc = "unlink" /\ p.todo = Tail(q.todo)
            BY <1>1, <4>1, <6>1 DEF NextTodo, ReqType
          <6>3. what # q.todo[1]
            BY <4>5, <6>1
          <6>4. F!ToSet(q.todo) \subseteq {q.todo[1]} \cup F!ToSet(p.todo)
            BY <1>1, <6>1, <6>2, TailStill
          <6>5. QED
            BY <4>5, <6>2, <6>3, <6>4
        <5>2. CASE UnlinksLast(q, p)
          <6>1. q.todo = <<>>
            BY <5>2 DEF UnlinksLast
          <6>2. QED
            BY <4>5, <6>1 DEF F!ToSet
        <5>3. QED
          BY <3>3, <5>1, <5>2
      <4>6. QED
        BY <1>1, <2>2, <4>1, <4>2, <4>3, <4>4, <4>5 DEF Erases
    <3>4. CASE Breaks(q, p)
      <4>1. q.n \in broken' /\ p.n = q.n
        BY <1>1, <3>1, <3>4 DEF Breaks, Ends, Leaves, SameFile, NextTodo, ReqType
      <4>2. QED
        BY <1>3, <3>1, <4>1
    <3>5. Dooms(q, p) \/ Unlinks(q, p) \/ UnlinksLast(q, p) \/ Breaks(q, p)
      BY <1>1, <3>1 DEF MovesTo, Begins, WritesFile, InsertsRow, Looks, Answers, Plans, GivesUp, Passes, Clears, Starts, Makes,
               Finishes, Records, RemovesRow, Spares, Leaves, Ends, GoesTo, NextTodo, ReqType
    <3>6. QED
      BY <3>2, <3>3, <3>4, <3>5
  <2>3. QED
    BY <2>1, <2>2
<1>4. ASSUME NEW s \in Requests, req'[s].pc \in DeletingPcs, req'[s].n \notin broken' PROVE Erases(req[s])'
  <2>1. PICK n : n = req'[s].n
    OBVIOUS
  <2>2. BusyAt(req[s].n, MakingPcs)' <=> BusyAt(n, MakingPcs)'
    BY <2>1 DEF BusyAt
  <2>3. QED
    BY <1>3, <1>4, <2>1, <2>2 DEF Erases
<1>5. QED
  BY <1>4 DEF DeletersDelete

\* The maker of thumbnails has a request to itself: no other one stores the file.
LEMMA MakersKept ==
  ASSUME SizesFit, FileShape, NEW r \in Requests, NEW p, MovesOne(r, p), NotedWell, OnlyNamed, MakersFile
  PROVE  MakersFile'
<1> DEFINE q == req[r]
<1>1. /\ q \in ReqType /\ p \in ReqType /\ ReqFits(q) /\ MovesTo(q, p) /\ broken \subseteq broken'
      /\ req'[r] = p /\ \A s \in Requests : s # r => req'[s] = req[s]
      /\ 1 .. uploads \subseteq F!Uploads
  BY AtMove
<1>2. ASSUME NEW n \in F!Uploads, NEW s \in Requests, req[s].n = n, req[s].pc \in MakingPcs, n \notin crossed', Live(n),
             F!Path(n, F!Main) \in disk
      PROVE  Live(n)' /\ F!Path(n, F!Main) \in disk'
  <2>1. ~BusyAt(n, DeletingPcs)
    BY <1>2 DEF NotedWell, BusyAt
  <2>2. F!Path(n, F!Main) \in disk'
    BY <1>2, <2>1, DiskLoses DEF BusyAt, DeletingPcs
  <2>3. Live(n)'
    <3>1. CASE files'[n] = files[n]
      BY <1>2, <3>1 DEF Live
    <3>2. CASE files'[n] # files[n]
      BY <1>2, <2>1, <3>2, RowMoves DEF Live, BusyAt, DeletingPcs
    <3>3. QED
      BY <3>1, <3>2
  <2>4. QED
    BY <2>2, <2>3
<1>3. ASSUME NEW s \in Requests, NEW n, req'[s].pc \in MakerPcs, req'[s].n = n, n \notin broken' \cup crossed'
      PROVE  Live(n)' /\ F!Path(n, F!Main) \in disk'
  <2>1. crossed \subseteq crossed'
    BY DEF NotedWell
  <2>2. CASE req[s].pc \in MakerPcs /\ req[s].n = n
    <3>1. n \in F!Uploads
      BY <1>1, <2>2, AtMove DEF ReqFits, MakerPcs
    <3>2. Live(n) /\ F!Path(n, F!Main) \in disk
      BY <1>1, <1>3, <2>1, <2>2 DEF MakersFile
    <3>3. QED
      BY <1>2, <1>3, <2>2, <3>1, <3>2 DEF MakerPcs, MakingPcs
  <2>3. CASE s # r
    <3>1. req'[s] = req[s]
      BY <1>1, <2>3
    <3>2. QED
      BY <1>3, <2>2, <3>1
  <2>4. CASE s = r /\ ~(q.pc \in MakerPcs /\ q.n = n)
    <3>1. p.pc \in MakerPcs /\ p.n = n
      <4>1. req'[s] = p
        BY <1>1, <2>4
      <4>2. QED
        BY <1>3, <4>1
    <3>2. Plans(q, p)
      BY <1>1, <2>4, <3>1 DEF MovesTo, Begins, WritesFile, InsertsRow, Looks, Answers, Dooms, GivesUp, Passes, Clears, Starts, Makes,
               Finishes, Records, Unlinks, UnlinksLast, RemovesRow, Spares, Breaks, Leaves, Ends, GoesTo, NextTodo, ReqType, MakerPcs
    <3>3. q.pc = "metadata" /\ F!Path(q.n, F!Main) \in disk /\ p = [q EXCEPT !.pc = "make", !.todo = F!Jobs(q.row, q.op = "regenerate")]
      BY <3>2 DEF Plans
    <3>4. q.n = n
      BY <1>1, <3>1, <3>3 DEF ReqType
    <3>5. n \in F!Uploads
      BY <1>1, <3>3, <3>4 DEF ReqFits
    <3>6. ~BusyAt(n, {"insert"})
      BY <3>3, <3>4, StoresAlone DEF BusyAt
    <3>7. RowNames(F!Path(n, F!Main)) /\ F!Path(n, F!Main)[1] = n /\ F!Path(n, F!Main)[2] = F!Main
      BY <3>3, <3>4 DEF OnlyNamed, F!Path
    <3>8. Live(n)
      BY <1>1, <1>3, <3>6, <3>7 DEF RowNames
    <3>9. QED
      BY <1>2, <1>3, <2>4, <3>3, <3>4, <3>5, <3>8 DEF MakingPcs
  <2>5. QED
    BY <2>2, <2>3, <2>4
<1>4. ASSUME NEW s \in Requests, req'[s].pc \in MakerPcs, req'[s].n \notin broken' \cup crossed'
      PROVE  (Live(req[s].n) /\ F!Path(req[s].n, F!Main) \in disk)'
  <2>1. PICK n : n = req'[s].n
    OBVIOUS
  <2>2. Live(n)' /\ F!Path(n, F!Main) \in disk'
    BY <1>3, <1>4, <2>1
  <2>3. QED
    BY <2>1, <2>2 DEF Live
<1>5. QED
  BY <1>4 DEF MakersFile

LEMMA NamedKept ==
  ASSUME SizesFit, FileShape, NEW r \in Requests, NEW p, MovesOne(r, p), NotedWell, OnlyNamed, MakersFile, DeletersDelete
  PROVE  OnlyNamed'
<1> DEFINE q == req[r]
<1>1. /\ q \in ReqType /\ p \in ReqType /\ ReqFits(q) /\ MovesTo(q, p) /\ broken \subseteq broken'
      /\ req'[r] = p /\ \A s \in Requests : s # r => req'[s] = req[s]
      /\ 1 .. uploads \subseteq F!Uploads
  BY AtMove
<1>2. ASSUME NEW n \in F!Uploads, NEW w, F!Path(n, w) \in disk' \cap disk, w = F!Main, n \notin broken'
      PROVE  Live(n)' \/ BusyAt(n, {"insert"})'
  <2>1. RowNames(F!Path(n, w)) /\ F!Path(n, w)[1] = n /\ F!Path(n, w)[2] = w
    BY <1>2 DEF OnlyNamed, F!Path
  <2>2. Live(n) \/ BusyAt(n, {"insert"})
    BY <1>1, <1>2, <2>1 DEF RowNames
  <2>3. CASE Live(n)
    <3>1. ~(q.n = n /\ q.pc = "remove")
      BY <1>1, <1>2 DEF DeletersDelete, DeletingPcs, Erases
    <3>2. CASE files'[n] = files[n]
      BY <2>3, <3>2 DEF Live
    <3>3. CASE files'[n] # files[n]
      BY <2>3, <3>1, <3>3, RowMoves DEF Live
    <3>4. QED
      BY <3>2, <3>3
  <2>4. CASE ~Live(n)
    <3>1. PICK s \in Requests : req[s].n = n /\ req[s].pc = "insert"
      BY <2>2, <2>4 DEF BusyAt
    <3>2. CASE s # r
      BY <1>1, <3>1, <3>2 DEF BusyAt
    <3>3. CASE s = r
      <4>1. InsertsRow(q, p) \/ Breaks(q, p)
        BY <1>1, <3>1, <3>3 DEF MovesTo, Begins, WritesFile, Looks, Answers, Dooms, Plans, GivesUp, Passes, Clears, Starts, Makes,
               Finishes, Records, Unlinks, UnlinksLast, RemovesRow, Spares
      <4>2. ~Breaks(q, p)
        BY <1>2, <3>1, <3>3 DEF Breaks
      <4>3. files' = [files EXCEPT ![n] = [q.row EXCEPT !.is = "live"]] /\ files \in [F!Uploads -> FileRows] /\ q.row \in FileRows
        BY <1>1, <3>1, <3>3, <4>1, <4>2 DEF InsertsRow, FileShape, FileTypes, ReqType
      <4>4. files'[n].is = "live"
        BY <4>3 DEF FileRows
      <4>5. QED
        BY <4>4 DEF Live
    <3>4. QED
      BY <3>2, <3>3
  <2>5. QED
    BY <2>3, <2>4
<1>3. ASSUME NEW n \in F!Uploads, NEW w, F!Path(n, w) \in disk' \cap disk, w # F!Main, n \notin broken' \cup crossed'
      PROVE  Live(n)' /\ (w \in files'[n].thumbs \/ BusyAt(n, MakerPcs)')
  <2>1. RowNames(F!Path(n, w)) /\ F!Path(n, w)[1] = n /\ F!Path(n, w)[2] = w
    BY <1>3 DEF OnlyNamed, F!Path
  <2>2. n \notin crossed
    BY <1>3 DEF NotedWell
  <2>3. Live(n) /\ (w \in files[n].thumbs \/ BusyAt(n, MakerPcs)) /\ n \notin broken
    BY <1>1, <1>3, <2>1, <2>2 DEF RowNames
  <2>4. w \in AllThumbs(files[n].type)
    BY <1>3, <2>1 DEF FileShape, RowsFit
  <2>5. ~(q.n = n /\ q.pc = "remove")
    <3>1. SUFFICES ASSUME q.n = n, q.pc = "remove" PROVE FALSE
      OBVIOUS
    <3>2. Erases(q) /\ ~BusyAt(n, MakingPcs)
      BY <1>3, <2>3, <3>1, Meeting DEF DeletersDelete, DeletingPcs
    <3>3. QED
      BY <1>3, <2>2, <2>4, <3>1, <3>2 DEF Erases
  <2>6. Live(n)'
    <3>1. CASE files'[n] = files[n]
      BY <2>3, <3>1 DEF Live
    <3>2. CASE files'[n] # files[n]
      BY <2>3, <2>5, <3>2, RowMoves DEF Live
    <3>3. QED
      BY <3>1, <3>2
  <2>7. files[n].thumbs \subseteq files'[n].thumbs
    BY <2>3, AtMove DEF Grown, Live
  <2>8. CASE BusyAt(n, MakerPcs)
    <3>1. PICK s \in Requests : req[s].n = n /\ req[s].pc \in MakerPcs
      BY <2>8 DEF BusyAt
    <3>2. CASE s # r
      BY <1>1, <2>6, <3>1, <3>2 DEF BusyAt
    <3>3. CASE s = r
      <4>1. q.n = n /\ q.pc \in MakerPcs /\ q.row.type = files[n].type
        BY <1>1, <3>1, <3>3 DEF ReqFits
      <4>2. F!Path(n, F!Main) \in disk
        BY <2>2, <2>3, <3>1 DEF MakersFile
      <4>3. CASE q.pc \in {"make", "making"}
        <5>1. p.n = n /\ p.pc \in MakerPcs
          BY <1>3, <4>1, <4>2, <4>3, MakerMoves
        <5>2. QED
          BY <1>1, <2>6, <5>1 DEF BusyAt
      <4>4. CASE q.pc = "record"
        <5>1. Records(q, p) \/ Breaks(q, p)
          BY <1>1, <4>4 DEF MovesTo, Begins, WritesFile, InsertsRow, Looks, Answers, Dooms, Plans, GivesUp, Passes, Clears, Starts, Makes,
               Finishes, Unlinks, UnlinksLast, RemovesRow, Spares
        <5>2. ~Breaks(q, p)
          BY <1>3, <4>1 DEF Breaks
        <5>3. files' = [files EXCEPT ![n].thumbs = q.row.thumbs \cup AllThumbs(q.row.type)]
          BY <4>1, <5>1, <5>2 DEF Records
        <5>4. files[n] \in FileRows /\ files \in [F!Uploads -> FileRows]
          BY DEF FileShape, FileTypes
        <5>5. files'[n].thumbs = q.row.thumbs \cup AllThumbs(q.row.type)
          BY <5>3, <5>4 DEF FileRows
        <5>6. QED
          BY <2>4, <2>6, <4>1, <5>5
      <4>5. QED
        BY <4>1, <4>3, <4>4 DEF MakerPcs
    <3>4. QED
      BY <3>2, <3>3
  <2>9. QED
    BY <2>3, <2>6, <2>7, <2>8
<1>4. ASSUME NEW path \in disk', path \notin disk
      PROVE  /\ path[2] = F!Main => BusyAt(path[1], {"insert"})'
             /\ path[2] # F!Main /\ path[1] \notin broken' \cup crossed' => (Live(path[1]) /\ BusyAt(path[1], MakerPcs))'
  <2>1. path[1] = q.n /\ q.n \in F!Uploads /\ ((path[2] = F!Main /\ WritesFile(q, p)) \/ (path[2] \in AllThumbs(files[q.n].type) /\ Makes(q, p)))
    BY <1>1, <1>4, DiskMoves
  <2>2. PICK n : n = q.n
    OBVIOUS
  <2>3. CASE WritesFile(q, p)
    <3>1. p = GoesTo(q, "insert") /\ path[2] = F!Main
      BY <2>1, <2>3 DEF WritesFile, Makes
    <3>2. p.pc = "insert" /\ p.n = n
      BY <1>1, <2>2, <3>1 DEF GoesTo, ReqType
    <3>3. BusyAt(n, {"insert"})'
      BY <1>1, <3>2 DEF BusyAt
    <3>4. QED
      BY <2>1, <2>2, <3>1, <3>3
  <2>4. CASE Makes(q, p)
    <3>1. p = GoesTo(NextTodo(q), "make") /\ q.pc = "making" /\ files' = files
      BY <2>4 DEF Makes
    <3>2. p.pc = "make" /\ p.n = n
      BY <1>1, <2>2, <3>1 DEF GoesTo, NextTodo, ReqType
    <3>3. BusyAt(n, MakerPcs)'
      BY <1>1, <3>2 DEF BusyAt, MakerPcs
    <3>4. path[2] # F!Main
      <4>1. ~WritesFile(q, p)
        BY <3>1 DEF WritesFile
      <4>2. path[2] \in AllThumbs(files[q.n].type) /\ files[q.n].type \in F!Types
        BY <2>1, <4>1 DEF FileShape, FileTypes, FileRows
      <4>3. QED
        BY <4>2, MainApart
    <3>5. path[1] \notin broken' \cup crossed' => Live(n)'
      <4>1. crossed \subseteq crossed'
        BY DEF NotedWell
      <4>2. n \notin broken' \cup crossed' => Live(n)
        BY <1>1, <2>2, <3>1, <4>1 DEF MakersFile, MakerPcs
      <4>3. QED
        BY <2>1, <2>2, <3>1, <4>2 DEF Live
    <3>6. QED
      BY <2>1, <2>2, <3>3, <3>4, <3>5
  <2>5. QED
    BY <2>1, <2>3, <2>4
<1>5. ASSUME NEW path \in disk' PROVE RowNames(path)'
  <2>1. CASE path \in disk
    <3>1. PICK n, w : n = path[1] /\ w = path[2]
      OBVIOUS
    <3>2. n \in F!Uploads /\ path = F!Path(n, w)
      BY <1>1, <2>1, <3>1 DEF FileShape, RowsFit
    <3>3. path[1] = n /\ path[2] = w
      BY <3>1
    <3>4. w = F!Main /\ n \notin broken' => Live(n)' \/ BusyAt(n, {"insert"})'
      BY <1>2, <1>5, <2>1, <3>2
    <3>5. w # F!Main /\ n \notin broken' \cup crossed' => Live(n)' /\ (w \in files'[n].thumbs \/ BusyAt(n, MakerPcs)')
      BY <1>3, <1>5, <2>1, <3>2
    <3>6. QED
      BY <3>3, <3>4, <3>5 DEF RowNames
  <2>2. CASE path \notin disk
    BY <1>4, <1>5, <2>2 DEF RowNames
  <2>3. QED
    BY <2>1, <2>2
<1>6. QED
  BY <1>5 DEF OnlyNamed

\* Nothing is deleted under a request that is not disturbed.
LEMMA QuietSound ==
  ASSUME SizesFit, FileShape, Undisturbed, NEW s \in Requests \ rough, req[s].pc \notin {"idle"} \cup DeletingPcs,
         req[s].n \notin broken, Live(req[s].n)
  PROVE  /\ Sound(req[s].n)
         /\ req[s].op # "regenerate" => \A v : ~\E t \in Requests : Remakes(req[t], req[s].n, v)
<1> DEFINE n == req[s].n
<1>1. \A t \in Requests \ {s} : ~(F!Disturbs(req[t]) /\ req[t].n = n)
  BY DEF Undisturbed
<1>2. \A t \in Requests : req[t].pc \in DeletingPcs => F!Disturbs(req[t])
  BY DEF FileShape, ReqsFit, ReqFits, DeletingPcs, F!Disturbs
<1>3. ~BusyAt(n, DeletingPcs)
  BY <1>1, <1>2 DEF BusyAt
<1>4. Sound(n)
  BY <1>3 DEF Sound
<1>5. \A t \in Requests : \A v : Remakes(req[t], n, v) => F!Disturbs(req[t]) /\ req[t].n = n /\ req[t].op = "regenerate"
  BY DEF Remakes, F!Disturbs
<1>6. QED
  BY <1>1, <1>4, <1>5

LEMMA SecondKept ==
  ASSUME SizesFit, FileShape, NEW r \in Requests, NEW p, MovesOne(r, p), NotedWell, Undisturbed, MainThere, SecondTime
  PROVE  SecondTime'
<1> DEFINE q == req[r]
<1>1. /\ q \in ReqType /\ p \in ReqType /\ ReqFits(q) /\ MovesTo(q, p) /\ broken \subseteq broken'
      /\ req'[r] = p /\ \A s \in Requests : s # r => req'[s] = req[s]
      /\ 1 .. uploads \subseteq F!Uploads
  BY AtMove
<1>2. ASSUME NEW s \in Requests, NEW n, s \notin rough', req'[s].pc = "choose", req'[s].again, req'[s].n = n, n \notin broken',
             files'[n].is = "live"
      PROVE  req'[s].row.thumbs = AllThumbs(req'[s].row.type)
  <2>1. CASE s # r
    <3>1. req'[s] = req[s] /\ ReqFits(req[s])
      BY <1>1, <2>1, AtMove
    <3>2. req[s].pc = "choose" /\ req[s].again /\ req[s].n = n /\ s \notin rough
      <4>1. req[s].pc = "choose" /\ req[s].again /\ req[s].n = n
        BY <1>2, <3>1
      <4>2. QED
        BY <1>2, <4>1 DEF NotedWell
    <3>3. n \in F!Uploads /\ files[n].is # "none"
      BY <1>1, <3>1, <3>2 DEF ReqFits
    <3>4. Live(n)
      BY <1>2, <3>3, AtMove DEF Grown, Live
    <3>5. QED
      BY <1>1, <1>2, <3>1, <3>2, <3>4 DEF SecondTime
  <2>2. CASE s = r
    <3>1. p.pc = "choose" /\ p.again /\ p.n = n /\ req'[s] = p
      <4>1. req'[s] = p
        BY <1>1, <2>2
      <4>2. QED
        BY <1>2, <4>1
    <3>2. ~Looks(q, p)
      <4>1. SUFFICES ASSUME Looks(q, p) PROVE FALSE
        OBVIOUS
      <4>2. q.pc = "findAgain" /\ p.again = q.again
        BY <3>1, <4>1 DEF Looks
      <4>3. QED
        BY <1>1, <3>1, <4>2 DEF ReqFits
    <3>3. ~Breaks(q, p)
      <4>1. Breaks(q, p) => q.n \in broken' /\ p.n = q.n
        BY <1>1, <3>1 DEF Breaks, Ends, Leaves, SameFile, NextTodo, ReqType
      <4>2. QED
        BY <1>2, <3>1, <4>1
    <3>4. ~GivesUp(q, p)
      <4>1. SUFFICES ASSUME GivesUp(q, p) PROVE FALSE
        OBVIOUS
      <4>2. q.pc \in {"metadata", "make"} /\ F!Path(q.n, F!Main) \notin disk /\ files' = files /\ broken' = broken /\ p.n = q.n
        BY <4>1 DEF GivesUp, Stays, Leaves, SameFile
      <4>3. r \notin rough
        BY <1>2, <2>2, <4>2 DEF NotedWell
      <4>4. q.n \notin broken /\ Live(q.n)
        BY <1>2, <3>1, <4>2 DEF Live
      <4>5. Sound(q.n) /\ q.n \in F!Uploads
        BY <1>1, <4>2, <4>3, <4>4, QuietSound DEF DeletingPcs, ReqFits
      <4>6. QED
        BY <4>2, <4>5 DEF MainThere
    <3>5. Records(q, p)
      <4>1. ~(Passes(q, p) \/ Clears(q, p) \/ Starts(q, p) \/ Makes(q, p) \/ Finishes(q, p))
        BY <1>1, <3>1 DEF Passes, Clears, Starts, Makes, Finishes, GoesTo, NextTodo, ReqType
      <4>2. ~(WritesFile(q, p) \/ Plans(q, p) \/ Unlinks(q, p) \/ UnlinksLast(q, p))
        <5>1. ~(WritesFile(q, p) \/ Unlinks(q, p) \/ UnlinksLast(q, p))
          BY <1>1, <3>1 DEF WritesFile, Unlinks, UnlinksLast, GoesTo, NextTodo, ReqType
        <5>2. Plans(q, p) => p.pc = "make"
          BY <1>1 DEF Plans, ReqType
        <5>3. QED
          BY <3>1, <5>1, <5>2
      <4>3. ~(Begins(q, p) \/ InsertsRow(q, p) \/ Answers(q, p) \/ Dooms(q, p) \/ RemovesRow(q, p) \/ Spares(q, p))
        BY <3>1 DEF Begins, InsertsRow, Answers, Dooms, RemovesRow, Spares, Ends
      <4>4. QED
        BY <1>1, <3>2, <3>3, <3>4, <4>1, <4>2, <4>3 DEF MovesTo
    <3>6. q.pc = "record" /\ p.row = [q.row EXCEPT !.thumbs = q.row.thumbs \cup AllThumbs(q.row.type)] /\ q.row \in FileRows
      BY <1>1, <3>1, <3>5 DEF Records, Leaves, ReqType
    <3>7. q.row.thumbs \in {{}, AllThumbs(q.row.type)}
      BY <1>1, <3>6 DEF ReqFits, MakerPcs
    <3>8. p.row.type = q.row.type /\ p.row.thumbs = q.row.thumbs \cup AllThumbs(q.row.type)
      BY <3>6 DEF FileRows
    <3>9. QED
      BY <3>1, <3>7, <3>8
  <2>3. QED
    BY <2>1, <2>2
<1>3. QED
  BY <1>2 DEF SecondTime, Live

LEMMA ServedKept ==
  ASSUME SizesFit, FileShape, NEW r \in Requests, NEW p, MovesOne(r, p), NotedWell, Undisturbed, MainThere, ThumbsThere,
         SecondTime, F!Served
  PROVE  F!Served'
<1> DEFINE q == req[r]
<1>1. /\ q \in ReqType /\ p \in ReqType /\ ReqFits(q) /\ MovesTo(q, p) /\ broken \subseteq broken'
      /\ req'[r] = p /\ \A s \in Requests : s # r => req'[s] = req[s]
      /\ 1 .. uploads \subseteq F!Uploads
  BY AtMove
<1>2. ASSUME NEW s \in Requests, NEW n, s \notin rough', req'[s].pc = "idle", req'[s].n = n, n \notin broken',
             files'[n].is = "live",
             req'[s].op \in {"show", "download", "view"} \/ (req'[s].op = "thumbnail" /\ files'[n].type # "text")
      PROVE  req'[s].ans = 200
  <2>1. CASE s # r
    <3>1. req'[s] = req[s] /\ ReqFits(req[s])
      BY <1>1, <2>1, AtMove
    <3>2. req[s].pc = "idle" /\ req[s].n = n /\ s \notin rough
      <4>1. req[s].pc = "idle" /\ req[s].n = n
        BY <1>2, <3>1
      <4>2. QED
        BY <1>2, <3>1, <4>1 DEF NotedWell
    <3>3. n \in F!Uploads /\ files[n].is # "none"
      BY <1>1, <1>2, <3>1, <3>2 DEF ReqFits
    <3>4. files[n].is = "live" /\ files'[n].type = files[n].type
      BY <1>2, <3>3, AtMove DEF Grown
    <3>5. QED
      BY <1>1, <1>2, <3>1, <3>2, <3>4 DEF F!Served
  <2>2. CASE s = r
    <3>1. /\ p.pc = "idle" /\ p.n = n /\ req'[s] = p
          /\ p.op \in {"show", "download", "view"} \/ (p.op = "thumbnail" /\ files'[n].type # "text")
      <4>1. req'[s] = p
        BY <1>1, <2>2
      <4>2. QED
        BY <1>2, <4>1
    <3>2. ~Breaks(q, p)
      <4>1. Breaks(q, p) => q.n \in broken' /\ p.n = q.n
        BY <1>1, <3>1 DEF Breaks, Ends, Leaves, SameFile, NextTodo, ReqType
      <4>2. QED
        BY <1>2, <3>1, <4>1
    <3>3. ~Begins(q, p)
      BY <3>1 DEF Begins
    <3>4. ~Leaves(q, p, q.row.thumbs) /\ ~Leaves(q, p, q.row.thumbs \cup AllThumbs(q.row.type))
      BY <3>1 DEF Leaves, SameFile
    <3>5. ~InsertsRow(q, p) /\ ~Spares(q, p) /\ ~RemovesRow(q, p)
      BY <1>1, <3>1 DEF InsertsRow, Spares, RemovesRow, ReqFits, Ends, SameFile
    <3>6. Answers(q, p)
      BY <1>1, <3>1, <3>2, <3>3, <3>4, <3>5 DEF MovesTo, WritesFile, Looks, Dooms, Plans, GivesUp, Passes, Clears, Starts, Makes,
               Finishes, Records, Unlinks, UnlinksLast, GoesTo, NextTodo, ReqType
    <3>7. q.pc \in {"find", "findAgain", "choose"} /\ files' = files /\ disk' = disk /\ broken' = broken /\ q.n = n /\ p.op = q.op
      BY <3>1, <3>6 DEF Answers, Stays, Ends, SameFile
    <3>8. r \notin rough /\ n \notin broken /\ Live(n) /\ n \in F!Uploads
      <4>1. r \notin rough
        BY <1>2, <2>2, <3>7 DEF NotedWell
      <4>2. n \in F!Uploads
        BY <1>1, <3>7 DEF ReqFits
      <4>3. QED
        BY <1>2, <3>7, <4>1, <4>2 DEF Live
    <3>9. Sound(n) /\ \A v : ~\E t \in Requests : Remakes(req[t], n, v)
      BY <3>1, <3>7, <3>8, QuietSound DEF DeletingPcs
    <3>10. CASE q.op \in {"show", "download", "view"}
      <4>1. F!Path(n, F!Main) \in disk
        BY <3>8, <3>9 DEF MainThere
      <4>2. QED
        BY <3>1, <3>6, <3>7, <3>8, <3>10, <4>1 DEF Answers
    <3>11. CASE q.op = "thumbnail"
      <4>1. PICK v \in {q.want, <<q.want[1], "webp">>} :
                /\ q.pc = "choose"
                /\ q.again => v = <<q.want[1], "webp">>
                /\ ~q.again => v \in q.row.thumbs
                /\ v \in q.row.thumbs /\ F!Path(n, v) \in disk => p.ans = 200
        BY <3>1, <3>6, <3>7, <3>8, <3>11 DEF Answers
      <4>2. q.row.thumbs \subseteq files[n].thumbs /\ q.want \in Variety /\ q.row.type \in F!Types
        BY <1>1, <3>7, <3>11, <4>1 DEF ReqFits, ReqType, FileRows
      <4>3. v \in q.row.thumbs
        <5>1. CASE q.again
          <6>1. q.row.thumbs = AllThumbs(q.row.type)
            BY <3>7, <3>8, <4>1, <5>1 DEF SecondTime
          <6>2. AllThumbs(q.row.type) = SizeSet \X F!ToSet(F!Formats(q.row.type)) /\ "webp" \in F!ToSet(F!Formats(q.row.type))
            BY <4>2, VariantsListed, FormatsFit
          <6>3. q.want[1] \in SizeSet
            BY <4>2 DEF Variety
          <6>4. QED
            BY <4>1, <5>1, <6>1, <6>2, <6>3
        <5>2. CASE ~q.again
          BY <4>1, <5>2
        <5>3. QED
          BY <5>1, <5>2
      <4>4. Covered(n, v)
        BY <3>8, <3>9, <4>2, <4>3 DEF ThumbsThere
      <4>5. F!Path(n, v) \in disk
        BY <3>9, <4>4 DEF Covered
      <4>6. QED
        BY <3>1, <4>1, <4>3, <4>5
    <3>12. QED
      BY <3>1, <3>7, <3>10, <3>11
  <2>3. QED
    BY <2>1, <2>2
<1>3. QED
  BY <1>2 DEF F!Served

LEMMA FilesMoved ==
  ASSUME SizesFit, FileInv, NEW r \in Requests, NEW p, MovesOne(r, p), NotedWell
  PROVE  FileInv'
<1>1. FileShape /\ MainThere /\ ThumbsThere /\ DeletersDelete /\ OnlyNamed /\ MakersFile /\ Undisturbed /\ SecondTime /\ F!Served
  BY DEF FileInv, DiskInv
<1>2. FileShape'
  BY <1>1, ShapeMoved
<1>3. MainThere' /\ ThumbsThere'
  BY <1>1, MainKept, ThumbsKept
<1>4. DeletersDelete' /\ OnlyNamed' /\ MakersFile'
  BY <1>1, DeletersKept, NamedKept, MakersKept
<1>5. SecondTime' /\ F!Served'
  BY <1>1, SecondKept, ServedKept
<1>6. Undisturbed'
  BY DEF NotedWell
<1>7. QED
  BY <1>2, <1>3, <1>4, <1>5, <1>6 DEF FileInv, DiskInv

\* When the process dies, nobody is at a file any more, and those of the requests met trouble.
LEMMA FilesCrashed ==
  ASSUME SizesFit, FileInv, Crashed, crossed \subseteq crossed'
  PROVE  FileInv'
<1>1. FileShape /\ MainThere /\ ThumbsThere /\ OnlyNamed
  BY DEF FileInv, DiskInv
<1>2. FileShape'
  BY <1>1, ShapeCrashed
<1>3. /\ files' = files /\ disk' = disk /\ \A s \in Requests : req'[s].pc = "idle" /\ req'[s].op = ""
      /\ broken' = broken \cup {req[r].n : r \in {q \in Requests : req[q].pc # "idle"}}
  BY IdleReqFits DEF Crashed
<1>4. ASSUME NEW n, n \notin broken', NEW pcs, "idle" \notin pcs PROVE n \notin broken /\ ~BusyAt(n, pcs)
  BY <1>3, <1>4 DEF BusyAt
<1>5. MainThere'
  <2>1. ASSUME NEW n \in F!Uploads, Sound(n)' PROVE F!Path(n, F!Main) \in disk'
    <3>1. n \notin broken' /\ Live(n)
      BY <1>3, <2>1 DEF Sound, Live
    <3>2. Sound(n)
      BY <1>4, <3>1 DEF Sound, DeletingPcs
    <3>3. QED
      BY <1>1, <1>3, <3>2 DEF MainThere
  <2>2. QED
    BY <1>3, <2>1 DEF MainThere, Sound, Live, BusyAt
<1>6. ThumbsThere'
  <2>1. ASSUME NEW n \in F!Uploads, Sound(n)', NEW v \in files'[n].thumbs PROVE Covered(n, v)'
    <3>1. n \notin broken' /\ Live(n) /\ v \in files[n].thumbs
      BY <1>3, <2>1 DEF Sound, Live
    <3>2. Sound(n)
      BY <1>4, <3>1 DEF Sound, DeletingPcs
    <3>3. Covered(n, v)
      BY <1>1, <3>1, <3>2 DEF ThumbsThere
    <3>4. ~BusyAt(n, {"make", "making"})
      BY <1>4, <3>1
    <3>5. F!Path(n, v) \in disk
      BY <3>3, <3>4 DEF Covered, Remakes, BusyAt
    <3>6. QED
      BY <1>3, <3>5 DEF Covered
  <2>2. \A s \in Requests : req'[s].pc \notin MakerPcs
    BY <1>3 DEF MakerPcs
  <2>3. QED
    BY <2>1, <2>2 DEF ThumbsThere
<1>7. DeletersDelete' /\ MakersFile'
  BY <1>3 DEF DeletersDelete, MakersFile, DeletingPcs, MakerPcs
<1>8. OnlyNamed'
  <2>1. ASSUME NEW path \in disk PROVE RowNames(path)'
    <3>1. RowNames(path)
      BY <1>1, <2>1 DEF OnlyNamed
    <3>2. path[1] \notin broken' => path[1] \notin broken /\ ~BusyAt(path[1], {"insert"}) /\ ~BusyAt(path[1], MakerPcs)
      BY <1>4 DEF MakerPcs
    <3>3. QED
      BY <1>3, <3>1, <3>2 DEF RowNames, Live
  <2>2. QED
    BY <1>3, <2>1 DEF OnlyNamed
<1>9. Undisturbed' /\ SecondTime' /\ F!Served'
  BY <1>3 DEF Undisturbed, SecondTime, F!Served
<1>10. QED
  BY <1>2, <1>5, <1>6, <1>7, <1>8, <1>9 DEF FileInv, DiskInv

\* A link that expires, and a step that changes nothing here.
LEMMA FilesStay ==
  ASSUME SizesFit, FileInv, Expired \/ UNCHANGED F!fileVars, crossed \subseteq crossed',
         \A s \in Requests : s \in rough /\ ~(req[s].pc = "idle" /\ req'[s].pc # "idle") => s \in rough'
  PROVE  FileInv'
<1>1. files' = files /\ disk' = disk /\ req' = req /\ broken' = broken
  BY DEF Expired, F!fileVars
<1>2. FileShape'
  BY ShapeCrashed DEF FileInv
<1>3. \A s \in Requests : s \in rough => s \in rough'
  BY <1>1
<1>4. MainThere' /\ ThumbsThere'
  <2>1. \A n : Sound(n)' <=> Sound(n)
    BY <1>1 DEF Sound, Live, BusyAt
  <2>2. \A n, v : Covered(n, v)' <=> Covered(n, v)
    BY <1>1 DEF Covered, Remakes, StillMakes
  <2>3. \A s \in Requests : (Sound(req[s].n)' <=> Sound(req[s].n)) /\ \A v : Covered(req[s].n, v)' <=> Covered(req[s].n, v)
    BY <1>1 DEF Sound, Live, BusyAt, Covered, Remakes, StillMakes
  <2>4. MainThere'
    BY <1>1, <2>1 DEF FileInv, DiskInv, MainThere
  <2>5. ThumbsThere'
    BY <1>1, <2>1, <2>2, <2>3 DEF FileInv, DiskInv, ThumbsThere, StillMakes
  <2>6. QED
    BY <2>4, <2>5
<1>5. DeletersDelete' /\ MakersFile'
  BY <1>1 DEF FileInv, DiskInv, DeletersDelete, MakersFile, Erases, BusyAt, Live
<1>6. OnlyNamed'
  BY <1>1 DEF FileInv, DiskInv, OnlyNamed, RowNames, BusyAt, Live
<1>7. Undisturbed' /\ SecondTime' /\ F!Served'
  BY <1>1, <1>3 DEF FileInv, Undisturbed, SecondTime, F!Served, Live
<1>8. QED
  BY <1>2, <1>4, <1>5, <1>6, <1>7 DEF FileInv, DiskInv

LEMMA FilesInit == SizesFit /\ F!Init => FileInv
<1> SUFFICES ASSUME SizesFit, F!Init PROVE FileInv
  OBVIOUS
<1>1. FileShape
  BY ShapeInit
<1>2. disk = {} /\ (\A n \in F!Uploads : files[n].is = "none") /\ \A s \in Requests : req[s].pc = "idle" /\ req[s].op = ""
  BY IdleReqFits DEF F!Init, F!NoRow
<1>3. DiskInv
  BY <1>2 DEF DiskInv, MainThere, ThumbsThere, DeletersDelete, OnlyNamed, MakersFile, Sound, Live, MakerPcs, DeletingPcs
<1>4. Undisturbed /\ SecondTime /\ F!Served
  BY <1>2 DEF Undisturbed, SecondTime, F!Served
<1>5. QED
  BY <1>1, <1>3, <1>4 DEF FileInv

LEMMA FilesStep == ASSUME SizesFit, FileInv, [F!Next]_(F!fileVars) PROVE FileInv'
<1>1. CASE F!Next
  <2>1. NotedWell
    BY <1>1, NotedRemembered DEF F!Next
  <2>2. (\E r \in Requests : \E p : MovesOne(r, p)) \/ Crashed \/ Expired
    BY <1>1, FileMoves DEF FileInv
  <2>3. CASE \E r \in Requests : \E p : MovesOne(r, p)
    BY <2>1, <2>3, FilesMoved
  <2>4. CASE Crashed
    BY <2>1, <2>4, FilesCrashed DEF NotedWell
  <2>5. CASE Expired
    BY <2>1, <2>5, FilesStay DEF NotedWell
  <2>6. QED
    BY <2>2, <2>3, <2>4, <2>5
<1>2. CASE UNCHANGED F!fileVars
  BY <1>2, FilesStay DEF F!fileVars
<1>3. QED
  BY <1>1, <1>2

LEMMA FilesSaid == ASSUME SizesFit, FileInv PROVE F!FilesKept
<1>1. FileShape /\ MainThere /\ ThumbsThere /\ OnlyNamed /\ F!Served
  BY DEF FileInv, DiskInv
<1>2. F!NamedThere
  <2>1. ASSUME NEW n \in F!Uploads \ broken, files[n].is = "live", ~F!Doing(n, {"destroy", "regenerate"})
        PROVE  F!Path(n, F!Main) \in disk /\ \A v \in files[n].thumbs : F!Path(n, v) \in disk
    <3>1. ~BusyAt(n, DeletingPcs)
      BY <1>1, <2>1 DEF FileShape, ReqsFit, ReqFits, F!Doing, BusyAt, DeletingPcs
    <3>2. Sound(n)
      BY <2>1, <3>1 DEF Sound, Live
    <3>3. \A v : ~\E s \in Requests : Remakes(req[s], n, v)
      BY <2>1 DEF F!Doing, Remakes
    <3>4. QED
      BY <1>1, <3>2, <3>3 DEF MainThere, ThumbsThere, Covered
  <2>2. QED
    BY <2>1 DEF F!NamedThere
<1>3. F!NothingLeft
  <2>1. ASSUME \A r \in Requests : req[r].pc = "idle", NEW path \in disk, path[1] \notin broken \cup crossed
        PROVE  files[path[1]].is = "live" /\ path[2] \in {F!Main} \cup files[path[1]].thumbs
    <3>1. RowNames(path) /\ ~BusyAt(path[1], {"insert"}) /\ ~BusyAt(path[1], MakerPcs)
      BY <1>1, <2>1 DEF OnlyNamed, BusyAt, MakerPcs
    <3>2. QED
      BY <2>1, <3>1 DEF RowNames, Live
  <2>2. QED
    BY <2>1 DEF F!NothingLeft, F!At
<1>4. QED
  BY <1>1, <1>2, <1>3 DEF F!FilesKept

\* FilesKept: whatever requests upload, serve, make, remake and delete at once, and
\* wherever steps fail or the process dies, a live row's file and thumbnails are on
\* the disk while nothing rewrites them, nothing is left of what was deleted, and an
\* undisturbed request is served.
THEOREM FilesAlwaysKept == SizesFit => (F!Spec => []FilesKept)
<1> SUFFICES ASSUME SizesFit PROVE F!Spec => []FilesKept
  OBVIOUS
<1>1. F!Init => FileInv
  BY FilesInit
<1>2. FileInv /\ [F!Next]_(F!fileVars) => FileInv'
  BY FilesStep
<1>3. FileInv => FilesKept
  BY FilesSaid DEF FilesKept
<1>4. QED
  BY <1>1, <1>2, <1>3, PTL DEF F!Spec
=============================================================================
