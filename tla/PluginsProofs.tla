--------------------------- MODULE PluginsProofs ---------------------------
(***************************************************************************)
(* Theorems about the plugin manager for any plugins, lists of plugins,    *)
(* failures and windows.  First the storage of plugin objects: what each   *)
(* of its steps does, that steps keep it well-typed and the counts of      *)
(* objects right, and that the recursions over tasks, lists and updates    *)
(* have solutions.  Then the manager: the lists of plugins through an      *)
(* update, and the invariant of its actions (PluginsInv).  Last, where the *)
(* objects of the plugins are: Coherent holds of the storage and a list of *)
(* plugins unless a plugin that runs was pushed again (Regular), while no  *)
(* plugin has come or gone past a destroyed window (PluginsCalm).          *)
(***************************************************************************)
EXTENDS Plugins, ListLemmas, FiniteSetTheorems, TLAPS

Live(p) == [plugin |-> p, alive |-> TRUE]
Dead(p) == [plugin |-> p, alive |-> FALSE]

Objects == [plugin : PluginNames \cup {"null"}, alive : BOOLEAN]
Classes == [index : Nat, refs : Nat, ready : BOOLEAN, fresh : BOOLEAN]
Vectors == UNION {[W -> Seq(Objects)] : W \in SUBSET Windows}
Holders == UNION {[P -> Nat] : P \in SUBSET PluginNames}

Storages == [indices : Seq(BOOLEAN), slots : Vectors, stacked : SUBSET Windows,
             class : [PluginNames -> Classes], holder : Holders, broken : BOOLEAN]

LEMMA StorageParts ==
  ASSUME NEW st \in Storages
  PROVE  /\ st.indices \in Seq(BOOLEAN) /\ st.slots \in Vectors
         /\ st.stacked \in SUBSET Windows /\ st.broken \in BOOLEAN
         /\ st.class \in [PluginNames -> Classes] /\ st.holder \in Holders
BY DEF Storages

LEMMA FieldsSet ==
  ASSUME NEW st \in Storages
  PROVE  /\ \A x \in Seq(BOOLEAN) : LET t == [st EXCEPT !.indices = x] IN
                /\ t \in Storages /\ t.indices = x /\ t.slots = st.slots
                /\ t.stacked = st.stacked /\ t.class = st.class
                /\ t.holder = st.holder /\ t.broken = st.broken
         /\ \A x \in Vectors : LET t == [st EXCEPT !.slots = x] IN
                /\ t \in Storages /\ t.slots = x /\ t.indices = st.indices
                /\ t.stacked = st.stacked /\ t.class = st.class
                /\ t.holder = st.holder /\ t.broken = st.broken
         /\ \A x \in [PluginNames -> Classes] : LET t == [st EXCEPT !.class = x] IN
                /\ t \in Storages /\ t.class = x /\ t.indices = st.indices
                /\ t.stacked = st.stacked /\ t.slots = st.slots
                /\ t.holder = st.holder /\ t.broken = st.broken
         /\ \A x \in Holders : LET t == [st EXCEPT !.holder = x] IN
                /\ t \in Storages /\ t.holder = x /\ t.indices = st.indices
                /\ t.stacked = st.stacked /\ t.slots = st.slots
                /\ t.class = st.class /\ t.broken = st.broken
         /\ \A x \in SUBSET Windows : LET t == [st EXCEPT !.stacked = x] IN
                /\ t \in Storages /\ t.stacked = x /\ t.indices = st.indices
                /\ t.holder = st.holder /\ t.slots = st.slots
                /\ t.class = st.class /\ t.broken = st.broken
BY DEF Storages

LEMMA VectorsAre ==
  ASSUME NEW v
  PROVE  v \in Vectors <=> /\ v = [w \in DOMAIN v |-> v[w]] /\ DOMAIN v \subseteq Windows
                           /\ \A w \in DOMAIN v : v[w] \in Seq(Objects)
BY DEF Vectors

LEMMA HoldersAre ==
  ASSUME NEW h
  PROVE  h \in Holders <=> /\ h = [p \in DOMAIN h |-> h[p]] /\ DOMAIN h \subseteq PluginNames
                           /\ \A p \in DOMAIN h : h[p] \in Nat
BY DEF Holders

LEMMA RecordSet ==
  ASSUME NEW r \in Classes, NEW i \in Nat
  PROVE  /\ [r EXCEPT !.index = i] \in Classes
         /\ [r EXCEPT !.refs = i] \in Classes
         /\ \A b \in BOOLEAN : [r EXCEPT !.fresh = b] \in Classes
         /\ \A b \in BOOLEAN : [r EXCEPT !.ready = b] \in Classes
BY DEF Classes

LEMMA ClassLocated ==
  ASSUME NEW f \in [PluginNames -> Classes], NEW p \in PluginNames, NEW i \in Nat
  PROVE  LET g == [f EXCEPT ![p].index = i, ![p].fresh = TRUE] IN
      /\ g \in [PluginNames -> Classes]
      /\ \A q \in PluginNames \ {p} : g[q] = f[q]
      /\ g[p] = [[f[p] EXCEPT !.index = i] EXCEPT !.fresh = TRUE]
<1> DEFINE g == [f EXCEPT ![p].index = i, ![p].fresh = TRUE]
<1>1. f[p] \in Classes
  OBVIOUS
<1>2. g[p] = [[f[p] EXCEPT !.index = i] EXCEPT !.fresh = TRUE]
  OBVIOUS
<1>3. \A q \in PluginNames \ {p} : g[q] = f[q]
  OBVIOUS
<1>4. g[p] \in Classes
  BY <1>1, <1>2, RecordSet
<1>6. g \in [PluginNames -> Classes]
  BY <1>3, <1>4
<1> QED
  BY <1>2, <1>3, <1>6

LEMMA ClassReady ==
  ASSUME NEW f \in [PluginNames -> Classes], NEW p \in PluginNames, NEW i \in Nat
  PROVE  LET g == [f EXCEPT ![p].index = i, ![p].ready = TRUE, ![p].fresh = TRUE] IN
      /\ g \in [PluginNames -> Classes]
      /\ \A q \in PluginNames \ {p} : g[q] = f[q]
      /\ g[p].index = i /\ g[p].fresh = TRUE /\ g[p].refs = f[p].refs /\ g[p].ready = TRUE
<1> DEFINE g == [f EXCEPT ![p].index = i, ![p].ready = TRUE, ![p].fresh = TRUE]
<1>1. f[p] \in Classes
  OBVIOUS
<1>2. g[p] = [[[f[p] EXCEPT !.index = i] EXCEPT !.ready = TRUE] EXCEPT !.fresh = TRUE]
  OBVIOUS
<1>3. \A q \in PluginNames \ {p} : g[q] = f[q]
  OBVIOUS
<1>4. [f[p] EXCEPT !.index = i] \in Classes
  BY <1>1, RecordSet
<1>5. [[f[p] EXCEPT !.index = i] EXCEPT !.ready = TRUE] \in Classes
  BY <1>4, RecordSet
<1>6. g[p] \in Classes
  BY <1>2, <1>5, RecordSet
<1>7. g[p].index = i /\ g[p].fresh = TRUE /\ g[p].refs = f[p].refs /\ g[p].ready = TRUE
  BY <1>1, <1>2 DEF Classes
<1>8. g \in [PluginNames -> Classes]
  BY <1>3, <1>6
<1> QED
  BY <1>3, <1>7, <1>8

LEMMA ClassSet ==
  ASSUME NEW st \in Storages, NEW p \in PluginNames, NEW i \in Nat
  PROVE  /\ [st EXCEPT !.class[p].index = i, !.class[p].fresh = TRUE]
              = [st EXCEPT !.class = [st.class EXCEPT ![p].index = i, ![p].fresh = TRUE]]
         /\ [st EXCEPT !.class[p].index = i, !.class[p].ready = TRUE, !.class[p].fresh = TRUE]
              = [st EXCEPT !.class = [st.class EXCEPT ![p].index = i, ![p].ready = TRUE,
                                                      ![p].fresh = TRUE]]
BY DEF Storages

LEMMA ClassesSet ==
  ASSUME NEW f \in [PluginNames -> Classes], NEW p \in PluginNames, NEW c \in Classes
  PROVE  /\ [f EXCEPT ![p] = c] \in [PluginNames -> Classes]
         /\ [f EXCEPT ![p] = c][p] = c
         /\ \A q \in PluginNames \ {p} : [f EXCEPT ![p] = c][q] = f[q]
OBVIOUS

LEMMA AllStaleIs ==
  ASSUME NEW st \in Storages
  PROVE  LET t == AllStale(st)
         IN  /\ t \in Storages /\ t.indices = st.indices /\ t.stacked = st.stacked
             /\ t.holder = st.holder /\ t.broken = st.broken /\ t.slots = st.slots
             /\ \A q \in PluginNames :
                   /\ t.class[q].index = st.class[q].index /\ t.class[q].refs = st.class[q].refs
                   /\ t.class[q].ready = st.class[q].ready /\ t.class[q].fresh = FALSE
<1> DEFINE cl == [p \in DOMAIN st.class |-> [st.class[p] EXCEPT !.fresh = FALSE]]
<1>1. st.class \in [PluginNames -> Classes]
  BY StorageParts
<1>2. ASSUME NEW q \in PluginNames
      PROVE  /\ cl[q].index = st.class[q].index /\ cl[q].refs = st.class[q].refs
             /\ cl[q].ready = st.class[q].ready /\ cl[q].fresh = FALSE
             /\ cl[q] \in Classes
  <2>1. st.class[q] \in Classes /\ cl[q] = [st.class[q] EXCEPT !.fresh = FALSE]
    BY <1>1
  <2> HIDE DEF cl
  <2> QED
    BY <2>1 DEF Classes
<1>3. cl \in [PluginNames -> Classes]
  BY <1>1, <1>2
<1> HIDE DEF cl
<1>4. AllStale(st) = [st EXCEPT !.class = cl]
  BY DEF AllStale, cl
<1> DEFINE t == AllStale(st)
<1>6. /\ t \in Storages /\ t.indices = st.indices /\ t.stacked = st.stacked
      /\ t.holder = st.holder /\ t.broken = st.broken /\ t.slots = st.slots /\ t.class = cl
  BY <1>3, <1>4, FieldsSet
<1> HIDE DEF t
<1>7. \A q \in PluginNames :
         /\ t.class[q].index = st.class[q].index /\ t.class[q].refs = st.class[q].refs
         /\ t.class[q].ready = st.class[q].ready /\ t.class[q].fresh = FALSE
  BY <1>2, <1>6
<1> QED
  BY <1>6, <1>7 DEF t

LEMMA ResizedIs ==
  ASSUME NEW v \in Seq(Objects), NEW n \in Nat
  PROVE  /\ Resized(v, n) \in Seq(Objects) /\ Len(Resized(v, n)) = n
         /\ \A i \in 1 .. n : Resized(v, n)[i] = IF i =< Len(v) THEN v[i] ELSE Null
<1>1. Null \in Objects
  BY DEF Null, Objects
<1>2. \A i \in 1 .. n : (IF i \in DOMAIN v THEN v[i] ELSE Null) \in Objects
  BY <1>1
<1> QED
  BY <1>2, IsASeq DEF Resized

LEMMA ResizeSlotsIs ==
  ASSUME NEW st \in Storages
  PROVE  LET t == ResizeSlots(st)
         IN  /\ t \in Storages /\ t.indices = st.indices /\ t.stacked = st.stacked
             /\ t.holder = st.holder /\ t.broken = st.broken /\ t.class = st.class
             /\ DOMAIN t.slots = DOMAIN st.slots
             /\ \A w \in DOMAIN st.slots : t.slots[w] =
                   IF w \in st.stacked THEN Resized(st.slots[w], Len(st.indices)) ELSE st.slots[w]
<1> DEFINE sl == [w \in DOMAIN st.slots |->
        IF w \in st.stacked THEN Resized(st.slots[w], Len(st.indices)) ELSE st.slots[w]]
<1>1. /\ DOMAIN st.slots \subseteq Windows /\ \A w \in DOMAIN st.slots : st.slots[w] \in Seq(Objects)
      /\ Len(st.indices) \in Nat
  BY StorageParts, VectorsAre
<1>2. \A w \in DOMAIN st.slots : sl[w] \in Seq(Objects)
  BY <1>1, ResizedIs
<1>3. sl \in Vectors
  BY <1>1, <1>2, VectorsAre
<1>4. ResizeSlots(st) = [st EXCEPT !.slots = sl]
  BY DEF ResizeSlots
<1>5. DOMAIN sl = DOMAIN st.slots
  OBVIOUS
<1>6. \A w \in DOMAIN st.slots : sl[w] =
        IF w \in st.stacked THEN Resized(st.slots[w], Len(st.indices)) ELSE st.slots[w]
  OBVIOUS
<1> HIDE DEF sl
<1> QED
  BY <1>3, <1>4, <1>5, <1>6, FieldsSet

LEMMA FreeIndicesAre ==
  ASSUME NEW st \in Storages
  PROVE  LET i == CHOOSE i \in FreeIndices(st) : \A j \in FreeIndices(st) : i <= j
         IN  /\ i \in 1 .. Len(st.indices) + 1
             /\ i \in DOMAIN st.indices => ~ st.indices[i]
<1>1. FreeIndices(st) \in SUBSET Nat /\ Len(st.indices) + 1 \in FreeIndices(st)
  BY StorageParts DEF FreeIndices
<1>2. PICK i \in FreeIndices(st) : \A j \in FreeIndices(st) : i <= j
  BY <1>1, MinIsFirst
<1> QED
  BY <1>2 DEF FreeIndices

LEMMA AllocIndexIs ==
  ASSUME NEW st \in Storages, NEW i \in 1 .. Len(st.indices) + 1
  PROVE  LET t == AllocIndex(st, i)
         IN  /\ t \in Storages /\ t.stacked = st.stacked
             /\ t.holder = st.holder /\ t.broken = st.broken /\ t.class = st.class
             /\ DOMAIN t.slots = DOMAIN st.slots
             /\ t.indices = IF i \in DOMAIN st.indices THEN [st.indices EXCEPT ![i] = TRUE]
                            ELSE Append(st.indices, TRUE)
             /\ \A w \in DOMAIN st.slots : t.slots[w] =
                   IF w \in st.stacked THEN Resized(st.slots[w], Len(t.indices)) ELSE st.slots[w]
<1> DEFINE x == IF i \in DOMAIN st.indices THEN [st.indices EXCEPT ![i] = TRUE]
                ELSE Append(st.indices, TRUE)
           u == [st EXCEPT !.indices = x]
<1>0. st.indices \in Seq(BOOLEAN) /\ TRUE \in BOOLEAN
  BY StorageParts
<1>1. x \in Seq(BOOLEAN)
  <2>1. CASE i \in DOMAIN st.indices
    <3>1. [st.indices EXCEPT ![i] = TRUE] \in Seq(BOOLEAN)
      BY <1>0, <2>1, ExceptSeq
    <3> QED
      BY <2>1, <3>1
  <2>2. CASE i \notin DOMAIN st.indices
    <3>1. Append(st.indices, TRUE) \in Seq(BOOLEAN)
      BY <1>0, AppendProperties
    <3> QED
      BY <2>2, <3>1
  <2> QED
    BY <2>1, <2>2
<1>2. AllocIndex(st, i) = ResizeSlots(u)
  BY DEF AllocIndex
<1> HIDE DEF x
<1>3. /\ u \in Storages /\ u.indices = x /\ u.slots = st.slots
      /\ u.stacked = st.stacked /\ u.class = st.class
      /\ u.holder = st.holder /\ u.broken = st.broken
  BY <1>1, FieldsSet
<1> HIDE DEF u
<1>4. /\ ResizeSlots(u) \in Storages /\ ResizeSlots(u).stacked = st.stacked
      /\ ResizeSlots(u).holder = st.holder /\ ResizeSlots(u).broken = st.broken
      /\ ResizeSlots(u).class = st.class /\ ResizeSlots(u).indices = x
      /\ DOMAIN ResizeSlots(u).slots = DOMAIN st.slots
      /\ \A w \in DOMAIN st.slots : ResizeSlots(u).slots[w] =
            IF w \in st.stacked THEN Resized(st.slots[w], Len(x)) ELSE st.slots[w]
  BY <1>3, ResizeSlotsIs
<1> QED
  BY <1>2, <1>4 DEF x

LEMMA FreeIndexIs ==
  ASSUME NEW st \in Storages, NEW i \in Nat
  PROVE  LET t == FreeIndex(st, i)
         IN  /\ t \in Storages /\ t.stacked = st.stacked
             /\ t.holder = st.holder /\ t.broken = st.broken /\ t.class = st.class
             /\ DOMAIN t.slots = DOMAIN st.slots
             /\ t.indices = IF i = Len(st.indices) THEN Front(st.indices)
                            ELSE [st.indices EXCEPT ![i] = FALSE]
             /\ \A w \in DOMAIN st.slots : t.slots[w] =
                   IF w \in st.stacked THEN Resized(st.slots[w], Len(t.indices)) ELSE st.slots[w]
<1> DEFINE x == IF i = Len(st.indices) THEN Front(st.indices)
                ELSE [st.indices EXCEPT ![i] = FALSE]
           u == [st EXCEPT !.indices = x]
<1>0. st.indices \in Seq(BOOLEAN) /\ FALSE \in BOOLEAN
  BY StorageParts
<1>1. x \in Seq(BOOLEAN)
  <2>1. CASE i = Len(st.indices)
    <3>1. Front(st.indices) \in Seq(BOOLEAN)
      BY <1>0, SubSeqProperties DEF Front
    <3> QED
      BY <2>1, <3>1
  <2>2. CASE i # Len(st.indices)
    <3>1. [st.indices EXCEPT ![i] = FALSE] \in Seq(BOOLEAN)
      <4>1. CASE i \in 1 .. Len(st.indices)
        BY <1>0, <4>1, ExceptSeq
      <4>2. CASE i \notin 1 .. Len(st.indices)
        <5>1. [st.indices EXCEPT ![i] = FALSE] = st.indices
          BY <1>0, <4>2
        <5> QED
          BY <1>0, <5>1
      <4> QED
        BY <4>1, <4>2
    <3> QED
      BY <2>2, <3>1
  <2> QED
    BY <2>1, <2>2
<1>2. FreeIndex(st, i) = ResizeSlots(u)
  BY DEF FreeIndex
<1> HIDE DEF x
<1>3. /\ u \in Storages /\ u.indices = x /\ u.slots = st.slots
      /\ u.stacked = st.stacked /\ u.class = st.class
      /\ u.holder = st.holder /\ u.broken = st.broken
  BY <1>1, FieldsSet
<1> HIDE DEF u
<1>4. /\ ResizeSlots(u) \in Storages /\ ResizeSlots(u).stacked = st.stacked
      /\ ResizeSlots(u).holder = st.holder /\ ResizeSlots(u).broken = st.broken
      /\ ResizeSlots(u).class = st.class /\ ResizeSlots(u).indices = x
      /\ DOMAIN ResizeSlots(u).slots = DOMAIN st.slots
      /\ \A w \in DOMAIN st.slots : ResizeSlots(u).slots[w] =
            IF w \in st.stacked THEN Resized(st.slots[w], Len(x)) ELSE st.slots[w]
  BY <1>3, ResizeSlotsIs
<1> QED
  BY <1>2, <1>4 DEF x

LEMMA HolderAdds ==
  ASSUME NEW h \in Holders, NEW p \in PluginNames, NEW i \in Nat
  PROVE  /\ WithValue(h, p, i) \in Holders
         /\ DOMAIN WithValue(h, p, i) = DOMAIN h \cup {p} /\ WithValue(h, p, i)[p] = i
         /\ \A q \in DOMAIN h \ {p} : WithValue(h, p, i)[q] = h[q]
<1> DEFINE g == WithValue(h, p, i)
<1>1. DOMAIN h \subseteq PluginNames /\ \A q \in DOMAIN h : h[q] \in Nat
  BY HoldersAre
<1>2. g = [q \in DOMAIN h \cup {p} |-> IF q = p THEN i ELSE h[q]]
  BY DEF WithValue
<1> HIDE DEF g
<1>3. DOMAIN g = DOMAIN h \cup {p} /\ g[p] = i /\ \A q \in DOMAIN h \ {p} : g[q] = h[q]
  BY <1>2
<1>4. g \in Holders
  BY <1>1, <1>2, <1>3, HoldersAre
<1> QED
  BY <1>3, <1>4 DEF g

LEMMA HolderLoses ==
  ASSUME NEW h \in Holders, NEW p \in PluginNames
  PROVE  /\ Restrict(h, DOMAIN h \ {p}) \in Holders
         /\ DOMAIN Restrict(h, DOMAIN h \ {p}) = DOMAIN h \ {p}
         /\ \A q \in DOMAIN h \ {p} : Restrict(h, DOMAIN h \ {p})[q] = h[q]
<1> DEFINE g == Restrict(h, DOMAIN h \ {p})
<1>1. DOMAIN h \subseteq PluginNames /\ \A q \in DOMAIN h : h[q] \in Nat
  BY HoldersAre
<1>2. g = [q \in DOMAIN h \ {p} |-> h[q]]
  BY DEF Restrict
<1> HIDE DEF g
<1>3. DOMAIN g = DOMAIN h \ {p} /\ \A q \in DOMAIN h \ {p} : g[q] = h[q]
  BY <1>2
<1>4. g \in Holders
  BY <1>1, <1>2, <1>3, HoldersAre
<1> QED
  BY <1>3, <1>4 DEF g

(* The steps the operators on the storage are made of.                     *)
MadeReady(st, p, i) ==
  [st EXCEPT !.class[p].index = i, !.class[p].ready = TRUE, !.class[p].fresh = TRUE]
MadeFresh(st, p, i) == [st EXCEPT !.class[p].index = i, !.class[p].fresh = TRUE]
Held(st, h) == [st EXCEPT !.holder = h]
FirstFree(st) == CHOOSE i \in FreeIndices(st) : \A j \in FreeIndices(st) : i <= j

LEMMA MadeReadyIs ==
  ASSUME NEW st \in Storages, NEW p \in PluginNames, NEW i \in Nat
  PROVE  LET t == MadeReady(st, p, i)
         IN  /\ t \in Storages /\ t.indices = st.indices /\ t.stacked = st.stacked
             /\ t.holder = st.holder /\ t.broken = st.broken /\ t.slots = st.slots
             /\ \A q \in PluginNames \ {p} : t.class[q] = st.class[q]
             /\ t.class[p].index = i /\ t.class[p].fresh = TRUE
             /\ t.class[p].refs = st.class[p].refs /\ t.class[p].ready = TRUE
<1> DEFINE cl == [st.class EXCEPT ![p].index = i, ![p].ready = TRUE, ![p].fresh = TRUE]
<1>1. st.class \in [PluginNames -> Classes]
  BY StorageParts
<1>2. /\ cl \in [PluginNames -> Classes]
      /\ \A q \in PluginNames \ {p} : cl[q] = st.class[q]
      /\ cl[p].index = i /\ cl[p].fresh = TRUE /\ cl[p].refs = st.class[p].refs /\ cl[p].ready = TRUE
  BY <1>1, ClassReady, ZenonT(60)
<1>3. MadeReady(st, p, i) = [st EXCEPT !.class = cl]
  BY DEF MadeReady, Storages
<1> HIDE DEF cl
<1> QED
  BY <1>2, <1>3, FieldsSet

FreshOf(t, st, p, i) ==
  /\ t \in Storages /\ t.indices = st.indices /\ t.stacked = st.stacked
  /\ t.holder = st.holder /\ t.broken = st.broken /\ t.slots = st.slots
  /\ \A q \in PluginNames \ {p} : t.class[q] = st.class[q]
  /\ t.class[p].index = i /\ t.class[p].fresh = TRUE
  /\ t.class[p].refs = st.class[p].refs /\ t.class[p].ready = st.class[p].ready

LEMMA MadeFreshIs ==
  ASSUME NEW st \in Storages, NEW p \in PluginNames, NEW i \in Nat
  PROVE  FreshOf(MadeFresh(st, p, i), st, p, i)
<1> DEFINE cl == [st.class EXCEPT ![p].index = i, ![p].fresh = TRUE]
<1>1. st.class \in [PluginNames -> Classes]
  BY StorageParts
<1>2. /\ cl \in [PluginNames -> Classes]
      /\ \A q \in PluginNames \ {p} : cl[q] = st.class[q]
      /\ cl[p] = [[st.class[p] EXCEPT !.index = i] EXCEPT !.fresh = TRUE]
  BY <1>1, ClassLocated, ZenonT(60)
<1>3. MadeFresh(st, p, i) = [st EXCEPT !.class = cl]
  BY DEF MadeFresh, Storages
<1> HIDE DEF cl
<1>4. st.class[p] \in Classes
  BY <1>1
<1>5. cl[p].index = i /\ cl[p].fresh = TRUE /\ cl[p].refs = st.class[p].refs
      /\ cl[p].ready = st.class[p].ready
  BY <1>2, <1>4 DEF Classes
<1> DEFINE t == MadeFresh(st, p, i)
<1>6. /\ t \in Storages /\ t.indices = st.indices /\ t.stacked = st.stacked
      /\ t.holder = st.holder /\ t.broken = st.broken /\ t.slots = st.slots /\ t.class = cl
  BY <1>2, <1>3, FieldsSet
<1> HIDE DEF t
<1>7. /\ \A q \in PluginNames \ {p} : t.class[q] = st.class[q]
      /\ t.class[p].index = i /\ t.class[p].fresh = TRUE
      /\ t.class[p].refs = st.class[p].refs /\ t.class[p].ready = st.class[p].ready
  BY <1>2, <1>5, <1>6
<1> QED
  BY <1>6, <1>7 DEF t, FreshOf

LEMMA HeldIs ==
  ASSUME NEW st \in Storages, NEW h \in Holders
  PROVE  LET t == Held(st, h)
         IN  /\ t \in Storages /\ t.indices = st.indices /\ t.stacked = st.stacked
             /\ t.holder = h /\ t.broken = st.broken /\ t.slots = st.slots /\ t.class = st.class
BY FieldsSet DEF Held

LEMMA InitializeIs ==
  ASSUME NEW st \in Storages, NEW p \in PluginNames
  PROVE  LET t == InitializeIndex(st, p)
             i == FirstFree(st)
         IN  /\ t \in Storages /\ t.stacked = st.stacked /\ t.broken = st.broken
             /\ DOMAIN t.slots = DOMAIN st.slots
             /\ t.indices = IF i \in DOMAIN st.indices THEN [st.indices EXCEPT ![i] = TRUE]
                            ELSE Append(st.indices, TRUE)
             /\ \A w \in DOMAIN st.slots : t.slots[w] =
                   IF w \in st.stacked THEN Resized(st.slots[w], Len(t.indices)) ELSE st.slots[w]
             /\ \A q \in PluginNames :
                   /\ t.class[q].refs = st.class[q].refs
                   /\ t.class[q].ready = IF q = p THEN TRUE ELSE st.class[q].ready
                   /\ t.class[q].index = IF q = p THEN i ELSE st.class[q].index
             /\ p \in DOMAIN st.holder => t.holder = st.holder /\ t.class[p].fresh = TRUE
             /\ p \notin DOMAIN st.holder =>
                   /\ DOMAIN t.holder = DOMAIN st.holder \cup {p} /\ t.holder[p] = i
                   /\ \A q \in DOMAIN st.holder \ {p} : t.holder[q] = st.holder[q]
                   /\ \A q \in PluginNames : t.class[q].fresh = FALSE
<1> DEFINE i == FirstFree(st)
           a == AllocIndex(st, i)
           r == MadeReady(a, p, i)
           h == WithValue(st.holder, p, i)
           rh == Held(r, h)
           z == AllStale(rh)
<1>1. i \in 1 .. Len(st.indices) + 1 /\ i \in Nat
  BY FreeIndicesAre, StorageParts DEF FirstFree
<1> HIDE DEF i
<1>2. /\ a \in Storages /\ a.stacked = st.stacked
      /\ a.holder = st.holder /\ a.broken = st.broken /\ a.class = st.class
      /\ DOMAIN a.slots = DOMAIN st.slots
      /\ a.indices = IF i \in DOMAIN st.indices THEN [st.indices EXCEPT ![i] = TRUE]
                     ELSE Append(st.indices, TRUE)
      /\ \A w \in DOMAIN st.slots : a.slots[w] =
            IF w \in st.stacked THEN Resized(st.slots[w], Len(a.indices)) ELSE st.slots[w]
  BY <1>1, AllocIndexIs
<1>0. InitializeIndex(st, p) = IF p \in DOMAIN st.holder THEN r ELSE z
  BY DEF InitializeIndex, i, FirstFree, MadeReady, Held
<1> HIDE DEF a
<1>3. /\ r \in Storages /\ r.indices = a.indices /\ r.stacked = a.stacked
      /\ r.holder = a.holder /\ r.broken = a.broken /\ r.slots = a.slots
      /\ \A q \in PluginNames \ {p} : r.class[q] = a.class[q]
      /\ r.class[p].index = i /\ r.class[p].fresh = TRUE
      /\ r.class[p].refs = a.class[p].refs /\ r.class[p].ready = TRUE
  BY <1>1, <1>2, MadeReadyIs
<1> HIDE DEF r
<1>4. \A q \in PluginNames :
         /\ r.class[q].index = IF q = p THEN i ELSE st.class[q].index
         /\ r.class[q].refs = st.class[q].refs
         /\ r.class[q].ready = IF q = p THEN TRUE ELSE st.class[q].ready
  <2>1. r.class[p].index = i /\ r.class[p].refs = st.class[p].refs /\ r.class[p].ready = TRUE
    BY <1>2, <1>3
  <2>2. \A q \in PluginNames \ {p} : r.class[q] = st.class[q]
    BY <1>2, <1>3
  <2> QED
    BY <2>1, <2>2
<1>5. st.holder \in Holders
  BY StorageParts
<1>6. /\ h \in Holders /\ DOMAIN h = DOMAIN st.holder \cup {p} /\ h[p] = i
      /\ \A q \in DOMAIN st.holder \ {p} : h[q] = st.holder[q]
  BY <1>1, <1>5, HolderAdds
<1> HIDE DEF h
<1>7. /\ rh \in Storages /\ rh.indices = r.indices /\ rh.stacked = r.stacked
      /\ rh.holder = h /\ rh.broken = r.broken /\ rh.slots = r.slots /\ rh.class = r.class
  BY <1>3, <1>6, HeldIs
<1> HIDE DEF rh
<1>8. /\ z \in Storages /\ z.indices = rh.indices /\ z.stacked = rh.stacked
      /\ z.holder = rh.holder /\ z.broken = rh.broken /\ z.slots = rh.slots
  BY <1>7, AllStaleIs
<1>9. \A q \in PluginNames :
         /\ z.class[q].index = rh.class[q].index /\ z.class[q].refs = rh.class[q].refs
         /\ z.class[q].ready = rh.class[q].ready /\ z.class[q].fresh = FALSE
  BY <1>7, AllStaleIs
<1> HIDE DEF z
<1>10. rh.class = r.class
  BY <1>7
<1>11. \A q \in PluginNames :
         /\ z.class[q].index = IF q = p THEN i ELSE st.class[q].index
         /\ z.class[q].refs = st.class[q].refs
         /\ z.class[q].ready = IF q = p THEN TRUE ELSE st.class[q].ready
         /\ z.class[q].fresh = FALSE
  <2>1. \A q \in PluginNames : z.class[q].index = r.class[q].index /\ z.class[q].refs = r.class[q].refs
                              /\ z.class[q].ready = r.class[q].ready
    BY <1>9, <1>10
  <2> QED
    BY <1>4, <1>9, <2>1
<1> DEFINE t == InitializeIndex(st, p)
<1>12. CASE p \in DOMAIN st.holder
  <2>1. t = r
    BY <1>0, <1>12
  <2> HIDE DEF t
  <2>2. /\ t \in Storages /\ t.stacked = st.stacked /\ t.broken = st.broken
        /\ t.indices = a.indices /\ t.slots = a.slots
        /\ t.holder = st.holder /\ t.class[p].fresh = TRUE
    BY <1>2, <1>3, <2>1
  <2> QED
    BY <1>2, <1>4, <1>12, <2>1, <2>2 DEF i, t
<1>13. CASE p \notin DOMAIN st.holder
  <2>1. t = z
    BY <1>0, <1>13
  <2> HIDE DEF t
  <2>2. /\ t \in Storages /\ t.stacked = st.stacked /\ t.broken = st.broken
        /\ t.indices = a.indices /\ t.slots = a.slots /\ t.holder = h
    BY <1>2, <1>3, <1>7, <1>8, <2>1
  <2> QED
    BY <1>2, <1>6, <1>11, <1>13, <2>1, <2>2 DEF i, t
<1> QED
  BY <1>12, <1>13

Put(st, w, i, o) == [st EXCEPT !.slots[w][i] = o]
Counted(st, p, n) == [st EXCEPT !.class[p].refs = n]
GivenUp(st, p) == [st EXCEPT !.class[p].ready = FALSE]

LEMMA ObjectsAre ==
  ASSUME NEW p \in PluginNames
  PROVE  Live(p) \in Objects /\ Dead(p) \in Objects /\ Null \in Objects
         /\ Live(p) # Null /\ Dead(p) # Null /\ Live(p) # Dead(p)
BY PluginsAssumption DEF Live, Dead, Null, Objects

LEMMA PutIs ==
  ASSUME NEW st \in Storages, NEW w \in DOMAIN st.slots, NEW i \in 1 .. Len(st.slots[w]),
         NEW o \in Objects
  PROVE  LET t == Put(st, w, i, o)
         IN  /\ t \in Storages /\ t.indices = st.indices /\ t.stacked = st.stacked
             /\ t.holder = st.holder /\ t.broken = st.broken /\ t.class = st.class
             /\ DOMAIN t.slots = DOMAIN st.slots
             /\ \A x \in DOMAIN st.slots \ {w} : t.slots[x] = st.slots[x]
             /\ Len(t.slots[w]) = Len(st.slots[w]) /\ t.slots[w] \in Seq(Objects)
             /\ \A j \in 1 .. Len(st.slots[w]) :
                   t.slots[w][j] = IF j = i THEN o ELSE st.slots[w][j]
<1> DEFINE v == [st.slots[w] EXCEPT ![i] = o]
           sl == [st.slots EXCEPT ![w] = v]
           t == Put(st, w, i, o)
<1>1. /\ st.slots = [x \in DOMAIN st.slots |-> st.slots[x]]
      /\ DOMAIN st.slots \subseteq Windows /\ \A x \in DOMAIN st.slots : st.slots[x] \in Seq(Objects)
  BY StorageParts, VectorsAre
<1>2. st.slots[w] \in Seq(Objects)
  BY <1>1
<1>3. /\ v \in Seq(Objects) /\ Len(v) = Len(st.slots[w])
      /\ \A j \in 1 .. Len(st.slots[w]) : v[j] = IF j = i THEN o ELSE st.slots[w][j]
  BY <1>2, ExceptSeq
<1>4. t = [st EXCEPT !.slots = sl]
  BY DEF Put, Storages
<1> HIDE DEF v
<1>5. /\ DOMAIN sl = DOMAIN st.slots /\ sl[w] = v
      /\ \A x \in DOMAIN st.slots \ {w} : sl[x] = st.slots[x]
      /\ sl = [x \in DOMAIN sl |-> sl[x]]
  BY <1>1
<1> HIDE DEF sl
<1>6. sl \in Vectors
  BY <1>1, <1>3, <1>5, VectorsAre
<1>7. /\ t \in Storages /\ t.indices = st.indices /\ t.stacked = st.stacked
      /\ t.holder = st.holder /\ t.broken = st.broken /\ t.class = st.class /\ t.slots = sl
  BY <1>4, <1>6, FieldsSet
<1> HIDE DEF t
<1> QED
  BY <1>3, <1>5, <1>7 DEF t

LEMMA CountedIs ==
  ASSUME NEW st \in Storages, NEW p \in PluginNames, NEW n \in Nat
  PROVE  LET t == Counted(st, p, n)
         IN  /\ t \in Storages /\ t.indices = st.indices /\ t.stacked = st.stacked
             /\ t.holder = st.holder /\ t.broken = st.broken /\ t.slots = st.slots
             /\ \A q \in PluginNames \ {p} : t.class[q] = st.class[q]
             /\ t.class[p].index = st.class[p].index /\ t.class[p].refs = n
             /\ t.class[p].ready = st.class[p].ready /\ t.class[p].fresh = st.class[p].fresh
<1> DEFINE c == [st.class[p] EXCEPT !.refs = n]
           cl == [st.class EXCEPT ![p] = c]
           t == Counted(st, p, n)
<1>1. st.class \in [PluginNames -> Classes] /\ st.class[p] \in Classes
  BY StorageParts
<1>2. t = [st EXCEPT !.class = cl]
  BY DEF Counted, Storages
<1>3. c \in Classes
  BY <1>1, RecordSet
<1>4. c.index = st.class[p].index /\ c.refs = n
      /\ c.ready = st.class[p].ready /\ c.fresh = st.class[p].fresh
  BY <1>1 DEF Classes
<1> HIDE DEF c
<1>5. cl \in [PluginNames -> Classes] /\ cl[p] = c /\ \A q \in PluginNames \ {p} : cl[q] = st.class[q]
  BY <1>1, <1>3
<1> HIDE DEF cl
<1>6. /\ t \in Storages /\ t.indices = st.indices /\ t.stacked = st.stacked
      /\ t.holder = st.holder /\ t.broken = st.broken /\ t.slots = st.slots /\ t.class = cl
  BY <1>2, <1>5, FieldsSet
<1> HIDE DEF t
<1>7. /\ \A q \in PluginNames \ {p} : t.class[q] = st.class[q]
      /\ t.class[p].index = st.class[p].index /\ t.class[p].refs = n
      /\ t.class[p].ready = st.class[p].ready /\ t.class[p].fresh = st.class[p].fresh
  BY <1>4, <1>5, <1>6
<1> QED
  BY <1>6, <1>7 DEF t

LEMMA GivenUpIs ==
  ASSUME NEW st \in Storages, NEW p \in PluginNames
  PROVE  LET t == GivenUp(st, p)
         IN  /\ t \in Storages /\ t.indices = st.indices /\ t.stacked = st.stacked
             /\ t.holder = st.holder /\ t.broken = st.broken /\ t.slots = st.slots
             /\ \A q \in PluginNames \ {p} : t.class[q] = st.class[q]
             /\ t.class[p].index = st.class[p].index /\ t.class[p].refs = st.class[p].refs
             /\ t.class[p].ready = FALSE
<1> DEFINE c == [st.class[p] EXCEPT !.ready = FALSE]
           cl == [st.class EXCEPT ![p] = c]
           t == GivenUp(st, p)
<1>1. st.class \in [PluginNames -> Classes] /\ st.class[p] \in Classes
  BY StorageParts
<1>2. t = [st EXCEPT !.class = cl]
  BY DEF GivenUp, Storages
<1>3. c \in Classes
  BY <1>1, RecordSet
<1>4. c.index = st.class[p].index /\ c.refs = st.class[p].refs /\ c.ready = FALSE
  BY <1>1 DEF Classes
<1> HIDE DEF c
<1>5. cl \in [PluginNames -> Classes] /\ cl[p] = c /\ \A q \in PluginNames \ {p} : cl[q] = st.class[q]
  BY <1>1, <1>3
<1> HIDE DEF cl
<1>6. /\ t \in Storages /\ t.indices = st.indices /\ t.stacked = st.stacked
      /\ t.holder = st.holder /\ t.broken = st.broken /\ t.slots = st.slots /\ t.class = cl
  BY <1>2, <1>5, FieldsSet
<1> HIDE DEF t
<1>7. /\ \A q \in PluginNames \ {p} : t.class[q] = st.class[q]
      /\ t.class[p].index = st.class[p].index /\ t.class[p].refs = st.class[p].refs
      /\ t.class[p].ready = FALSE
  BY <1>4, <1>5, <1>6
<1> QED
  BY <1>6, <1>7 DEF t

LEMMA ConstructSteps ==
  ASSUME NEW st \in Storages, NEW p \in PluginNames, NEW w \in DOMAIN st.slots,
         st.class[p].index \in 1 .. Len(st.slots[w])
  PROVE  Construct(st, p, w) =
            Put(Counted(st, p, st.class[p].refs + 1), w, st.class[p].index, Live(p))
BY DEF Construct, Put, Counted, Storages, Live

LEMMA DestructSteps ==
  ASSUME NEW st \in Storages, NEW p \in PluginNames, NEW w \in DOMAIN st.slots,
         st.class[p].index \in 1 .. Len(st.slots[w]),
         st.slots[w][st.class[p].index] = Live(p), st.class[p].refs # 0
  PROVE  LET i == st.class[p].index
             s == Put(Counted(st, p, st.class[p].refs - 1), w, i, Dead(p))
         IN  Destruct(st, p, w) =
                IF s.class[p].refs # 0 THEN s
                ELSE AllStale(Held(GivenUp(FreeIndex(s, i), p),
                                   Restrict(st.holder, DOMAIN st.holder \ {p})))
<1> DEFINE i == st.class[p].index
           s == Put(Counted(st, p, st.class[p].refs - 1), w, i, Dead(p))
           s2 == [st EXCEPT !.class[p].refs = st.class[p].refs - 1, !.slots[w][i].alive = FALSE]
<1> DEFINE d == [st.slots[w][i] EXCEPT !.alive = FALSE]
           x == FreeIndex(s2, i)
           h == Restrict(st.holder, DOMAIN st.holder \ {p})
           y == [x EXCEPT !.class[p].ready = FALSE, !.holder = h]
<1>0. [Live(p) EXCEPT !.alive = FALSE] = Dead(p)
  <2>1. ASSUME NEW t \in {TRUE}, NEW f \in {FALSE}, NEW r, NEW o,
               o = [plugin |-> p, alive |-> t], r = [o EXCEPT !.alive = f]
        PROVE  r = [plugin |-> p, alive |-> f]
    BY <2>1
  <2>2. TRUE \in {TRUE} /\ FALSE \in {FALSE}
    OBVIOUS
  <2> QED
    BY <2>1, <2>2, Zenon DEF Dead, Live
<1>1. d = Dead(p)
  BY <1>0
<1>2. s2 = Put(Counted(st, p, st.class[p].refs - 1), w, i, d)
  BY DEF Put, Counted, Storages
<1>3. s2 = s
  BY <1>1, <1>2
<1>4. Destruct(st, p, w) = IF s2.class[p].refs # 0 THEN s2 ELSE AllStale(y)
  BY DEF Destruct
<1> HIDE DEF s2
<1>5. s \in Storages /\ s.holder = st.holder
  <2>1. st.class[p].refs - 1 \in Nat
    BY StorageParts DEF Classes
  <2> DEFINE c == Counted(st, p, st.class[p].refs - 1)
  <2>2. c \in Storages /\ c.slots = st.slots /\ c.holder = st.holder
    BY <2>1, CountedIs
  <2> HIDE DEF c
  <2>3. w \in DOMAIN c.slots /\ i \in 1 .. Len(c.slots[w]) /\ Dead(p) \in Objects
    BY <2>2, ObjectsAre
  <2>4. Put(c, w, i, Dead(p)) \in Storages /\ Put(c, w, i, Dead(p)).holder = c.holder
    BY <2>2, <2>3, PutIs
  <2> QED
    BY <2>2, <2>4 DEF c
<1>8. i \in Nat
  OBVIOUS
<1>6. x \in Storages /\ x.holder = st.holder
  BY <1>3, <1>5, <1>8, FreeIndexIs
<1> HIDE DEF x
<1>7. y = Held(GivenUp(x, p), h)
  BY <1>6 DEF Held, GivenUp, Storages
<1> HIDE DEF y, h
<1> QED
  BY <1>3, <1>4, <1>7 DEF h, x

(* get finds the index of a plugin that has one.                           *)
LocatedOld(t, st, p) ==
  /\ t \in Storages /\ t.indices = st.indices /\ t.stacked = st.stacked
  /\ t.holder = st.holder /\ t.broken = st.broken /\ t.slots = st.slots
  /\ \A q \in PluginNames \ {p} : t.class[q] = st.class[q]
  /\ t.class[p].refs = st.class[p].refs
  /\ t.class[p].ready = TRUE /\ t.class[p].fresh = TRUE
  /\ t.class[p].index = IF st.class[p].fresh THEN st.class[p].index ELSE st.holder[p]

LEMMA LocatedOldIs ==
  ASSUME NEW st \in Storages, NEW p \in PluginNames, st.class[p].ready, p \in DOMAIN st.holder
  PROVE  LocatedOld(Located(st, p), st, p)
<1> DEFINE m == MadeFresh(st, p, st.holder[p])
           t == Located(st, p)
<1>1. t = IF st.class[p].fresh THEN st ELSE m
  BY DEF Located, MadeFresh
<1> HIDE DEF t
<1>2. st.class[p] \in Classes /\ st.holder[p] \in Nat
  BY StorageParts, HoldersAre
<1>3. st.class[p].ready = TRUE
  BY <1>2 DEF Classes
<1>4. CASE st.class[p].fresh
  <2>1. st.class[p].fresh = TRUE
    BY <1>2, <1>4 DEF Classes
  <2> QED
    BY <1>1, <1>3, <1>4, <2>1 DEF t, LocatedOld
<1>5. CASE ~ st.class[p].fresh
  <2>1. t = m
    BY <1>1, <1>5
  <2>2. /\ m \in Storages /\ m.indices = st.indices /\ m.stacked = st.stacked
        /\ m.holder = st.holder /\ m.broken = st.broken /\ m.slots = st.slots
        /\ \A q \in PluginNames \ {p} : m.class[q] = st.class[q]
        /\ m.class[p].index = st.holder[p] /\ m.class[p].fresh = TRUE
        /\ m.class[p].refs = st.class[p].refs /\ m.class[p].ready = st.class[p].ready
    <3>1. FreshOf(m, st, p, st.holder[p])
      BY <1>2, MadeFreshIs
    <3> QED
      BY <3>1 DEF FreshOf
  <2> HIDE DEF m
  <2> QED
    BY <1>3, <1>5, <2>1, <2>2 DEF t, LocatedOld
<1> QED
  BY <1>4, <1>5

(* get of a plugin that has none.                                          *)
LocatedNew(t, st, p) ==
  LET i == FirstFree(st)
  IN  /\ t \in Storages /\ t.stacked = st.stacked /\ t.broken = st.broken
      /\ DOMAIN t.slots = DOMAIN st.slots
      /\ t.indices = IF i \in DOMAIN st.indices THEN [st.indices EXCEPT ![i] = TRUE]
                     ELSE Append(st.indices, TRUE)
      /\ \A w \in DOMAIN st.slots : t.slots[w] =
            IF w \in st.stacked THEN Resized(st.slots[w], Len(t.indices)) ELSE st.slots[w]
      /\ \A q \in PluginNames : t.class[q].refs = st.class[q].refs
      /\ \A q \in PluginNames \ {p} : t.class[q].ready = st.class[q].ready
      /\ t.class[p].ready = TRUE /\ t.class[p].fresh = TRUE
      /\ p \in DOMAIN st.holder => t.holder = st.holder
      /\ p \notin DOMAIN st.holder =>
            /\ DOMAIN t.holder = DOMAIN st.holder \cup {p} /\ t.holder[p] = i
            /\ \A q \in DOMAIN st.holder \ {p} : t.holder[q] = st.holder[q]
            /\ t.class[p].index = i
            /\ \A q \in PluginNames \ {p} : t.class[q].fresh = FALSE

LEMMA LocatedNewIs ==
  ASSUME NEW st \in Storages, NEW p \in PluginNames, ~ st.class[p].ready
  PROVE  LocatedNew(Located(st, p), st, p)
<1> DEFINE s == InitializeIndex(st, p)
           first == FirstFree(st)
           m == MadeFresh(s, p, s.holder[p])
           t == Located(st, p)
<1>1. t = IF s.class[p].fresh THEN s ELSE m
  BY DEF Located, MadeFresh
<1> HIDE DEF t
<1>2. /\ s \in Storages /\ s.stacked = st.stacked /\ s.broken = st.broken
      /\ DOMAIN s.slots = DOMAIN st.slots
      /\ s.indices = IF first \in DOMAIN st.indices THEN [st.indices EXCEPT ![first] = TRUE]
                     ELSE Append(st.indices, TRUE)
      /\ \A w \in DOMAIN st.slots : s.slots[w] =
            IF w \in st.stacked THEN Resized(st.slots[w], Len(s.indices)) ELSE st.slots[w]
  BY InitializeIs
<1>3. /\ \A q \in PluginNames :
            /\ s.class[q].refs = st.class[q].refs
            /\ s.class[q].ready = IF q = p THEN TRUE ELSE st.class[q].ready
            /\ s.class[q].index = IF q = p THEN first ELSE st.class[q].index
      /\ p \in DOMAIN st.holder => s.holder = st.holder /\ s.class[p].fresh = TRUE
      /\ p \notin DOMAIN st.holder =>
            /\ DOMAIN s.holder = DOMAIN st.holder \cup {p} /\ s.holder[p] = first
            /\ \A q \in DOMAIN st.holder \ {p} : s.holder[q] = st.holder[q]
            /\ \A q \in PluginNames : s.class[q].fresh = FALSE
  BY InitializeIs
<1> HIDE DEF s
<1>4. CASE p \in DOMAIN st.holder
  <2>1. t = s
    BY <1>1, <1>3, <1>4
  <2> QED
    BY <1>2, <1>3, <1>4, <2>1 DEF t, LocatedNew
<1>5. CASE p \notin DOMAIN st.holder
  <2>1. t = m
    BY <1>1, <1>3, <1>5
  <2>2. s \in Storages /\ s.holder[p] \in Nat
    <3>1. s.holder \in Holders /\ p \in DOMAIN s.holder
      BY <1>2, <1>3, <1>5, StorageParts
    <3> QED
      BY <1>2, <3>1, HoldersAre
  <2>3. /\ m \in Storages /\ m.indices = s.indices /\ m.stacked = s.stacked
        /\ m.holder = s.holder /\ m.broken = s.broken /\ m.slots = s.slots
        /\ \A q \in PluginNames \ {p} : m.class[q] = s.class[q]
        /\ m.class[p].index = s.holder[p] /\ m.class[p].fresh = TRUE
        /\ m.class[p].refs = s.class[p].refs /\ m.class[p].ready = s.class[p].ready
    <3>1. FreshOf(m, s, p, s.holder[p])
      BY <2>2, MadeFreshIs
    <3> QED
      BY <3>1 DEF FreshOf
  <2> HIDE DEF m
  <2>4. /\ t \in Storages /\ t.indices = s.indices /\ t.stacked = s.stacked
        /\ t.holder = s.holder /\ t.broken = s.broken /\ t.slots = s.slots
    BY <2>1, <2>3
  <2>5. /\ \A q \in PluginNames \ {p} : t.class[q] = s.class[q]
        /\ t.class[p].index = first /\ t.class[p].fresh = TRUE
        /\ t.class[p].refs = st.class[p].refs /\ t.class[p].ready = TRUE
    BY <1>3, <1>5, <2>1, <2>3
  <2>6. /\ \A q \in PluginNames : t.class[q].refs = st.class[q].refs
        /\ \A q \in PluginNames \ {p} : t.class[q].ready = st.class[q].ready
        /\ \A q \in PluginNames \ {p} : t.class[q].fresh = FALSE
    <3>1. /\ \A q \in PluginNames : s.class[q].refs = st.class[q].refs
          /\ \A q \in PluginNames \ {p} : s.class[q].ready = st.class[q].ready
          /\ \A q \in PluginNames : s.class[q].fresh = FALSE
      BY <1>3, <1>5
    <3> HIDE DEF t, first, s
    <3>2. ASSUME NEW q \in PluginNames \ {p}
          PROVE  t.class[q].refs = st.class[q].refs /\ t.class[q].ready = st.class[q].ready
                 /\ t.class[q].fresh = FALSE
      BY <2>5, <3>1
    <3> QED
      BY <2>5, <3>2
  <2> QED
    BY <1>2, <1>3, <1>5, <2>4, <2>5, <2>6 DEF t, first, LocatedNew
<1> QED
  BY <1>4, <1>5

(* An object was made for the window.                                      *)
Constructed(t, st, p, w) ==
  LET i == st.class[p].index
  IN  /\ t \in Storages /\ t.indices = st.indices /\ t.stacked = st.stacked
      /\ t.holder = st.holder /\ t.broken = st.broken
      /\ DOMAIN t.slots = DOMAIN st.slots
      /\ \A x \in DOMAIN st.slots \ {w} : t.slots[x] = st.slots[x]
      /\ Len(t.slots[w]) = Len(st.slots[w])
      /\ \A j \in 1 .. Len(st.slots[w]) :
            t.slots[w][j] = IF j = i THEN Live(p) ELSE st.slots[w][j]
      /\ \A q \in PluginNames \ {p} : t.class[q] = st.class[q]
      /\ t.class[p].index = st.class[p].index /\ t.class[p].refs = st.class[p].refs + 1
      /\ t.class[p].ready = st.class[p].ready /\ t.class[p].fresh = st.class[p].fresh

LEMMA ConstructIs ==
  ASSUME NEW st \in Storages, NEW p \in PluginNames, NEW w \in DOMAIN st.slots,
         st.class[p].index \in 1 .. Len(st.slots[w])
  PROVE  Constructed(Construct(st, p, w), st, p, w)
<1> DEFINE i == st.class[p].index
           c == Counted(st, p, st.class[p].refs + 1)
           t == Put(c, w, i, Live(p))
<1>1. st.class[p].refs + 1 \in Nat
  BY StorageParts DEF Classes
<1>2. /\ c \in Storages /\ c.indices = st.indices /\ c.stacked = st.stacked
      /\ c.holder = st.holder /\ c.broken = st.broken /\ c.slots = st.slots
      /\ \A q \in PluginNames \ {p} : c.class[q] = st.class[q]
      /\ c.class[p].index = st.class[p].index /\ c.class[p].refs = st.class[p].refs + 1
      /\ c.class[p].ready = st.class[p].ready /\ c.class[p].fresh = st.class[p].fresh
  BY <1>1, CountedIs
<1>3. Construct(st, p, w) = t
  BY ConstructSteps
<1> HIDE DEF c
<1>4. c \in Storages /\ w \in DOMAIN c.slots /\ i \in 1 .. Len(c.slots[w]) /\ Live(p) \in Objects
  BY <1>2, ObjectsAre
<1> HIDE DEF i
<1>5. /\ t \in Storages /\ t.indices = c.indices /\ t.stacked = c.stacked
      /\ t.holder = c.holder /\ t.broken = c.broken /\ t.class = c.class
      /\ DOMAIN t.slots = DOMAIN c.slots
      /\ \A x \in DOMAIN c.slots \ {w} : t.slots[x] = c.slots[x]
      /\ Len(t.slots[w]) = Len(c.slots[w])
      /\ \A j \in 1 .. Len(c.slots[w]) :
            t.slots[w][j] = IF j = i THEN Live(p) ELSE c.slots[w][j]
  BY <1>4, PutIs
<1> HIDE DEF t
<1> QED
  BY <1>2, <1>3, <1>5 DEF i, Constructed

(* The window's slot was marked dead.                                      *)
Marked(t, st, p, w) ==
  LET i == st.class[p].index
  IN  /\ t \in Storages /\ t.indices = st.indices /\ t.stacked = st.stacked
      /\ t.holder = st.holder /\ t.broken = st.broken
      /\ DOMAIN t.slots = DOMAIN st.slots
      /\ \A x \in DOMAIN st.slots \ {w} : t.slots[x] = st.slots[x]
      /\ Len(t.slots[w]) = Len(st.slots[w])
      /\ \A j \in 1 .. Len(st.slots[w]) :
            t.slots[w][j] = IF j = i THEN Dead(p) ELSE st.slots[w][j]
      /\ \A q \in PluginNames \ {p} : t.class[q] = st.class[q]
      /\ t.class[p].index = i /\ t.class[p].refs = st.class[p].refs - 1
      /\ t.class[p].ready = st.class[p].ready /\ t.class[p].fresh = st.class[p].fresh

(* The index was given back as well, t from s.                             *)
Freed(t, s, p, i) ==
  /\ t \in Storages /\ t.stacked = s.stacked /\ t.broken = s.broken
  /\ DOMAIN t.slots = DOMAIN s.slots
  /\ t.indices = IF i = Len(s.indices) THEN Front(s.indices)
                 ELSE [s.indices EXCEPT ![i] = FALSE]
  /\ \A w \in DOMAIN s.slots : t.slots[w] =
        IF w \in s.stacked THEN Resized(s.slots[w], Len(t.indices)) ELSE s.slots[w]
  /\ DOMAIN t.holder = DOMAIN s.holder \ {p}
  /\ \A q \in DOMAIN s.holder \ {p} : t.holder[q] = s.holder[q]
  /\ \A q \in PluginNames : t.class[q].refs = s.class[q].refs /\ t.class[q].fresh = FALSE
  /\ \A q \in PluginNames \ {p} : t.class[q].ready = s.class[q].ready
  /\ t.class[p].ready = FALSE

LEMMA FreedIs ==
  ASSUME NEW s \in Storages, NEW p \in PluginNames, NEW k \in Nat
  PROVE  Freed(AllStale(Held(GivenUp(FreeIndex(s, k), p),
                             Restrict(s.holder, DOMAIN s.holder \ {p}))), s, p, k)
<1> DEFINE f == FreeIndex(s, k)
           g == GivenUp(f, p)
           m == Restrict(s.holder, DOMAIN s.holder \ {p})
           u == Held(g, m)
           z == AllStale(u)
<1>1. /\ f \in Storages /\ f.stacked = s.stacked
      /\ f.holder = s.holder /\ f.broken = s.broken /\ f.class = s.class
      /\ DOMAIN f.slots = DOMAIN s.slots
      /\ f.indices = IF k = Len(s.indices) THEN Front(s.indices)
                     ELSE [s.indices EXCEPT ![k] = FALSE]
      /\ \A w \in DOMAIN s.slots : f.slots[w] =
            IF w \in s.stacked THEN Resized(s.slots[w], Len(f.indices)) ELSE s.slots[w]
  BY FreeIndexIs
<1> HIDE DEF f
<1>2. /\ g \in Storages /\ g.indices = f.indices /\ g.stacked = f.stacked
      /\ g.holder = f.holder /\ g.broken = f.broken /\ g.slots = f.slots
      /\ \A q \in PluginNames \ {p} : g.class[q] = f.class[q]
      /\ g.class[p].index = f.class[p].index /\ g.class[p].refs = f.class[p].refs
      /\ g.class[p].ready = FALSE
  BY <1>1, GivenUpIs
<1> HIDE DEF g
<1>3. /\ m \in Holders /\ DOMAIN m = DOMAIN s.holder \ {p}
      /\ \A q \in DOMAIN s.holder \ {p} : m[q] = s.holder[q]
  BY StorageParts, HolderLoses
<1> HIDE DEF m
<1>4. /\ u \in Storages /\ u.indices = g.indices /\ u.stacked = g.stacked
      /\ u.holder = m /\ u.broken = g.broken /\ u.slots = g.slots /\ u.class = g.class
  BY <1>2, <1>3, HeldIs
<1> HIDE DEF u
<1>5. /\ z \in Storages /\ z.indices = u.indices /\ z.stacked = u.stacked
      /\ z.holder = u.holder /\ z.broken = u.broken /\ z.slots = u.slots
      /\ \A q \in PluginNames :
            /\ z.class[q].index = u.class[q].index /\ z.class[q].refs = u.class[q].refs
            /\ z.class[q].ready = u.class[q].ready /\ z.class[q].fresh = FALSE
  BY <1>4, AllStaleIs
<1> HIDE DEF z
<1>6. /\ z \in Storages /\ z.stacked = s.stacked /\ z.broken = s.broken
      /\ z.indices = f.indices /\ z.slots = f.slots /\ z.holder = m
  BY <1>1, <1>2, <1>4, <1>5
<1>7. \A q \in PluginNames \ {p} : u.class[q] = s.class[q]
  BY <1>1, <1>2, <1>4
<1>8. u.class[p].refs = s.class[p].refs /\ u.class[p].ready = FALSE
  BY <1>1, <1>2, <1>4
<1>9. /\ \A q \in PluginNames : z.class[q].refs = s.class[q].refs /\ z.class[q].fresh = FALSE
      /\ \A q \in PluginNames \ {p} : z.class[q].ready = s.class[q].ready
      /\ z.class[p].ready = FALSE
  BY <1>5, <1>7, <1>8
<1>10. Freed(z, s, p, k)
  BY <1>1, <1>3, <1>6, <1>9 DEF Freed
<1> QED
  BY <1>10 DEF z, u, g, m, f

LEMMA MarkedIs ==
  ASSUME NEW st \in Storages, NEW p \in PluginNames, NEW w \in DOMAIN st.slots,
         st.class[p].index \in 1 .. Len(st.slots[w]), st.class[p].refs # 0
  PROVE  Marked(Put(Counted(st, p, st.class[p].refs - 1), w, st.class[p].index, Dead(p)),
                st, p, w)
<1> DEFINE k == st.class[p].index
           c == Counted(st, p, st.class[p].refs - 1)
           t == Put(c, w, k, Dead(p))
<1>1. st.class[p].refs - 1 \in Nat
  BY StorageParts DEF Classes
<1>2. /\ c \in Storages /\ c.indices = st.indices /\ c.stacked = st.stacked
      /\ c.holder = st.holder /\ c.broken = st.broken /\ c.slots = st.slots
      /\ \A q \in PluginNames \ {p} : c.class[q] = st.class[q]
      /\ c.class[p].index = st.class[p].index /\ c.class[p].refs = st.class[p].refs - 1
      /\ c.class[p].ready = st.class[p].ready /\ c.class[p].fresh = st.class[p].fresh
  BY <1>1, CountedIs
<1> HIDE DEF c
<1>4. c \in Storages /\ w \in DOMAIN c.slots /\ k \in 1 .. Len(c.slots[w]) /\ Dead(p) \in Objects
  BY <1>2, ObjectsAre
<1> HIDE DEF k
<1>5. /\ t \in Storages /\ t.indices = c.indices /\ t.stacked = c.stacked
      /\ t.holder = c.holder /\ t.broken = c.broken /\ t.class = c.class
      /\ DOMAIN t.slots = DOMAIN c.slots
      /\ \A x \in DOMAIN c.slots \ {w} : t.slots[x] = c.slots[x]
      /\ Len(t.slots[w]) = Len(c.slots[w])
      /\ \A j \in 1 .. Len(c.slots[w]) :
            t.slots[w][j] = IF j = k THEN Dead(p) ELSE c.slots[w][j]
  BY <1>4, PutIs
<1> HIDE DEF t
<1>6. Marked(t, st, p, w)
  BY <1>2, <1>5 DEF Marked, k
<1> QED
  BY <1>6 DEF t, c, k

(* The destructor marks the slot, and frees the index with the last object. *)
LEMMA DestructIs ==
  ASSUME NEW st \in Storages, NEW p \in PluginNames, NEW w \in DOMAIN st.slots,
         st.class[p].index \in 1 .. Len(st.slots[w]),
         st.slots[w][st.class[p].index] = Live(p), st.class[p].refs # 0
  PROVE  \E s : /\ Marked(s, st, p, w)
                /\ st.class[p].refs # 1 => Destruct(st, p, w) = s
                /\ st.class[p].refs = 1 => Freed(Destruct(st, p, w), s, p, st.class[p].index)
<1> DEFINE k == st.class[p].index
           s == Put(Counted(st, p, st.class[p].refs - 1), w, k, Dead(p))
           t == Destruct(st, p, w)
           z == AllStale(Held(GivenUp(FreeIndex(s, k), p),
                                   Restrict(s.holder, DOMAIN s.holder \ {p})))
<1>1. Marked(s, st, p, w)
  BY MarkedIs
<1>2. s \in Storages /\ s.holder = st.holder /\ s.class[p].refs = st.class[p].refs - 1
      /\ st.class[p].refs \in Nat /\ k \in Nat
  BY <1>1, StorageParts DEF Marked, Classes
<1>3. t = IF s.class[p].refs # 0 THEN s
          ELSE AllStale(Held(GivenUp(FreeIndex(s, k), p),
                                   Restrict(st.holder, DOMAIN st.holder \ {p})))
  BY DestructSteps, Zenon
<1> HIDE DEF t, s, k
<1>4. t = IF s.class[p].refs # 0 THEN s ELSE z
  BY <1>2, <1>3
<1>5. Freed(z, s, p, k)
  BY <1>2, FreedIs
<1> HIDE DEF z
<1>6. /\ st.class[p].refs # 1 => t = s
      /\ st.class[p].refs = 1 => Freed(t, s, p, k)
  BY <1>2, <1>4, <1>5
<1> QED
  BY <1>1, <1>6 DEF t, k

-----------------------------------------------------------------------------
(* The objects that are alive, by their windows and slots.                 *)
LiveAt(sl, p) ==
  UNION {{<<w, i>> : i \in {j \in 1 .. Len(sl[w]) : sl[w][j] = Live(p)}} : w \in DOMAIN sl}

(* s with the object o in slot i of window w                               *)
SlotSet(t, s, w, i, o) ==
  /\ DOMAIN t = DOMAIN s /\ \A x \in DOMAIN s \ {w} : t[x] = s[x]
  /\ Len(t[w]) = Len(s[w])
  /\ \A j \in 1 .. Len(s[w]) : t[w][j] = IF j = i THEN o ELSE s[w][j]

LEMMA InLive ==
  ASSUME NEW s, NEW p
  PROVE  /\ \A x, j : <<x, j>> \in LiveAt(s, p) <=>
                x \in DOMAIN s /\ j \in 1 .. Len(s[x]) /\ s[x][j] = Live(p)
         /\ \A y \in LiveAt(s, p) : \E x \in DOMAIN s : \E j \in 1 .. Len(s[x]) : y = <<x, j>>
BY DEF LiveAt

LiveSet(t, s, w, i, o, p) ==
  LiveAt(t, p) = IF o = Live(p) THEN LiveAt(s, p) \cup {<<w, i>>}
                 ELSE LiveAt(s, p) \ {<<w, i>>}

LEMMA LiveAfterSet ==
  ASSUME NEW s, NEW t, NEW w \in DOMAIN s, NEW i \in 1 .. Len(s[w]), Len(s[w]) \in Nat,
         NEW o, SlotSet(t, s, w, i, o), NEW p
  PROVE  LiveSet(t, s, w, i, o, p)
<1>1. ASSUME NEW x \in DOMAIN s, NEW j \in 1 .. Len(s[x])
      PROVE  <<x, j>> \in LiveAt(t, p) <=>
             IF x = w /\ j = i THEN o = Live(p) ELSE <<x, j>> \in LiveAt(s, p)
  <2>1. CASE x = w
    BY <2>1, InLive DEF SlotSet
  <2>2. CASE x # w
    BY <2>2, InLive DEF SlotSet
  <2> QED
    BY <2>1, <2>2
<1>2. \A y \in LiveAt(t, p) \cup LiveAt(s, p) :
         \E x \in DOMAIN s : \E j \in 1 .. Len(s[x]) : y = <<x, j>>
  BY InLive DEF SlotSet
<1>3. i \in Nat
  OBVIOUS
<1>4. CASE o = Live(p)
  <2>1. ASSUME NEW y PROVE y \in LiveAt(t, p) <=> y \in LiveAt(s, p) \cup {<<w, i>>}
    BY <1>1, <1>2, <1>3, <1>4
  <2> QED
    BY <1>4, <2>1 DEF LiveSet
<1>5. CASE o # Live(p)
  <2>1. ASSUME NEW y PROVE y \in LiveAt(t, p) <=> y \in LiveAt(s, p) \ {<<w, i>>}
    BY <1>1, <1>2, <1>3, <1>5
  <2> QED
    BY <1>5, <2>1 DEF LiveSet
<1> QED
  BY <1>4, <1>5

Typed(st) ==
  /\ st \in Storages /\ IsFiniteSet(DOMAIN st.slots) /\ st.stacked \subseteq DOMAIN st.slots
  /\ \A p \in PluginNames :
        /\ st.class[p].ready => p \in DOMAIN st.holder
        /\ IsFiniteSet(LiveAt(st.slots, p))
        /\ Cardinality(LiveAt(st.slots, p)) <= st.class[p].refs

(* Fewer living objects, and the counts as they were.                      *)
LEMMA TypedFewer ==
  ASSUME NEW st, Typed(st), NEW t \in Storages, DOMAIN t.slots \subseteq DOMAIN st.slots,
         t.stacked \subseteq DOMAIN t.slots,
         \A p \in PluginNames :
            /\ t.class[p].ready => p \in DOMAIN t.holder
            /\ LiveAt(t.slots, p) \subseteq LiveAt(st.slots, p)
            /\ t.class[p].refs = st.class[p].refs
  PROVE  Typed(t)
<1>1. ASSUME NEW p \in PluginNames
      PROVE  IsFiniteSet(LiveAt(t.slots, p)) /\ Cardinality(LiveAt(t.slots, p)) <= t.class[p].refs
  <2>1. IsFiniteSet(LiveAt(st.slots, p)) /\ Cardinality(LiveAt(st.slots, p)) <= st.class[p].refs
    BY DEF Typed
  <2>2. LiveAt(t.slots, p) \subseteq LiveAt(st.slots, p) /\ t.class[p].refs = st.class[p].refs
    OBVIOUS
  <2>3. IsFiniteSet(LiveAt(t.slots, p))
        /\ Cardinality(LiveAt(t.slots, p)) <= Cardinality(LiveAt(st.slots, p))
    BY <2>1, <2>2, FS_Subset
  <2>4. Cardinality(LiveAt(t.slots, p)) \in Nat /\ Cardinality(LiveAt(st.slots, p)) \in Nat
        /\ t.class[p].refs \in Nat
    BY <2>1, <2>3, FS_CardinalityType, StorageParts DEF Classes
  <2> QED
    BY <2>1, <2>2, <2>3, <2>4
<1>2. IsFiniteSet(DOMAIN t.slots)
  BY FS_Subset DEF Typed
<1> QED
  BY <1>1, <1>2 DEF Typed

LEMMA LiveAfterResize ==
  ASSUME NEW st \in Storages, NEW t \in Storages, DOMAIN t.slots = DOMAIN st.slots, NEW n \in Nat,
         \A w \in DOMAIN st.slots : t.slots[w] =
            IF w \in st.stacked THEN Resized(st.slots[w], n) ELSE st.slots[w],
         NEW p \in PluginNames
  PROVE  LiveAt(t.slots, p) \subseteq LiveAt(st.slots, p)
<1>1. Live(p) # Null
  BY ObjectsAre
<1>2. ASSUME NEW w \in DOMAIN st.slots, NEW j \in 1 .. Len(t.slots[w]), t.slots[w][j] = Live(p)
      PROVE  j \in 1 .. Len(st.slots[w]) /\ st.slots[w][j] = Live(p)
  <2>1. st.slots[w] \in Seq(Objects)
    BY StorageParts, VectorsAre
  <2>2. CASE w \in st.stacked
    <3> DEFINE v == st.slots[w]
    <3>0. t.slots[w] = Resized(v, n)
      BY <2>2
    <3>4. v \in Seq(Objects)
      BY <2>1
    <3> HIDE DEF v
    <3>5. /\ Len(Resized(v, n)) = n
          /\ \A k \in 1 .. n : Resized(v, n)[k] = IF k =< Len(v) THEN v[k] ELSE Null
      BY <3>4, ResizedIs
    <3>1. /\ Len(t.slots[w]) = n
          /\ \A k \in 1 .. n : t.slots[w][k] = IF k =< Len(st.slots[w]) THEN st.slots[w][k] ELSE Null
      BY <3>0, <3>5 DEF v
    <3>2. t.slots[w][j] = IF j =< Len(st.slots[w]) THEN st.slots[w][j] ELSE Null
      BY <3>1
    <3>3. j =< Len(st.slots[w]) /\ st.slots[w][j] = Live(p)
      BY <1>1, <1>2, <3>2
    <3> QED
      BY <3>3
  <2>3. CASE w \notin st.stacked
    BY <1>2, <2>3
  <2> QED
    BY <2>2, <2>3
<1>3. ASSUME NEW y \in LiveAt(t.slots, p)
      PROVE  y \in LiveAt(st.slots, p)
  <2>1. PICK w \in DOMAIN t.slots : \E j \in 1 .. Len(t.slots[w]) : y = <<w, j>>
    BY InLive
  <2>4. PICK j \in 1 .. Len(t.slots[w]) : y = <<w, j>>
    BY <2>1
  <2>2. j \in 1 .. Len(t.slots[w]) /\ t.slots[w][j] = Live(p)
    BY <2>4, InLive
  <2>3. j \in 1 .. Len(st.slots[w]) /\ st.slots[w][j] = Live(p)
    BY <1>2, <2>2
  <2> QED
    BY <2>3, <2>4, InLive
<1> QED
  BY <1>3

LEMMA LocatedTyped ==
  ASSUME NEW st, Typed(st), NEW p \in PluginNames
  PROVE  Typed(Located(st, p))
<1>1. st \in Storages /\ st.stacked \subseteq DOMAIN st.slots
  BY DEF Typed
<1> DEFINE t == Located(st, p)
<1>2. CASE st.class[p].ready
  <2>1. LocatedOld(t, st, p)
    BY <1>1, <1>2, LocatedOldIs DEF Typed
  <2> HIDE DEF t
  <2>2. /\ t \in Storages /\ t.slots = st.slots /\ t.stacked = st.stacked /\ t.holder = st.holder
        /\ \A q \in PluginNames \ {p} : t.class[q] = st.class[q]
        /\ t.class[p].refs = st.class[p].refs
    BY <2>1 DEF LocatedOld
  <2>3. \A q \in PluginNames : /\ t.class[q].ready => q \in DOMAIN t.holder
                               /\ LiveAt(t.slots, q) \subseteq LiveAt(st.slots, q)
                               /\ t.class[q].refs = st.class[q].refs
    BY <1>2, <2>2 DEF Typed
  <2>4. Typed(t)
    BY <1>1, <2>2, <2>3, TypedFewer
  <2> QED
    BY <2>4 DEF t
<1>3. CASE ~ st.class[p].ready
  <2>1. LocatedNew(t, st, p)
    BY <1>1, <1>3, LocatedNewIs
  <2> HIDE DEF t
  <2>2. /\ t \in Storages /\ t.stacked = st.stacked /\ DOMAIN t.slots = DOMAIN st.slots
        /\ \A w \in DOMAIN st.slots : t.slots[w] =
              IF w \in st.stacked THEN Resized(st.slots[w], Len(t.indices)) ELSE st.slots[w]
    BY <2>1 DEF LocatedNew
  <2>3. Len(t.indices) \in Nat
    BY <2>2, StorageParts
  <2>4. ASSUME NEW q \in PluginNames
        PROVE  /\ t.class[q].ready => q \in DOMAIN t.holder
               /\ LiveAt(t.slots, q) \subseteq LiveAt(st.slots, q)
               /\ t.class[q].refs = st.class[q].refs
    <3>1. t.class[q].refs = st.class[q].refs
      BY <2>1 DEF LocatedNew
    <3>2. t.class[q].ready => q \in DOMAIN t.holder
      BY <2>1 DEF LocatedNew, Typed
    <3>3. LiveAt(t.slots, q) \subseteq LiveAt(st.slots, q)
      BY <1>1, <2>2, <2>3, LiveAfterResize
    <3> QED
      BY <3>1, <3>2, <3>3
  <2>5. Typed(t)
    BY <1>1, <2>2, <2>4, TypedFewer
  <2> QED
    BY <2>5 DEF t
<1> QED
  BY <1>2, <1>3

LEMMA CountsOfTyped ==
  ASSUME NEW st, Typed(st), NEW p \in PluginNames
  PROVE  /\ IsFiniteSet(LiveAt(st.slots, p)) /\ Cardinality(LiveAt(st.slots, p)) \in Nat
         /\ Cardinality(LiveAt(st.slots, p)) <= st.class[p].refs
         /\ st.class[p].refs \in Nat
         /\ LiveAt(st.slots, p) # {} => st.class[p].refs # 0
<1>1. IsFiniteSet(LiveAt(st.slots, p)) /\ Cardinality(LiveAt(st.slots, p)) <= st.class[p].refs
      /\ st \in Storages
  BY DEF Typed
<1>2. Cardinality(LiveAt(st.slots, p)) \in Nat
  BY <1>1, FS_CardinalityType
<1>3. st.class[p].refs \in Nat
  BY <1>1, StorageParts DEF Classes
<1>4. LiveAt(st.slots, p) # {} => Cardinality(LiveAt(st.slots, p)) # 0
  BY <1>1, FS_EmptySet
<1> QED
  BY <1>1, <1>2, <1>3, <1>4

(* An object more or less: the others' sets are as they were.              *)
LiveOf(t, s, w, i, o, p, q) ==
  /\ LiveAt(t, q) \subseteq IF q = p /\ o = Live(p) THEN LiveAt(s, q) \cup {<<w, i>>}
                            ELSE LiveAt(s, q)
  /\ q = p => LiveAt(t, q) = IF o = Live(p) THEN LiveAt(s, q) \cup {<<w, i>>}
                             ELSE LiveAt(s, q) \ {<<w, i>>}

LEMMA LiveOfOthers ==
  ASSUME NEW st \in Storages, NEW t, NEW p \in PluginNames, NEW w \in DOMAIN st.slots,
         NEW i \in 1 .. Len(st.slots[w]), NEW o \in {Live(p), Dead(p)},
         SlotSet(t, st.slots, w, i, o), NEW q \in PluginNames
  PROVE  LiveOf(t, st.slots, w, i, o, p, q)
<1> DEFINE v == st.slots
<1>1. w \in DOMAIN v /\ i \in 1 .. Len(v[w]) /\ Len(v[w]) \in Nat /\ SlotSet(t, v, w, i, o)
  BY StorageParts, VectorsAre
<1>3. o = Live(q) => q = p /\ o = Live(p)
  BY DEF Live, Dead
<1> HIDE DEF v
<1>2. LiveSet(t, v, w, i, o, q)
  BY <1>1, LiveAfterSet
<1>4. LiveOf(t, v, w, i, o, p, q)
  BY <1>2, <1>3 DEF LiveSet, LiveOf
<1> QED
  BY <1>4 DEF v

LEMMA ConstructTyped ==
  ASSUME NEW st, Typed(st), NEW p \in PluginNames, NEW w \in DOMAIN st.slots,
         st.class[p].index \in 1 .. Len(st.slots[w]), NEW t, Constructed(t, st, p, w)
  PROVE  /\ Typed(t)
         /\ SlotSet(t.slots, st.slots, w, st.class[p].index, Live(p))
<1> DEFINE k == st.class[p].index
<1>1. st \in Storages
  BY DEF Typed
<1>2. SlotSet(t.slots, st.slots, w, k, Live(p))
  BY DEF Constructed, SlotSet
<1>3. /\ t \in Storages /\ t.stacked = st.stacked /\ t.holder = st.holder
      /\ DOMAIN t.slots = DOMAIN st.slots
      /\ \A q \in PluginNames \ {p} : t.class[q] = st.class[q]
      /\ t.class[p].refs = st.class[p].refs + 1
      /\ t.class[p].ready = st.class[p].ready
  BY DEF Constructed
<1>4. ASSUME NEW q \in PluginNames
      PROVE  /\ t.class[q].ready => q \in DOMAIN t.holder
             /\ IsFiniteSet(LiveAt(t.slots, q))
             /\ Cardinality(LiveAt(t.slots, q)) <= t.class[q].refs
  <2> DEFINE S == LiveAt(st.slots, q)
             T == LiveAt(t.slots, q)
  <2>1. IsFiniteSet(S) /\ Cardinality(S) \in Nat /\ Cardinality(S) <= st.class[q].refs
        /\ st.class[q].refs \in Nat
    BY CountsOfTyped
  <2>2. t.class[q].ready => q \in DOMAIN t.holder
    BY <1>3 DEF Typed
  <2>3. /\ T \subseteq IF q = p THEN S \cup {<<w, k>>} ELSE S
    <3>1. k \in 1 .. Len(st.slots[w]) /\ Live(p) \in {Live(p), Dead(p)}
      OBVIOUS
    <3>2. LiveOf(t.slots, st.slots, w, k, Live(p), p, q)
      BY <1>1, <1>2, <3>1, LiveOfOthers
    <3> QED
      BY <3>2 DEF LiveOf
  <2> HIDE DEF S, T
  <2>4. CASE q = p
    <3>1. IsFiniteSet(S \cup {<<w, k>>})
          /\ Cardinality(S \cup {<<w, k>>}) = IF <<w, k>> \in S THEN Cardinality(S) ELSE Cardinality(S) + 1
      BY <2>1, FS_AddElement
    <3>2. IsFiniteSet(T) /\ Cardinality(T) <= Cardinality(S \cup {<<w, k>>})
      BY <2>3, <2>4, <3>1, FS_Subset
    <3>3. Cardinality(T) \in Nat
      BY <3>2, FS_CardinalityType
    <3> QED
      BY <1>3, <2>1, <2>2, <2>4, <3>1, <3>2, <3>3 DEF T
  <2>5. CASE q # p
    <3>1. IsFiniteSet(T) /\ Cardinality(T) <= Cardinality(S)
      BY <2>1, <2>3, <2>5, FS_Subset
    <3>2. Cardinality(T) \in Nat
      BY <3>1, FS_CardinalityType
    <3> QED
      BY <1>3, <2>1, <2>2, <2>5, <3>1, <3>2 DEF T
  <2> QED
    BY <2>4, <2>5
<1> QED
  BY <1>2, <1>3, <1>4 DEF Typed

LEMMA MarkedTyped ==
  ASSUME NEW st, Typed(st), NEW p \in PluginNames, NEW w \in DOMAIN st.slots,
         st.class[p].index \in 1 .. Len(st.slots[w]),
         st.slots[w][st.class[p].index] = Live(p), NEW t, Marked(t, st, p, w)
  PROVE  /\ Typed(t)
         /\ SlotSet(t.slots, st.slots, w, st.class[p].index, Dead(p))
<1> DEFINE k == st.class[p].index
<1>1. st \in Storages
  BY DEF Typed
<1>2. SlotSet(t.slots, st.slots, w, k, Dead(p))
  BY DEF Marked, SlotSet
<1>3. /\ t \in Storages /\ t.stacked = st.stacked /\ t.holder = st.holder
      /\ DOMAIN t.slots = DOMAIN st.slots
      /\ \A q \in PluginNames \ {p} : t.class[q] = st.class[q]
      /\ t.class[p].refs = st.class[p].refs - 1
      /\ t.class[p].ready = st.class[p].ready
  BY DEF Marked
<1>5. <<w, k>> \in LiveAt(st.slots, p)
  BY InLive
<1>6. Dead(p) # Live(p)
  BY ObjectsAre
<1>4. ASSUME NEW q \in PluginNames
      PROVE  /\ t.class[q].ready => q \in DOMAIN t.holder
             /\ IsFiniteSet(LiveAt(t.slots, q))
             /\ Cardinality(LiveAt(t.slots, q)) <= t.class[q].refs
  <2> DEFINE S == LiveAt(st.slots, q)
             T == LiveAt(t.slots, q)
  <2>1. IsFiniteSet(S) /\ Cardinality(S) \in Nat /\ Cardinality(S) <= st.class[q].refs
        /\ st.class[q].refs \in Nat
    BY CountsOfTyped
  <2>2. t.class[q].ready => q \in DOMAIN t.holder
    BY <1>3 DEF Typed
  <2>3. /\ T \subseteq S
        /\ q = p => T = S \ {<<w, k>>}
    <3>1. k \in 1 .. Len(st.slots[w]) /\ Dead(p) \in {Live(p), Dead(p)}
      OBVIOUS
    <3>2. LiveOf(t.slots, st.slots, w, k, Dead(p), p, q)
      BY <1>1, <1>2, <3>1, LiveOfOthers
    <3> QED
      BY <3>2, <1>6 DEF LiveOf
  <2>6. q = p => <<w, k>> \in S
    BY <1>5
  <2> HIDE DEF S, T
  <2>4. CASE q = p
    <3>1. IsFiniteSet(T) /\ Cardinality(T) = Cardinality(S) - 1
      BY <2>1, <2>3, <2>4, <2>6, FS_RemoveElement
    <3> QED
      BY <1>3, <2>1, <2>2, <2>4, <3>1 DEF T
  <2>5. CASE q # p
    <3>1. IsFiniteSet(T) /\ Cardinality(T) <= Cardinality(S)
      BY <2>1, <2>3, FS_Subset
    <3>2. Cardinality(T) \in Nat
      BY <3>1, FS_CardinalityType
    <3> QED
      BY <1>3, <2>1, <2>2, <2>5, <3>1, <3>2 DEF T
  <2> QED
    BY <2>4, <2>5
<1> QED
  BY <1>2, <1>3, <1>4 DEF Typed

LEMMA FreedTyped ==
  ASSUME NEW s, Typed(s), NEW p \in PluginNames, NEW k \in Nat, NEW t, Freed(t, s, p, k)
  PROVE  Typed(t)
<1>1. s \in Storages /\ s.stacked \subseteq DOMAIN s.slots
  BY DEF Typed
<1>2. /\ t \in Storages /\ t.stacked = s.stacked /\ DOMAIN t.slots = DOMAIN s.slots
      /\ \A w \in DOMAIN s.slots : t.slots[w] =
            IF w \in s.stacked THEN Resized(s.slots[w], Len(t.indices)) ELSE s.slots[w]
  BY DEF Freed
<1>3. Len(t.indices) \in Nat
  BY <1>2, StorageParts
<1>4. ASSUME NEW q \in PluginNames
      PROVE  /\ t.class[q].ready => q \in DOMAIN t.holder
             /\ LiveAt(t.slots, q) \subseteq LiveAt(s.slots, q)
             /\ t.class[q].refs = s.class[q].refs
  <2>1. t.class[q].refs = s.class[q].refs
    BY DEF Freed
  <2>2. t.class[q].ready => q \in DOMAIN t.holder
    BY DEF Freed, Typed
  <2>3. LiveAt(t.slots, q) \subseteq LiveAt(s.slots, q)
    BY <1>1, <1>2, <1>3, LiveAfterResize
  <2> QED
    BY <2>1, <2>2, <2>3
<1> QED
  BY <1>1, <1>2, <1>4, TypedFewer

LEMMA DestructTyped ==
  ASSUME NEW st, Typed(st), NEW p \in PluginNames, NEW w \in DOMAIN st.slots,
         st.class[p].index \in 1 .. Len(st.slots[w]),
         st.slots[w][st.class[p].index] = Live(p)
  PROVE  Typed(Destruct(st, p, w))
<1> DEFINE t == Destruct(st, p, w)
<1>1. <<w, st.class[p].index>> \in LiveAt(st.slots, p)
  BY InLive
<1>2. st \in Storages /\ st.class[p].refs # 0
  BY <1>1, CountsOfTyped DEF Typed
<1>3. PICK s : /\ Marked(s, st, p, w)
               /\ st.class[p].refs # 1 => t = s
               /\ st.class[p].refs = 1 => Freed(t, s, p, st.class[p].index)
  BY <1>2, DestructIs
<1> HIDE DEF t
<1>4. Typed(s)
  BY <1>3, MarkedTyped
<1>5. st.class[p].index \in Nat
  OBVIOUS
<1>6. Typed(t)
  BY <1>3, <1>4, <1>5, FreedTyped
<1> QED
  BY <1>6 DEF t

(* What every step on the storage leaves alone.                            *)
Stepped(t, st) ==
  /\ Typed(t) /\ DOMAIN t.slots = DOMAIN st.slots /\ t.stacked = st.stacked
  /\ st.broken => t.broken

LEMMA SteppedTwice ==
  ASSUME NEW s, NEW t, NEW u, Stepped(t, s), Stepped(u, t)
  PROVE  Stepped(u, s)
BY DEF Stepped

LEMMA LocatedStepped ==
  ASSUME NEW st, Typed(st), NEW p \in PluginNames
  PROVE  Stepped(Located(st, p), st) /\ Located(st, p).broken = st.broken
<1>1. st \in Storages
  BY DEF Typed
<1> DEFINE t == Located(st, p)
<1>2. Typed(t)
  BY LocatedTyped
<1>3. DOMAIN t.slots = DOMAIN st.slots /\ t.stacked = st.stacked /\ t.broken = st.broken
  <2>1. CASE st.class[p].ready
    <3>1. LocatedOld(t, st, p)
      BY <1>1, <2>1, LocatedOldIs DEF Typed
    <3> HIDE DEF t
    <3> QED
      BY <3>1 DEF LocatedOld
  <2>2. CASE ~ st.class[p].ready
    <3>1. LocatedNew(t, st, p)
      BY <1>1, <2>2, LocatedNewIs
    <3> HIDE DEF t
    <3> QED
      BY <3>1 DEF LocatedNew
  <2> QED
    BY <2>1, <2>2
<1> QED
  BY <1>2, <1>3 DEF Stepped

LEMMA ConstructStepped ==
  ASSUME NEW st, Typed(st), NEW p \in PluginNames, NEW w \in DOMAIN st.slots,
         st.class[p].index \in 1 .. Len(st.slots[w])
  PROVE  /\ Stepped(Construct(st, p, w), st)
         /\ Constructed(Construct(st, p, w), st, p, w)
<1>1. st \in Storages
  BY DEF Typed
<1> DEFINE t == Construct(st, p, w)
<1>2. Constructed(t, st, p, w)
  BY <1>1, ConstructIs
<1> HIDE DEF t
<1>3. Typed(t)
  BY <1>2, ConstructTyped
<1>4. Stepped(t, st)
  BY <1>2, <1>3 DEF Stepped, Constructed
<1> QED
  BY <1>2, <1>4 DEF t

LEMMA DestructStepped ==
  ASSUME NEW st, Typed(st), NEW p \in PluginNames, NEW w \in DOMAIN st.slots,
         st.class[p].index \in 1 .. Len(st.slots[w]),
         st.slots[w][st.class[p].index] = Live(p)
  PROVE  Stepped(Destruct(st, p, w), st)
<1> DEFINE t == Destruct(st, p, w)
<1>1. <<w, st.class[p].index>> \in LiveAt(st.slots, p)
  BY InLive
<1>2. st \in Storages /\ st.class[p].refs # 0 /\ st.class[p].refs \in Nat
  BY <1>1, CountsOfTyped DEF Typed
<1>3. PICK s : /\ Marked(s, st, p, w)
               /\ st.class[p].refs # 1 => t = s
               /\ st.class[p].refs = 1 => Freed(t, s, p, st.class[p].index)
  BY <1>2, DestructIs
<1>4. Typed(t)
  BY DestructTyped
<1> HIDE DEF t
<1>5. DOMAIN s.slots = DOMAIN st.slots /\ s.stacked = st.stacked /\ s.broken = st.broken
  BY <1>3 DEF Marked
<1>6. DOMAIN t.slots = DOMAIN s.slots /\ t.stacked = s.stacked /\ t.broken = s.broken
  BY <1>3 DEF Freed
<1> QED
  BY <1>4, <1>5, <1>6 DEF Stepped, t

LEMMA BreakStepped ==
  ASSUME NEW st, Typed(st)
  PROVE  Stepped(Break(st), st) /\ Break(st).broken = TRUE
<1>1. st \in Storages
  BY DEF Typed
<1> DEFINE t == Break(st)
<1>2. /\ t \in Storages /\ t.indices = st.indices /\ t.slots = st.slots /\ t.stacked = st.stacked
      /\ t.class = st.class /\ t.holder = st.holder /\ t.broken = TRUE
  BY <1>1 DEF Break, Storages
<1> HIDE DEF t
<1>3. Typed(t)
  BY <1>2 DEF Typed
<1> QED
  BY <1>2, <1>3 DEF Stepped, t

LEMMA NullSlotMade ==
  ASSUME NEW st, Typed(st), NEW p \in PluginNames, NEW w \in DOMAIN st.slots,
         st.class[p].index \in 1 .. Len(st.slots[w])
  PROVE  Stepped(Destruct(Construct(st, p, w), p, w), st)
<1> DEFINE t == Construct(st, p, w)
<1>1. Stepped(t, st) /\ Constructed(t, st, p, w)
  BY ConstructStepped
<1> HIDE DEF t
<1>2. /\ w \in DOMAIN t.slots /\ t.class[p].index \in 1 .. Len(t.slots[w])
      /\ t.slots[w][t.class[p].index] = Live(p)
  BY <1>1 DEF Constructed
<1>3. Stepped(Destruct(t, p, w), t)
  BY <1>1, <1>2, DestructStepped DEF Stepped
<1>4. Stepped(Destruct(t, p, w), st)
  BY <1>1, <1>3, SteppedTwice
<1> QED
  BY <1>4 DEF t

LEMMA WindowsStepped ==
  ASSUME NEW st, Typed(st), NEW p \in PluginNames, NEW w \in DOMAIN st.slots
  PROVE  /\ Stepped(InitWindow(st, p, w), st)
         /\ Stepped(InitWindowFails(st, p, w), st)
         /\ Stepped(FiniWindow(st, p, w), st)
<1> DEFINE s == Located(st, p)
<1>1. Stepped(s, st)
  BY LocatedStepped
<1>2. InitWindow(st, p, w) = IF st.broken THEN st ELSE IF ~ InRange(s, p, w) THEN Break(s)
          ELSE IF SlotOf(s, p, w) = Null THEN Construct(s, p, w) ELSE s
  BY DEF InitWindow
<1>3. InitWindowFails(st, p, w) = IF st.broken THEN st
          ELSE IF ~ InRange(s, p, w) \/ SlotOf(s, p, w) # Null THEN Break(s)
          ELSE Destruct(Construct(s, p, w), p, w)
  BY DEF InitWindowFails
<1>4. FiniWindow(st, p, w) = IF st.broken THEN st ELSE IF ~ InRange(s, p, w) THEN Break(s)
          ELSE IF SlotOf(s, p, w) = Null THEN Destruct(Construct(s, p, w), p, w)
          ELSE IF SlotOf(s, p, w) = Live(p) THEN Destruct(s, p, w)
          ELSE Break(s)
  BY DEF FiniWindow, Live
<1> HIDE DEF s
<1>5. Stepped(st, st)
  BY DEF Stepped
<1>6. Typed(s) /\ w \in DOMAIN s.slots
  BY <1>1 DEF Stepped
<1>7. Stepped(Break(s), st)
  BY <1>1, <1>6, BreakStepped, SteppedTwice
<1>8. CASE ~ InRange(s, p, w)
  BY <1>2, <1>3, <1>4, <1>5, <1>7, <1>8
<1>9. CASE InRange(s, p, w)
  <2>1. s.slots[w] \in Seq(Objects)
    BY <1>6, StorageParts, VectorsAre DEF Typed
  <2>2. s.class[p].index \in 1 .. Len(s.slots[w])
    BY <1>9, <2>1 DEF InRange
  <2>3. Stepped(Construct(s, p, w), st) /\ Stepped(Destruct(Construct(s, p, w), p, w), st)
    BY <1>1, <1>6, <2>2, ConstructStepped, NullSlotMade, SteppedTwice
  <2>4. SlotOf(s, p, w) = Live(p) => Stepped(Destruct(s, p, w), st)
    BY <1>1, <1>6, <2>2, DestructStepped, SteppedTwice DEF SlotOf
  <2> QED
    BY <1>1, <1>2, <1>3, <1>4, <1>5, <1>7, <2>3, <2>4
<1> QED
  BY <1>8, <1>9

-----------------------------------------------------------------------------
(* The function Carried is defined with.                                   *)
CarriedBy(st, tasks) ==
  LET after[n \in 0 .. Len(tasks)] ==
          IF n = 0 THEN st
          ELSE IF tasks[n].init
          THEN InitWindow(after[n - 1], tasks[n].plugin, tasks[n].window)
          ELSE FiniWindow(after[n - 1], tasks[n].plugin, tasks[n].window)
  IN  after

LEMMA CarriedIs ==
  ASSUME NEW st, NEW tasks
  PROVE  Carried(st, tasks) = CarriedBy(st, tasks)[Len(tasks)]
BY DEF Carried, CarriedBy

(* The definition of Carried by recursion has a solution.                  *)
LEMMA CarriedSteps ==
  ASSUME NEW st, NEW tasks, Len(tasks) \in Nat
  PROVE  /\ CarriedBy(st, tasks)[0] = st
         /\ \A n \in 1 .. Len(tasks) :
               CarriedBy(st, tasks)[n] = IF tasks[n].init
                    THEN InitWindow(CarriedBy(st, tasks)[n - 1], tasks[n].plugin, tasks[n].window)
                    ELSE FiniWindow(CarriedBy(st, tasks)[n - 1], tasks[n].plugin, tasks[n].window)
<1> DEFINE Step(g, n) == IF n = 0 THEN st ELSE IF tasks[n].init
                    THEN InitWindow(g[n - 1], tasks[n].plugin, tasks[n].window)
                    ELSE FiniWindow(g[n - 1], tasks[n].plugin, tasks[n].window)
           Solved(m) == \E g : g = [n \in 0 .. m |-> Step(g, n)]
           S == {m \in 0 .. Len(tasks) : ~ Solved(m)}
           f == CarriedBy(st, tasks)
<1>1. f = CHOOSE g : g = [n \in 0 .. Len(tasks) |-> Step(g, n)]
  BY DEF CarriedBy
<1>2. S = {}
  <2> SUFFICES ASSUME S # {}
               PROVE  FALSE
    OBVIOUS
  <2>1. S \in SUBSET Nat
    OBVIOUS
  <2>2. PICK m : m \in S /\ \A y \in S : m =< y
    BY <2>1, MinIsFirst
  <2>3. m \in Nat /\ m \in 0 .. Len(tasks) /\ ~ Solved(m)
    BY <2>2
  <2>4. CASE m = 0
    <3> DEFINE h == [n \in 0 .. m |-> st]
    <3>1. h = [n \in 0 .. m |-> Step(h, n)]
      <4>1. \A n \in 0 .. m : n = 0
        BY <2>4
      <4> QED
        BY <4>1
    <3> QED
      BY <2>3, <3>1
  <2>5. CASE m # 0
    <3>1. m - 1 \in 0 .. Len(tasks) /\ m - 1 \notin S
      <4>1. m - 1 \in 0 .. Len(tasks) /\ ~ (m =< m - 1)
        BY <2>3, <2>5
      <4> QED
        BY <2>2, <4>1
    <3>2. PICK g : g = [n \in 0 .. m - 1 |-> Step(g, n)]
      BY <3>1
    <3> DEFINE h == [n \in 0 .. m |-> IF n = m THEN Step(g, m) ELSE g[n]]
    <3>3. \A n \in 0 .. m : h[n] = Step(h, n)
      <4> SUFFICES ASSUME NEW n \in 0 .. m
                   PROVE  h[n] = Step(h, n)
        OBVIOUS
      <4>1. n # 0 => n - 1 \in 0 .. m /\ n - 1 # m
        BY <2>3
      <4>2. n # 0 => h[n - 1] = g[n - 1]
        BY <4>1
      <4>3. n # m => n \in 0 .. m - 1
        BY <2>3
      <4>4. n # m => g[n] = Step(g, n)
        BY <3>2, <4>3
      <4>5. h[n] = Step(g, n)
        BY <4>4
      <4> HIDE DEF h
      <4> QED
        BY <4>2, <4>5
    <3>4. h = [n \in 0 .. m |-> h[n]]
      OBVIOUS
    <3> HIDE DEF h
    <3>5. [n \in 0 .. m |-> h[n]] = [n \in 0 .. m |-> Step(h, n)]
      BY <3>3
    <3> QED
      BY <2>3, <3>4, <3>5
  <2> QED
    BY <2>4, <2>5
<1>3. Solved(Len(tasks))
  BY <1>2
<1> HIDE DEF f
<1>4. f = [n \in 0 .. Len(tasks) |-> Step(f, n)]
  BY <1>1, <1>3
<1>5. f[0] = st
  BY <1>4
<1>6. \A n \in 1 .. Len(tasks) : f[n] = IF tasks[n].init
                    THEN InitWindow(f[n - 1], tasks[n].plugin, tasks[n].window)
                    ELSE FiniWindow(f[n - 1], tasks[n].plugin, tasks[n].window)
  <2> SUFFICES ASSUME NEW n \in 1 .. Len(tasks)
               PROVE  f[n] = IF tasks[n].init
                    THEN InitWindow(f[n - 1], tasks[n].plugin, tasks[n].window)
                    ELSE FiniWindow(f[n - 1], tasks[n].plugin, tasks[n].window)
    OBVIOUS
  <2>1. n \in 0 .. Len(tasks) /\ n # 0
    OBVIOUS
  <2>2. f[n] = Step(f, n)
    BY <1>4, <2>1
  <2> QED
    BY <2>1, <2>2
<1> QED
  BY <1>5, <1>6 DEF f

LEMMA CarriedStepped ==
  ASSUME NEW st, Typed(st), NEW tasks, Len(tasks) \in Nat,
         \A n \in 1 .. Len(tasks) :
            tasks[n].plugin \in PluginNames /\ tasks[n].window \in DOMAIN st.slots
  PROVE  \A n \in 0 .. Len(tasks) : Stepped(CarriedBy(st, tasks)[n], st)
<1> DEFINE f == CarriedBy(st, tasks)
           J == {n \in 0 .. Len(tasks) : Stepped(f[n], st)}
<1>1. /\ f[0] = st
      /\ \A n \in 1 .. Len(tasks) :
            f[n] = IF tasks[n].init
                    THEN InitWindow(f[n - 1], tasks[n].plugin, tasks[n].window)
                    ELSE FiniWindow(f[n - 1], tasks[n].plugin, tasks[n].window)
  BY CarriedSteps
<1> HIDE DEF f
<1>2. 0 \in J
  BY <1>1 DEF Stepped
<1>3. ASSUME NEW n \in 1 .. Len(tasks), n - 1 \in J
      PROVE  n \in J
  <2> DEFINE s == f[n - 1]
             p == tasks[n].plugin
             w == tasks[n].window
  <2>1. Stepped(s, st)
    BY <1>3
  <2>2. f[n] = InitWindow(s, p, w) \/ f[n] = FiniWindow(s, p, w)
    BY <1>1
  <2>3. p \in PluginNames /\ w \in DOMAIN st.slots
    OBVIOUS
  <2> HIDE DEF s, p, w
  <2>4. Typed(s) /\ w \in DOMAIN s.slots
    BY <2>1, <2>3 DEF Stepped
  <2>5. Stepped(f[n], s)
    BY <2>2, <2>3, <2>4, WindowsStepped
  <2>6. Stepped(f[n], st)
    BY <2>1, <2>5, SteppedTwice
  <2> QED
    BY <2>6
<1>4. \A n \in 0 .. Len(tasks) : n \in J
  <2> HIDE DEF J
  <2> QED
    BY <1>2, <1>3, CountingUp
<1> QED
  BY <1>4 DEF f

(* The windows of a pass, in its order, each of them once.                 *)
Listing(s, S) ==
  /\ s \in Seq(S) /\ Len(s) \in Nat /\ DOMAIN s = 1 .. Len(s)
  /\ \A i \in 1 .. Len(s) : s[i] \in S
  /\ \A i, j \in 1 .. Len(s) : s[i] = s[j] => i = j
  /\ \A x \in S : \E i \in 1 .. Len(s) : s[i] = x

LEMMA WindowsListed ==
  ASSUME NEW S, IsFiniteSet(S)
  PROVE  Listing(SetToSeq(S), S)
<1> DEFINE n == Cardinality(S)
           s == SetToSeq(S)
<1>1. n \in Nat /\ ExistsBijection(1 .. n, S)
  BY FS_CardinalityType
<1>2. \E f \in [1 .. n -> S] : IsInjective(f)
  BY <1>1 DEF ExistsBijection, Bijection, Injection
<1>3. s \in [1 .. n -> S] /\ IsInjective(s)
  BY <1>2 DEF SetToSeq
<1> HIDE DEF s
<1>4. s \in Injection(1 .. n, S)
  BY <1>3 DEF Injection
<1>5. Cardinality(1 .. n) = n /\ n = Cardinality(S)
  BY <1>1, FS_Interval
<1> HIDE DEF n
<1>6. s \in Surjection(1 .. n, S)
  BY <1>4, <1>5, FS_Injection
<1>7. \A x \in S : \E i \in 1 .. n : s[i] = x
  BY <1>6 DEF Surjection
<1>8. s \in Seq(S) /\ Len(s) = n
  BY <1>1, <1>3
<1> QED
  BY <1>1, <1>3, <1>7, <1>8 DEF IsInjective, Listing, s

(* The tasks of a pass over windows, and of a window's plugins.            *)
LEMMA WindowTasksAre ==
  ASSUME NEW init, NEW p, NEW S, IsFiniteSet(S)
  PROVE  /\ Len(ForWindows(init, p, S)) = Len(SetToSeq(S))
         /\ \A i \in 1 .. Len(SetToSeq(S)) :
               ForWindows(init, p, S)[i] = Task(init, p, SetToSeq(S)[i])
<1> DEFINE s == SetToSeq(S)
<1>1. DOMAIN s = 1 .. Len(s) /\ Len(s) \in Nat
  BY WindowsListed DEF Listing
<1>2. ForWindows(init, p, S) = [i \in DOMAIN s |-> Task(init, p, s[i])]
  BY DEF ForWindows
<1> HIDE DEF s
<1>3. /\ Len(ForWindows(init, p, S)) = Len(s)
      /\ \A i \in 1 .. Len(s) : ForWindows(init, p, S)[i] = Task(init, p, s[i])
  BY <1>1, <1>2
<1> QED
  BY <1>3 DEF s

LEMMA PluginTasksAre ==
  ASSUME NEW init, NEW w, NEW list \in Seq(PluginNames)
  PROVE  /\ Len(ForPlugins(init, list, w)) = Len(list)
         /\ \A i \in 1 .. Len(list) : ForPlugins(init, list, w)[i] = Task(init, list[i], w)
<1>1. ForPlugins(init, list, w) = [i \in 1 .. Len(list) |-> Task(init, list[i], w)]
  BY DEF ForPlugins
<1> QED
  BY <1>1

LEMMA TaskIs ==
  ASSUME NEW init, NEW p, NEW w
  PROVE  Task(init, p, w).init = init /\ Task(init, p, w).plugin = p
         /\ Task(init, p, w).window = w
BY DEF Task

LEMMA PassStepped ==
  ASSUME NEW st, Typed(st)
  PROVE  /\ \A init \in BOOLEAN, p \in PluginNames, S \in SUBSET DOMAIN st.slots :
               \A n \in 0 .. Len(SetToSeq(S)) :
                  Stepped(CarriedBy(st, ForWindows(init, p, S))[n], st)
         /\ \A init \in BOOLEAN, w \in DOMAIN st.slots, list \in Seq(PluginNames) :
               \A n \in 0 .. Len(list) :
                  Stepped(CarriedBy(st, ForPlugins(init, list, w))[n], st)
<1>1. IsFiniteSet(DOMAIN st.slots)
  BY DEF Typed
<1>2. ASSUME NEW init \in BOOLEAN, NEW p \in PluginNames, NEW S \in SUBSET DOMAIN st.slots
      PROVE  \A n \in 0 .. Len(SetToSeq(S)) :
                  Stepped(CarriedBy(st, ForWindows(init, p, S))[n], st)
  <2> DEFINE tasks == ForWindows(init, p, S)
             s == SetToSeq(S)
  <2>1. IsFiniteSet(S)
    BY <1>1, FS_Subset
  <2>2. Listing(s, S)
    BY <2>1, WindowsListed
  <2>4. Len(tasks) = Len(s) /\ \A i \in 1 .. Len(s) : tasks[i] = Task(init, p, s[i])
    BY <2>1, WindowTasksAre
  <2> HIDE DEF tasks, s
  <2>5. Len(tasks) \in Nat
        /\ \A n \in 1 .. Len(tasks) :
              tasks[n].plugin \in PluginNames /\ tasks[n].window \in DOMAIN st.slots
    BY <2>2, <2>4, TaskIs DEF Listing
  <2>6. \A n \in 0 .. Len(tasks) : Stepped(CarriedBy(st, tasks)[n], st)
    BY <2>5, CarriedStepped
  <2> QED
    BY <2>4, <2>6 DEF tasks, s
<1>3. ASSUME NEW init \in BOOLEAN, NEW w \in DOMAIN st.slots, NEW list \in Seq(PluginNames)
      PROVE  \A n \in 0 .. Len(list) :
                  Stepped(CarriedBy(st, ForPlugins(init, list, w))[n], st)
  <2> DEFINE tasks == ForPlugins(init, list, w)
  <2>4. Len(tasks) = Len(list) /\ \A i \in 1 .. Len(list) : tasks[i] = Task(init, list[i], w)
    BY PluginTasksAre
  <2> HIDE DEF tasks
  <2>5. Len(tasks) \in Nat
        /\ \A n \in 1 .. Len(tasks) :
              tasks[n].plugin \in PluginNames /\ tasks[n].window \in DOMAIN st.slots
    BY <2>4, TaskIs
  <2>6. \A n \in 0 .. Len(tasks) : Stepped(CarriedBy(st, tasks)[n], st)
    BY <2>5, CarriedStepped
  <2> QED
    BY <2>4, <2>6 DEF tasks
<1> QED
  BY <1>2, <1>3

LEMMA PassesStepped ==
  ASSUME NEW st, Typed(st)
  PROVE  /\ \A p \in PluginNames, S \in SUBSET DOMAIN st.slots :
               Stepped(InitWindows(st, p, S), st) /\ Stepped(FiniWindows(st, p, S), st)
         /\ \A w \in DOMAIN st.slots, list \in Seq(PluginNames) :
               Stepped(InitPlugins(st, list, w), st) /\ Stepped(FiniPlugins(st, list, w), st)
<1>1. ASSUME NEW p \in PluginNames, NEW S \in SUBSET DOMAIN st.slots, NEW init \in BOOLEAN
      PROVE  Stepped(Carried(st, ForWindows(init, p, S)), st)
  <2>1. IsFiniteSet(S)
    BY FS_Subset DEF Typed
  <2>2. Len(ForWindows(init, p, S)) = Len(SetToSeq(S)) /\ Len(SetToSeq(S)) \in Nat
    BY <2>1, WindowTasksAre, WindowsListed DEF Listing
  <2> QED
    BY <2>2, PassStepped, CarriedIs
<1>2. ASSUME NEW w \in DOMAIN st.slots, NEW list \in Seq(PluginNames), NEW init \in BOOLEAN
      PROVE  Stepped(Carried(st, ForPlugins(init, list, w)), st)
  <2>2. Len(ForPlugins(init, list, w)) = Len(list) /\ Len(list) \in Nat
    BY PluginTasksAre
  <2> QED
    BY <2>2, PassStepped, CarriedIs
<1> QED
  BY <1>1, <1>2 DEF InitWindows, FiniWindows, InitPlugins, FiniPlugins

-----------------------------------------------------------------------------
(* Windows come, leave the stack and go.                                   *)
VectorAdded(t, st, w) ==
  /\ Typed(t) /\ DOMAIN t.slots = DOMAIN st.slots \cup {w}
  /\ t.stacked = st.stacked \cup {w} /\ t.broken = st.broken
  /\ t.indices = st.indices /\ t.class = st.class /\ t.holder = st.holder
  /\ \A x \in DOMAIN st.slots : t.slots[x] = st.slots[x]
  /\ Len(t.slots[w]) = Len(st.indices)
  /\ \A i \in 1 .. Len(st.indices) : t.slots[w][i] = Null
  /\ \A p \in PluginNames : LiveAt(t.slots, p) = LiveAt(st.slots, p)

LEMMA AddWindowIs ==
  ASSUME NEW st, Typed(st), NEW w \in Windows \ DOMAIN st.slots
  PROVE  VectorAdded(AddWindow(st, w), st, w)
<1>0. PICK e : e = << >> /\ e \in Seq(Objects) /\ Len(e) = 0
  <2>1. << >> \in Seq(Objects) /\ Len(<< >>) = 0
    BY EmptySeq
  <2> QED
    BY <2>1
<1> DEFINE vector == Resized(e, Len(st.indices))
           sl == WithValue(st.slots, w, vector)
           a == [st EXCEPT !.slots = sl]
           k == st.stacked \cup {w}
           t == [a EXCEPT !.stacked = k]
<1>1. st \in Storages
  BY DEF Typed
<1>2. /\ st.slots \in Vectors /\ st.slots = [x \in DOMAIN st.slots |-> st.slots[x]]
      /\ DOMAIN st.slots \subseteq Windows
      /\ \A x \in DOMAIN st.slots : st.slots[x] \in Seq(Objects)
      /\ Len(st.indices) \in Nat /\ st.stacked \in SUBSET Windows
  BY <1>1, StorageParts, VectorsAre
<1>3. vector \in Seq(Objects) /\ Len(vector) = Len(st.indices)
      /\ \A i \in 1 .. Len(st.indices) : vector[i] = Null
  <2>1. e \in Seq(Objects) /\ Len(e) = 0 /\ Len(st.indices) \in Nat
    BY <1>0, <1>2
  <2>2. /\ vector \in Seq(Objects) /\ Len(vector) = Len(st.indices)
        /\ \A i \in 1 .. Len(st.indices) : vector[i] = IF i <= Len(e) THEN e[i] ELSE Null
    BY <2>1, ResizedIs
  <2> HIDE DEF vector
  <2> QED
    BY <2>1, <2>2
<1> HIDE DEF vector
<1>4. sl = [x \in DOMAIN st.slots \cup {w} |-> IF x = w THEN vector ELSE st.slots[x]]
  BY DEF WithValue
<1> HIDE DEF sl
<1>6. AddWindow(st, w) = t
  BY <1>0 DEF AddWindow, vector, sl
<1> HIDE DEF t, a, k
<1>5. /\ sl \in Vectors /\ DOMAIN sl = DOMAIN st.slots \cup {w} /\ sl[w] = vector
      /\ \A x \in DOMAIN st.slots : sl[x] = st.slots[x]
  <2>1. DOMAIN sl = DOMAIN st.slots \cup {w} /\ sl[w] = vector
        /\ \A x \in DOMAIN st.slots : sl[x] = st.slots[x]
    BY <1>4
  <2>2. sl = [x \in DOMAIN sl |-> sl[x]]
    BY <1>4
  <2>3. DOMAIN sl \subseteq Windows /\ \A x \in DOMAIN sl : sl[x] \in Seq(Objects)
    BY <1>2, <1>3, <2>1
  <2>4. sl \in Vectors
    BY <2>2, <2>3, VectorsAre
  <2> QED
    BY <2>1, <2>4
<1> USE DEF a, t
<1>7. k \in SUBSET Windows
  BY <1>2 DEF k
<1>8. /\ a \in Storages /\ a.slots = sl /\ a.indices = st.indices /\ a.stacked = st.stacked
      /\ a.class = st.class /\ a.holder = st.holder /\ a.broken = st.broken
  BY <1>1, <1>5, FieldsSet
<1> HIDE DEF a
<1>9. /\ t \in Storages /\ t.slots = sl /\ t.indices = st.indices /\ t.stacked = k
      /\ t.class = st.class /\ t.holder = st.holder /\ t.broken = st.broken
  BY <1>7, <1>8, FieldsSet
<1> HIDE DEF t
<1>10. ASSUME NEW p \in PluginNames
       PROVE  LiveAt(sl, p) = LiveAt(st.slots, p)
  <2>1. Live(p) # Null
    BY ObjectsAre
  <2>2. \A x \in DOMAIN sl : \A j : j \in 1 .. Len(sl[x]) /\ sl[x][j] = Live(p) =>
           x \in DOMAIN st.slots /\ j \in 1 .. Len(st.slots[x]) /\ st.slots[x][j] = Live(p)
    BY <1>3, <1>5, <2>1
  <2>3. \A x \in DOMAIN st.slots : \A j : j \in 1 .. Len(st.slots[x]) /\ st.slots[x][j] = Live(p) =>
           x \in DOMAIN sl /\ j \in 1 .. Len(sl[x]) /\ sl[x][j] = Live(p)
    BY <1>5
  <2>4. LiveAt(sl, p) \subseteq LiveAt(st.slots, p)
    BY <2>2, InLive
  <2>5. LiveAt(st.slots, p) \subseteq LiveAt(sl, p)
    BY <2>3, InLive
  <2> QED
    BY <2>4, <2>5
<1>11. IsFiniteSet(DOMAIN sl) /\ k \subseteq DOMAIN sl
  BY <1>5, FS_AddElement DEF Typed, k
<1>12. Typed(t)
  BY <1>9, <1>10, <1>11 DEF Typed
<1> QED
  BY <1>3, <1>5, <1>6, <1>9, <1>10, <1>12 DEF VectorAdded, k

Unstacked(t, st, w) ==
  /\ Typed(t) /\ t.slots = st.slots /\ t.stacked = st.stacked \ {w} /\ t.broken = st.broken
  /\ t.indices = st.indices /\ t.class = st.class /\ t.holder = st.holder

LEMMA UnstackIs ==
  ASSUME NEW st, Typed(st), NEW w
  PROVE  Unstacked(Unstack(st, w), st, w)
<1> DEFINE k == st.stacked \ {w}
           t == [st EXCEPT !.stacked = k]
<1>1. st \in Storages /\ st.stacked \in SUBSET Windows
  BY StorageParts DEF Typed
<1>2. k \in SUBSET Windows
  BY <1>1
<1>3. t = Unstack(st, w)
  BY DEF Unstack
<1> HIDE DEF k
<1>4. /\ t \in Storages /\ t.slots = st.slots /\ t.indices = st.indices /\ t.stacked = k
      /\ t.class = st.class /\ t.holder = st.holder /\ t.broken = st.broken
  BY <1>1, <1>2, FieldsSet
<1> HIDE DEF t
<1>5. Typed(t)
  BY <1>4 DEF Typed, k
<1> QED
  BY <1>3, <1>4, <1>5 DEF Unstacked, k

VectorDropped(t, st, w) ==
  /\ Typed(t) /\ DOMAIN t.slots = DOMAIN st.slots \ {w}
  /\ t.stacked = st.stacked /\ t.broken = st.broken
  /\ t.indices = st.indices /\ t.class = st.class /\ t.holder = st.holder
  /\ \A x \in DOMAIN st.slots \ {w} : t.slots[x] = st.slots[x]

LEMMA DropWindowIs ==
  ASSUME NEW st, Typed(st), NEW w, w \notin st.stacked
  PROVE  VectorDropped(DropWindow(st, w), st, w)
<1> DEFINE sl == Restrict(st.slots, DOMAIN st.slots \ {w})
           t == [st EXCEPT !.slots = sl]
<1>1. st \in Storages
  BY DEF Typed
<1>2. /\ st.slots \in Vectors /\ DOMAIN st.slots \subseteq Windows
      /\ \A x \in DOMAIN st.slots : st.slots[x] \in Seq(Objects)
  BY <1>1, StorageParts, VectorsAre
<1>3. sl = [x \in DOMAIN st.slots \ {w} |-> st.slots[x]]
  BY DEF Restrict
<1>4. t = DropWindow(st, w)
  BY DEF DropWindow
<1> HIDE DEF sl
<1>5. /\ sl \in Vectors /\ DOMAIN sl = DOMAIN st.slots \ {w}
      /\ \A x \in DOMAIN st.slots \ {w} : sl[x] = st.slots[x]
  BY <1>2, <1>3, VectorsAre
<1>6. /\ t \in Storages /\ t.slots = sl /\ t.indices = st.indices /\ t.stacked = st.stacked
      /\ t.class = st.class /\ t.holder = st.holder /\ t.broken = st.broken
  BY <1>1, <1>5, FieldsSet
<1> HIDE DEF t
<1>7. ASSUME NEW p \in PluginNames
      PROVE  LiveAt(t.slots, p) \subseteq LiveAt(st.slots, p)
  <2>1. \A x \in DOMAIN sl : \A j : j \in 1 .. Len(sl[x]) /\ sl[x][j] = Live(p) =>
           x \in DOMAIN st.slots /\ j \in 1 .. Len(st.slots[x]) /\ st.slots[x][j] = Live(p)
    BY <1>5
  <2> QED
    BY <1>6, <2>1, InLive
<1>8. DOMAIN t.slots \subseteq DOMAIN st.slots /\ t.stacked \subseteq DOMAIN t.slots
  BY <1>5, <1>6 DEF Typed
<1>9. Typed(t)
  BY <1>6, <1>7, <1>8, TypedFewer DEF Typed
<1> QED
  BY <1>4, <1>5, <1>6, <1>9 DEF VectorDropped

LEMMA FirstStorage ==
  /\ Typed(StorageOf(PluginNames)) /\ DOMAIN StorageOf(PluginNames).slots = {}
  /\ StorageOf(PluginNames).stacked = {} /\ StorageOf(PluginNames).broken = FALSE
  /\ StorageOf(PluginNames).indices = << >> /\ DOMAIN StorageOf(PluginNames).holder = {}
  /\ \A p \in PluginNames : StorageOf(PluginNames).class[p] = Unready
<1> DEFINE t == StorageOf(PluginNames)
<1>1. /\ t.indices = << >> /\ t.slots = << >> /\ t.stacked = {} /\ t.holder = << >>
      /\ t.broken = FALSE /\ t.class = [p \in PluginNames |-> Unready]
      /\ t = [indices |-> t.indices, slots |-> t.slots, stacked |-> t.stacked,
              class |-> t.class, holder |-> t.holder, broken |-> t.broken]
  BY DEF StorageOf
<1> HIDE DEF t
<1>2. Unready \in Classes /\ Unready.ready = FALSE /\ Unready.refs = 0
  BY DEF Unready, Classes
<1>3. DOMAIN << >> = {} /\ << >> = [x \in {} |-> << >>[x]]
  OBVIOUS
<1>4. << >> \in Vectors /\ << >> \in Holders
  BY <1>3, VectorsAre, HoldersAre
<1>5. t \in Storages
  <2>1. t.class \in [PluginNames -> Classes]
    BY <1>1, <1>2
  <2>2. t.indices \in Seq(BOOLEAN) /\ t.stacked \in SUBSET Windows /\ t.broken \in BOOLEAN
        /\ t.slots \in Vectors /\ t.holder \in Holders
    BY <1>1, <1>4, EmptySeq
  <2> QED
    BY <1>1, <2>1, <2>2 DEF Storages
<1>6. \A p \in PluginNames : LiveAt(t.slots, p) = {} /\ t.class[p] = Unready
  BY <1>1, <1>3 DEF LiveAt
<1>7. Typed(t)
  <2>1. IsFiniteSet(DOMAIN t.slots) /\ t.stacked \subseteq DOMAIN t.slots
    BY <1>1, <1>3, FS_EmptySet
  <2>2. \A p \in PluginNames :
           /\ ~ t.class[p].ready /\ IsFiniteSet(LiveAt(t.slots, p))
           /\ Cardinality(LiveAt(t.slots, p)) <= t.class[p].refs
    BY <1>2, <1>6, FS_EmptySet
  <2> QED
    BY <1>5, <2>1, <2>2 DEF Typed
<1> QED
  BY <1>1, <1>3, <1>6, <1>7 DEF t

-----------------------------------------------------------------------------
(* The function Skipping is defined with.                                  *)
SkippingBy(list, names) ==
  LET left[n \in 0 .. Len(list)] ==
          IF n = 0 THEN << >>
          ELSE IF list[n] \in names THEN left[n - 1]
          ELSE Append(left[n - 1], list[n])
  IN  left

LEMMA SkippingIs ==
  ASSUME NEW list, NEW names
  PROVE  Skipping(list, names) = SkippingBy(list, names)[Len(list)]
BY DEF Skipping, SkippingBy

(* Its definition has a solution.                                         *)
LEMMA SkippingSteps ==
  ASSUME NEW list, NEW names, Len(list) \in Nat
  PROVE  /\ SkippingBy(list, names)[0] = << >>
         /\ \A n \in 1 .. Len(list) :
               SkippingBy(list, names)[n] = IF list[n] \in names THEN SkippingBy(list, names)[n - 1] ELSE Append(SkippingBy(list, names)[n - 1], list[n])
<1> DEFINE Step(g, n) == IF n = 0 THEN << >> ELSE IF list[n] \in names THEN g[n - 1] ELSE Append(g[n - 1], list[n])
           Solved(m) == \E g : g = [n \in 0 .. m |-> Step(g, n)]
           S == {m \in 0 .. Len(list) : ~ Solved(m)}
           f == SkippingBy(list, names)
<1>1. f = CHOOSE g : g = [n \in 0 .. Len(list) |-> Step(g, n)]
  BY DEF SkippingBy
<1>2. S = {}
  <2> SUFFICES ASSUME S # {}
               PROVE  FALSE
    OBVIOUS
  <2>1. S \in SUBSET Nat
    OBVIOUS
  <2>2. PICK m : m \in S /\ \A y \in S : m =< y
    BY <2>1, MinIsFirst
  <2>3. m \in Nat /\ m \in 0 .. Len(list) /\ ~ Solved(m)
    BY <2>2
  <2>4. CASE m = 0
    <3> DEFINE h == [n \in 0 .. m |-> << >>]
    <3>1. h = [n \in 0 .. m |-> Step(h, n)]
      <4>1. \A n \in 0 .. m : n = 0
        BY <2>4
      <4> QED
        BY <4>1
    <3> QED
      BY <2>3, <3>1
  <2>5. CASE m # 0
    <3>1. m - 1 \in 0 .. Len(list) /\ m - 1 \notin S
      <4>1. m - 1 \in 0 .. Len(list) /\ ~ (m =< m - 1)
        BY <2>3, <2>5
      <4> QED
        BY <2>2, <4>1
    <3>2. PICK g : g = [n \in 0 .. m - 1 |-> Step(g, n)]
      BY <3>1
    <3> DEFINE h == [n \in 0 .. m |-> IF n = m THEN Step(g, m) ELSE g[n]]
    <3>3. \A n \in 0 .. m : h[n] = Step(h, n)
      <4> SUFFICES ASSUME NEW n \in 0 .. m
                   PROVE  h[n] = Step(h, n)
        OBVIOUS
      <4>1. n # 0 => n - 1 \in 0 .. m /\ n - 1 # m
        BY <2>3
      <4>2. n # 0 => h[n - 1] = g[n - 1]
        BY <4>1
      <4>3. n # m => n \in 0 .. m - 1
        BY <2>3
      <4>4. n # m => g[n] = Step(g, n)
        BY <3>2, <4>3
      <4>5. h[n] = Step(g, n)
        BY <4>4
      <4> HIDE DEF h
      <4> QED
        BY <4>2, <4>5
    <3>4. h = [n \in 0 .. m |-> h[n]]
      OBVIOUS
    <3> HIDE DEF h
    <3>5. [n \in 0 .. m |-> h[n]] = [n \in 0 .. m |-> Step(h, n)]
      BY <3>3
    <3> QED
      BY <2>3, <3>4, <3>5
  <2> QED
    BY <2>4, <2>5
<1>3. Solved(Len(list))
  BY <1>2
<1> HIDE DEF f
<1>4. f = [n \in 0 .. Len(list) |-> Step(f, n)]
  BY <1>1, <1>3
<1>5. f[0] = << >>
  BY <1>4
<1>6. \A n \in 1 .. Len(list) : f[n] = IF list[n] \in names THEN f[n - 1] ELSE Append(f[n - 1], list[n])
  <2> SUFFICES ASSUME NEW n \in 1 .. Len(list)
               PROVE  f[n] = IF list[n] \in names THEN f[n - 1] ELSE Append(f[n - 1], list[n])
    OBVIOUS
  <2>1. n \in 0 .. Len(list) /\ n # 0
    OBVIOUS
  <2>2. f[n] = Step(f, n)
    BY <1>4, <2>1
  <2> QED
    BY <2>1, <2>2
<1> QED
  BY <1>5, <1>6 DEF f


LEMMA MembersOf ==
  ASSUME NEW S, NEW s \in Seq(S)
  PROVE  /\ \A x : x \in ToSet(s) <=> \E i \in 1 .. Len(s) : s[i] = x
         /\ ToSet(s) \subseteq S
BY DEF ToSet

LEMMA MembersOfAppend ==
  ASSUME NEW S, NEW s \in Seq(S), NEW e \in S
  PROVE  /\ Append(s, e) \in Seq(S) /\ Len(Append(s, e)) = Len(s) + 1
         /\ Append(s, e)[Len(s) + 1] = e /\ \A i \in 1 .. Len(s) : Append(s, e)[i] = s[i]
         /\ ToSet(Append(s, e)) = ToSet(s) \cup {e}
<1> DEFINE t == Append(s, e)
<1>1. /\ t \in Seq(S) /\ Len(t) = Len(s) + 1 /\ t[Len(s) + 1] = e
      /\ Len(s) \in Nat /\ \A i \in 1 .. Len(s) : t[i] = s[i]
  OBVIOUS
<1> HIDE DEF t
<1>2. \A x : x \in ToSet(t) <=> \E i \in 1 .. Len(t) : t[i] = x
  BY <1>1, MembersOf
<1>3. \A x : x \in ToSet(s) <=> \E i \in 1 .. Len(s) : s[i] = x
  BY MembersOf
<1>4. \A x : x \in ToSet(t) <=> x \in ToSet(s) \/ x = e
  <2>1. \A i \in 1 .. Len(t) : i \in 1 .. Len(s) \/ i = Len(s) + 1
    BY <1>1
  <2>2. Len(s) + 1 \in 1 .. Len(t) /\ \A i \in 1 .. Len(s) : i \in 1 .. Len(t)
    BY <1>1
  <2> QED
    BY <1>1, <1>2, <1>3, <2>1, <2>2
<1> QED
  BY <1>1, <1>4 DEF t

(* What is left of a list is of its members, in their order.               *)
LEMMA SkippingTyped ==
  ASSUME NEW S, NEW list \in Seq(S), NEW names
  PROVE  \A n \in 0 .. Len(list) :
            /\ SkippingBy(list, names)[n] \in Seq(S)
            /\ \A x : x \in ToSet(SkippingBy(list, names)[n]) <=>
                      x \notin names /\ \E i \in 1 .. n : list[i] = x
<1> DEFINE f == SkippingBy(list, names)
           Is(n) == /\ f[n] \in Seq(S)
                    /\ \A x : x \in ToSet(f[n]) <=> x \notin names /\ \E i \in 1 .. n : list[i] = x
           J == {n \in 0 .. Len(list) : Is(n)}
<1>0. Len(list) \in Nat
  OBVIOUS
<1>1. /\ f[0] = << >>
      /\ \A n \in 1 .. Len(list) :
            f[n] = IF list[n] \in names THEN f[n - 1] ELSE Append(f[n - 1], list[n])
  BY <1>0, SkippingSteps
<1> HIDE DEF f
<1>2. 0 \in J
  <2>1. f[0] \in Seq(S) /\ Len(f[0]) = 0
    BY <1>1, EmptySeq
  <2>2. ToSet(f[0]) = {}
    BY <2>1 DEF ToSet
  <2> QED
    BY <1>0, <2>1, <2>2
<1>3. ASSUME NEW n \in 1 .. Len(list), n - 1 \in J
      PROVE  n \in J
  <2> DEFINE e == list[n]
             s == f[n - 1]
  <2>1. e \in S /\ s \in Seq(S)
        /\ \A x : x \in ToSet(s) <=> x \notin names /\ \E i \in 1 .. n - 1 : list[i] = x
    BY <1>3
  <2>2. f[n] = IF e \in names THEN s ELSE Append(s, e)
    BY <1>1
  <2>3. \A x : (\E i \in 1 .. n : list[i] = x) <=> x = e \/ \E i \in 1 .. n - 1 : list[i] = x
    OBVIOUS
  <2>4. Append(s, e) \in Seq(S) /\ ToSet(Append(s, e)) = ToSet(s) \cup {e}
    BY <2>1, MembersOfAppend
  <2>5. CASE e \in names
    <3>1. f[n] = s
      BY <2>2, <2>5
    <3> HIDE DEF e, s
    <3>2. Is(n)
      BY <2>1, <2>3, <2>5, <3>1
    <3> QED
      BY <3>2
  <2>6. CASE e \notin names
    <3>1. f[n] = Append(s, e)
      BY <2>2, <2>6
    <3> HIDE DEF e, s
    <3>2. f[n] \in Seq(S) /\ \A x : x \in ToSet(f[n]) <=> x \in ToSet(s) \/ x = e
      BY <2>4, <3>1
    <3>3. Is(n)
      BY <2>1, <2>3, <2>6, <3>2
    <3> QED
      BY <3>3
  <2> QED
    BY <2>5, <2>6
<1>4. \A n \in 0 .. Len(list) : n \in J
  <2> HIDE DEF J
  <2> QED
    BY <1>0, <1>2, <1>3, CountingUp
<1> QED
  BY <1>4 DEF f

(* Lists that begin alike.                                                 *)
LEMMA SkippingAlike ==
  ASSUME NEW S, NEW s \in Seq(S), NEW t \in Seq(S), NEW names, NEW m \in Nat,
         m <= Len(s), m <= Len(t), \A i \in 1 .. m : s[i] = t[i]
  PROVE  \A n \in 0 .. m : SkippingBy(s, names)[n] = SkippingBy(t, names)[n]
<1> DEFINE f == SkippingBy(s, names)
           g == SkippingBy(t, names)
           J == {n \in 0 .. m : f[n] = g[n]}
<1>0. Len(s) \in Nat /\ Len(t) \in Nat
  OBVIOUS
<1>1. /\ f[0] = << >>
      /\ \A n \in 1 .. Len(s) :
            f[n] = IF s[n] \in names THEN f[n - 1] ELSE Append(f[n - 1], s[n])
  BY <1>0, SkippingSteps
<1>2. /\ g[0] = << >>
      /\ \A n \in 1 .. Len(t) :
            g[n] = IF t[n] \in names THEN g[n - 1] ELSE Append(g[n - 1], t[n])
  BY <1>0, SkippingSteps
<1> HIDE DEF f, g
<1>3. 0 \in J
  BY <1>1, <1>2
<1>4. ASSUME NEW n \in 1 .. m, n - 1 \in J
      PROVE  n \in J
  <2>1. n \in 1 .. Len(s) /\ n \in 1 .. Len(t) /\ s[n] = t[n] /\ f[n - 1] = g[n - 1]
        /\ n \in 0 .. m
    BY <1>0, <1>4
  <2>2. f[n] = g[n]
    BY <1>1, <1>2, <2>1
  <2> QED
    BY <2>1, <2>2
<1>5. \A n \in 0 .. m : n \in J
  <2> HIDE DEF J
  <2> QED
    BY <1>3, <1>4, CountingUp
<1> QED
  BY <1>5 DEF f, g

LEMMA SkippingAppend ==
  ASSUME NEW S, NEW s \in Seq(S), NEW e \in S, NEW names
  PROVE  Skipping(Append(s, e), names) =
            IF e \in names THEN Skipping(s, names) ELSE Append(Skipping(s, names), e)
<1> DEFINE t == Append(s, e)
<1>1. /\ t \in Seq(S) /\ Len(t) = Len(s) + 1 /\ t[Len(t)] = e /\ Len(s) \in Nat
      /\ Len(t) \in Nat /\ \A i \in 1 .. Len(s) : t[i] = s[i]
  OBVIOUS
<1> HIDE DEF t
<1>2. SkippingBy(s, names)[Len(s)] = SkippingBy(t, names)[Len(s)]
  BY <1>1, SkippingAlike
<1>3. SkippingBy(t, names)[Len(t)] = IF t[Len(t)] \in names THEN SkippingBy(t, names)[Len(t) - 1]
                                    ELSE Append(SkippingBy(t, names)[Len(t) - 1], t[Len(t)])
  BY <1>1, SkippingSteps
<1>4. Len(t) - 1 = Len(s)
  BY <1>1
<1>5. Skipping(t, names) = IF e \in names THEN Skipping(s, names)
                           ELSE Append(Skipping(s, names), e)
  BY <1>1, <1>2, <1>3, <1>4, SkippingIs
<1> QED
  BY <1>5 DEF t

LEMMA SkippingEmpty ==
  ASSUME NEW names
  PROVE  Skipping(<< >>, names) = << >>
<1>1. Len(<< >>) = 0
  BY EmptySeq
<1>2. SkippingBy(<< >>, names)[0] = << >>
  BY <1>1, SkippingSteps
<1> QED
  BY <1>1, <1>2, SkippingIs

(* A set of lists that has the empty one and, with every list, each that   *)
(* is longer by one, has them all.                                         *)
LEMMA ListsGrow ==
  ASSUME NEW S, NEW J, << >> \in J, \A s \in Seq(S), e \in S : s \in J => Append(s, e) \in J
  PROVE  \A s \in Seq(S) : s \in J
<1> SUFFICES ASSUME NEW s \in Seq(S)
             PROVE  s \in J
  OBVIOUS
<1> DEFINE K == {n \in 0 .. Len(s) : SubSeq(s, 1, n) \in J}
<1>1. 0 \in K
  <2>1. SubSeq(s, 1, 0) = << >> /\ Len(s) \in Nat
    BY SubSeqEmpty
  <2>2. SubSeq(s, 1, 0) \in J
    BY <2>1, Zenon
  <2>3. 0 \in 0 .. Len(s)
    BY <2>1
  <2> QED
    BY <2>2, <2>3, Zenon
<1>2. ASSUME NEW n \in 1 .. Len(s), n - 1 \in K
      PROVE  n \in K
  <2>1. SubSeq(s, 1, n - 1) \in J /\ SubSeq(s, 1, n - 1) \in Seq(S) /\ s[n] \in S
    BY <1>2
  <2>2. SubSeq(s, 1, n) = SubSeq(s, 1, n - 1) \o << s[n] >>
    BY SubSeqRecursiveSecond
  <2>3. SubSeq(s, 1, n) = Append(SubSeq(s, 1, n - 1), s[n])
    BY <2>1, <2>2, AppendIsConcat
  <2>4. SubSeq(s, 1, n) \in J
    BY <2>1, <2>3, Zenon
  <2>5. n \in 0 .. Len(s)
    OBVIOUS
  <2> QED
    BY <2>4, <2>5, Zenon
<1>3. Len(s) \in Nat
  OBVIOUS
<1>4. \A n \in 0 .. Len(s) : n \in K
  <2> HIDE DEF K
  <2> QED
    BY <1>1, <1>2, <1>3, CountingUp
<1>5. SubSeq(s, 1, Len(s)) \in J
  BY <1>3, <1>4
<1> QED
  BY <1>5, SubSeqFull

LEMMA SkippingIsList ==
  ASSUME NEW S, NEW s \in Seq(S), NEW names
  PROVE  Skipping(s, names) \in Seq(S) /\ ToSet(Skipping(s, names)) = ToSet(s) \ names
<1>1. Len(s) \in 0 .. Len(s)
  OBVIOUS
<1>2. /\ Skipping(s, names) \in Seq(S)
      /\ \A x : x \in ToSet(Skipping(s, names)) <=>
                x \notin names /\ \E i \in 1 .. Len(s) : s[i] = x
  <2> DEFINE kept == SkippingBy(s, names)
  <2>1. \A n \in 0 .. Len(s) :
           /\ kept[n] \in Seq(S)
           /\ \A x : x \in ToSet(kept[n]) <=> x \notin names /\ \E i \in 1 .. n : s[i] = x
    BY SkippingTyped
  <2>2. Skipping(s, names) = kept[Len(s)]
    BY SkippingIs
  <2> HIDE DEF kept
  <2> QED
    BY <1>1, <2>1, <2>2
<1>3. \A x : x \in ToSet(s) <=> \E i \in 1 .. Len(s) : s[i] = x
  BY MembersOf
<1> QED
  BY <1>2, <1>3

LEMMA SkippingTwice ==
  ASSUME NEW S, NEW s \in Seq(S), NEW B, NEW C
  PROVE  Skipping(Skipping(s, B), C) = Skipping(s, B \cup C)
<1> DEFINE J == {z \in Seq(S) : Skipping(Skipping(z, B), C) = Skipping(z, B \cup C)}
<1>1. << >> \in J
  BY SkippingEmpty, EmptySeq
<1>2. ASSUME NEW z \in Seq(S), NEW e \in S, z \in J
      PROVE  Append(z, e) \in J
  <2>1. Append(z, e) \in Seq(S) /\ Skipping(z, B) \in Seq(S)
        /\ Skipping(Skipping(z, B), C) = Skipping(z, B \cup C)
    BY <1>2, SkippingIsList, AppendProperties
  <2>2. Skipping(Append(z, e), B) =
           IF e \in B THEN Skipping(z, B) ELSE Append(Skipping(z, B), e)
    BY SkippingAppend
  <2>3. Skipping(Append(Skipping(z, B), e), C) =
           IF e \in C THEN Skipping(Skipping(z, B), C) ELSE Append(Skipping(Skipping(z, B), C), e)
    <3> DEFINE kept == Skipping(z, B)
    <3>1. kept \in Seq(S)
      BY <2>1
    <3> HIDE DEF kept
    <3>2. Skipping(Append(kept, e), C) =
             IF e \in C THEN Skipping(kept, C) ELSE Append(Skipping(kept, C), e)
      BY <3>1, SkippingAppend
    <3> QED
      BY <3>2 DEF kept
  <2>4. Skipping(Append(z, e), B \cup C) =
           IF e \in B \cup C THEN Skipping(z, B \cup C) ELSE Append(Skipping(z, B \cup C), e)
    BY SkippingAppend
  <2> QED
    BY <2>1, <2>2, <2>3, <2>4
<1> HIDE DEF J
<1>3. s \in J
  BY <1>1, <1>2, ListsGrow
<1> QED
  BY <1>3 DEF J

LEMMA SkippingNone ==
  ASSUME NEW S, NEW s \in Seq(S), NEW B, ToSet(s) \cap B = {}
  PROVE  Skipping(s, B) = s
<1> DEFINE J == {z \in Seq(S) : ToSet(z) \cap B = {} => Skipping(z, B) = z}
<1>1. << >> \in J
  BY SkippingEmpty, EmptySeq
<1>2. ASSUME NEW z \in Seq(S), NEW e \in S, z \in J
      PROVE  Append(z, e) \in J
  <2>1. Append(z, e) \in Seq(S) /\ ToSet(Append(z, e)) = ToSet(z) \cup {e}
    BY MembersOfAppend
  <2>2. Skipping(Append(z, e), B) =
           IF e \in B THEN Skipping(z, B) ELSE Append(Skipping(z, B), e)
    BY SkippingAppend
  <2>3. ToSet(z) \cap B = {} => Skipping(z, B) = z
    BY <1>2
  <2>4. ToSet(Append(z, e)) \cap B = {} => Skipping(Append(z, e), B) = Append(z, e)
    BY <2>1, <2>2, <2>3
  <2> QED
    BY <2>1, <2>4
<1> HIDE DEF J
<1>3. s \in J
  BY <1>1, <1>2, ListsGrow
<1> QED
  BY <1>3 DEF J

LEMMA ConcatGrows ==
  ASSUME NEW S, NEW s \in Seq(S), NEW t \in Seq(S), NEW e \in S
  PROVE  s \o Append(t, e) = Append(s \o t, e) /\ s \o t \in Seq(S)
<1>1. Append(t, e) = t \o <<e>> /\ <<e>> \in Seq(S)
  BY AppendIsConcat
<1>2. s \o t \in Seq(S)
  BY ConcatProperties
<1>3. Append(s \o t, e) = (s \o t) \o <<e>>
  BY <1>2, AppendIsConcat
<1>4. (s \o t) \o <<e>> = s \o (t \o <<e>>)
  BY <1>1, ConcatAssociative
<1> QED
  BY <1>1, <1>2, <1>3, <1>4

LEMMA SkippingConcat ==
  ASSUME NEW S, NEW s \in Seq(S), NEW t \in Seq(S), NEW B
  PROVE  Skipping(s \o t, B) = Skipping(s, B) \o Skipping(t, B)
<1> DEFINE J == {z \in Seq(S) : Skipping(s \o z, B) = Skipping(s, B) \o Skipping(z, B)}
<1>1. << >> \in J
  <2>1. Skipping(s, B) \in Seq(S) /\ << >> \in Seq(S)
    BY SkippingIsList, EmptySeq
  <2>2. s \o << >> = s /\ Skipping(s, B) \o << >> = Skipping(s, B)
    BY <2>1, ConcatEmptySeq
  <2> QED
    BY <2>1, <2>2, SkippingEmpty
<1>2. ASSUME NEW z \in Seq(S), NEW e \in S, z \in J
      PROVE  Append(z, e) \in J
  <2>1. Append(z, e) \in Seq(S) /\ Skipping(z, B) \in Seq(S) /\ Skipping(s, B) \in Seq(S)
        /\ Skipping(s \o z, B) = Skipping(s, B) \o Skipping(z, B)
    BY <1>2, SkippingIsList, AppendProperties
  <2>2. Skipping(Append(z, e), B) =
           IF e \in B THEN Skipping(z, B) ELSE Append(Skipping(z, B), e)
    BY SkippingAppend
  <2>3. s \o Append(z, e) = Append(s \o z, e) /\ s \o z \in Seq(S)
    BY ConcatGrows
  <2>4. Skipping(Append(s \o z, e), B) =
           IF e \in B THEN Skipping(s \o z, B) ELSE Append(Skipping(s \o z, B), e)
    <3> DEFINE sz == s \o z
    <3>1. sz \in Seq(S)
      BY <2>3
    <3> HIDE DEF sz
    <3>2. Skipping(Append(sz, e), B) =
             IF e \in B THEN Skipping(sz, B) ELSE Append(Skipping(sz, B), e)
      BY <3>1, SkippingAppend
    <3> QED
      BY <3>2 DEF sz
  <2>5. Skipping(s, B) \o Append(Skipping(z, B), e) = Append(Skipping(s, B) \o Skipping(z, B), e)
    BY <2>1, ConcatGrows
  <2> QED
    BY <2>1, <2>2, <2>3, <2>4, <2>5
<1> HIDE DEF J
<1>3. t \in J
  BY <1>1, <1>2, ListsGrow
<1> QED
  BY <1>3 DEF J

LEMMA MembersOfConcat ==
  ASSUME NEW S, NEW s \in Seq(S), NEW t \in Seq(S)
  PROVE  s \o t \in Seq(S) /\ ToSet(s \o t) = ToSet(s) \cup ToSet(t)
<1> DEFINE J == {z \in Seq(S) : ToSet(s \o z) = ToSet(s) \cup ToSet(z)}
<1>1. << >> \in J
  <2>1. s \o << >> = s /\ << >> \in Seq(S) /\ Len(<< >>) = 0
    BY ConcatEmptySeq, EmptySeq
  <2>2. ToSet(<< >>) = {}
    BY <2>1 DEF ToSet
  <2> QED
    BY <2>1, <2>2
<1>2. ASSUME NEW z \in Seq(S), NEW e \in S, z \in J
      PROVE  Append(z, e) \in J
  <2>1. Append(z, e) \in Seq(S) /\ ToSet(Append(z, e)) = ToSet(z) \cup {e}
    BY MembersOfAppend
  <2>2. s \o Append(z, e) = Append(s \o z, e) /\ s \o z \in Seq(S)
    BY ConcatGrows
  <2>3. ToSet(Append(s \o z, e)) = ToSet(s \o z) \cup {e}
    <3> DEFINE both == s \o z
    <3>1. both \in Seq(S)
      BY <2>2
    <3> HIDE DEF both
    <3>2. ToSet(Append(both, e)) = ToSet(both) \cup {e}
      BY <3>1, MembersOfAppend
    <3> QED
      BY <3>2 DEF both
  <2> QED
    BY <1>2, <2>1, <2>2, <2>3
<1> HIDE DEF J
<1>3. t \in J
  BY <1>1, <1>2, ListsGrow
<1> QED
  BY <1>3, ConcatProperties DEF J

(* The part of two lists before their first difference.                    *)
CommonStart(k, s, t) ==
  /\ k \in Nat /\ k <= Len(s) /\ k <= Len(t) /\ \A i \in 1 .. k : s[i] = t[i]
  /\ s = t => k = Len(s)

LEMMA CommonStartIs ==
  ASSUME NEW S, NEW s \in Seq(S), NEW t \in Seq(S)
  PROVE  CommonStart(Len(LongestCommonPrefix({s, t})), s, t)
<1> DEFINE C == CommonPrefixes({s, t})
<1>1. ASSUME NEW c \in C
      PROVE  /\ Len(c) \in Nat /\ Len(c) <= Len(s) /\ Len(c) <= Len(t)
             /\ \A i \in 1 .. Len(c) : s[i] = t[i]
  <2>1. PICK x \in {s, t} : \E l \in 0 .. Len(x) : c = SubSeq(x, 1, l)
    BY DEF CommonPrefixes, Prefixes
  <2>2. x \in Seq(S) /\ Len(x) \in Nat
    OBVIOUS
  <2>3. PICK l \in 0 .. Len(x) : c = SubSeq(x, 1, l)
    BY <2>1
  <2>4. c \in Seq(S)
    BY <2>2, <2>3, SubSeqProperties
  <2>5. /\ Len(c) <= Len(s) /\ SubSeq(c, 1, Len(c)) = SubSeq(s, 1, Len(c))
        /\ Len(c) <= Len(t) /\ SubSeq(c, 1, Len(c)) = SubSeq(t, 1, Len(c))
    BY DEF CommonPrefixes, IsPrefix
  <2>6. Len(c) \in Nat
    BY <2>4
  <2>7. ASSUME NEW i \in 1 .. Len(c)
        PROVE  SubSeq(s, 1, Len(c))[i] = s[i] /\ SubSeq(t, 1, Len(c))[i] = t[i]
    BY <2>5, <2>6, SubSeqProperties
  <2> QED
    BY <2>5, <2>6, <2>7
<1>2. << >> \in C
  <2>1. SubSeq(s, 1, 0) = << >> /\ SubSeq(t, 1, 0) = << >> /\ SubSeq(<< >>, 1, 0) = << >>
    BY SubSeqEmpty
  <2>2. Len(<< >>) = 0 /\ 0 \in 0 .. Len(s) /\ 0 <= Len(s) /\ 0 <= Len(t)
    BY EmptySeq
  <2>3. IsPrefix(<< >>, s) /\ IsPrefix(<< >>, t)
    BY <2>1, <2>2 DEF IsPrefix
  <2>4. << >> \in Prefixes(s)
    BY <2>1, <2>2 DEF Prefixes
  <2> QED
    BY <2>3, <2>4 DEF CommonPrefixes
<1>3. s = t => s \in C
  <2>1. SubSeq(s, 1, Len(s)) = s /\ Len(s) \in Nat
    BY SubSeqFull
  <2>2. IsPrefix(s, s) /\ Len(s) \in 0 .. Len(s)
    BY <2>1 DEF IsPrefix
  <2>3. s \in Prefixes(s)
    BY <2>1, <2>2 DEF Prefixes
  <2> QED
    BY <2>2, <2>3 DEF CommonPrefixes
<1> HIDE DEF C
<1>4. \E c \in C : \A d \in C : Len(d) <= Len(c)
  <2> DEFINE N == {n \in 0 .. Len(s) : \E c \in C : n = Len(s) - Len(c)}
  <2>1. Len(s) \in Nat
    OBVIOUS
  <2>2. N \in SUBSET Nat
    OBVIOUS
  <2>3. \A c \in C : Len(s) - Len(c) \in N
    BY <1>1, <2>1
  <2>4. PICK n : n \in N /\ \A m \in N : n =< m
    BY <1>2, <2>2, <2>3, MinIsFirst
  <2>5. PICK c \in C : n = Len(s) - Len(c)
    BY <2>4
  <2>6. ASSUME NEW d \in C
        PROVE  Len(d) <= Len(c)
    <3>1. Len(d) \in Nat /\ Len(c) \in Nat
      BY <1>1
    <3>2. n =< Len(s) - Len(d)
      BY <2>3, <2>4
    <3> QED
      BY <2>1, <2>5, <3>1, <3>2
  <2> QED
    BY <2>6
<1> DEFINE longest == LongestCommonPrefix({s, t})
<1>5. longest \in C /\ \A d \in C : Len(d) <= Len(longest)
  <2>1. longest = CHOOSE c \in C : \A d \in C : Len(d) <= Len(c)
    BY DEF LongestCommonPrefix, C
  <2> HIDE DEF longest
  <2> QED
    BY <1>4, <2>1
<1> HIDE DEF longest
<1>6. s = t => Len(longest) = Len(s)
  BY <1>1, <1>3, <1>5
<1> QED
  BY <1>1, <1>5, <1>6 DEF longest, CommonStart

-----------------------------------------------------------------------------
(* updatePlugins                                                           *)

LEMMA WantedIs ==
  ASSUME option \in Seq(PluginNames)
  PROVE  /\ Wanted \in Seq(PluginNames) /\ ToSet(Wanted) \cap blacklist = {}
         /\ \A names : blacklist \subseteq names =>
               Skipping(Wanted, names) =
                  Skipping(InitialPlugins, names)
                  \o Skipping(option, names \cup ToSet(InitialPlugins))
<1> DEFINE a == Skipping(InitialPlugins, blacklist)
           other == blacklist \cup ToSet(InitialPlugins)
           b == Skipping(option, other)
<1>1. InitialPlugins \in Seq(PluginNames)
  BY PluginsAssumption
<1>2. /\ a \in Seq(PluginNames) /\ ToSet(a) \cap blacklist = {}
      /\ b \in Seq(PluginNames) /\ ToSet(b) \cap other = {}
  BY <1>1, SkippingIsList
<1>3. Wanted = a \o b
  BY DEF Wanted
<1>4. ASSUME NEW names, blacklist \subseteq names
      PROVE  Skipping(Wanted, names) = Skipping(InitialPlugins, names)
                  \o Skipping(option, names \cup ToSet(InitialPlugins))
  <2>1. Skipping(a, names) = Skipping(InitialPlugins, blacklist \cup names)
    BY <1>1, SkippingTwice
  <2>2. Skipping(b, names) = Skipping(option, other \cup names)
    BY SkippingTwice
  <2>3. blacklist \cup names = names /\ other \cup names = names \cup ToSet(InitialPlugins)
    BY <1>4
  <2> HIDE DEF a, b, other
  <2>4. Skipping(a \o b, names) = Skipping(a, names) \o Skipping(b, names)
    BY <1>2, SkippingConcat
  <2> QED
    BY <1>3, <2>1, <2>2, <2>3, <2>4
<1>5. ToSet(Wanted) = ToSet(a) \cup ToSet(b) /\ Wanted \in Seq(PluginNames)
  <2> HIDE DEF a, b
  <2> QED
    BY <1>2, <1>3, MembersOfConcat
<1> QED
  BY <1>2, <1>4, <1>5

LEMMA KeptIs ==
  ASSUME option \in Seq(PluginNames), plugins \in Seq(PluginNames)
  PROVE  CommonStart(Kept, plugins, Wanted) /\ UpdateSteps \in Nat
         /\ Len(plugins) - Kept \in 0 .. UpdateSteps
         /\ UpdateSteps - (Len(plugins) - Kept) = Len(Wanted) - Kept
<1> DEFINE want == Wanted
           k == Kept
<1>1. want \in Seq(PluginNames)
  BY WantedIs
<1>2. k = Len(LongestCommonPrefix({plugins, want}))
  BY DEF Kept
<1>4. UpdateSteps = Len(plugins) - k + Len(want) - k
  BY DEF UpdateSteps
<1> HIDE DEF want, k
<1>3. CommonStart(k, plugins, want)
  BY <1>1, <1>2, CommonStartIs
<1>5. /\ UpdateSteps \in Nat /\ Len(plugins) - k \in 0 .. UpdateSteps
      /\ UpdateSteps - (Len(plugins) - k) = Len(want) - k
  BY <1>1, <1>3, <1>4 DEF CommonStart
<1> QED
  BY <1>3, <1>5 DEF want, k

(* The recursion of UpdatedBy has a solution.                              *)
LEMMA UpdatedSteps ==
  ASSUME NEW fails, UpdateSteps \in Nat
  PROVE  /\ UpdatedBy(fails)[0] = Manager
         /\ \A n \in 1 .. UpdateSteps :
               UpdatedBy(fails)[n] = IF n <= Len(plugins) - Kept THEN Pop(UpdatedBy(fails)[n - 1])
                    ELSE Push(UpdatedBy(fails)[n - 1], Wanted[Kept + n - (Len(plugins) - Kept)], fails)
<1> DEFINE Step(g, n) == IF n = 0 THEN Manager ELSE IF n <= Len(plugins) - Kept THEN Pop(g[n - 1])
                    ELSE Push(g[n - 1], Wanted[Kept + n - (Len(plugins) - Kept)], fails)
           Solved(m) == \E g : g = [n \in 0 .. m |-> Step(g, n)]
           S == {m \in 0 .. UpdateSteps : ~ Solved(m)}
           f == UpdatedBy(fails)
<1>1. f = CHOOSE g : g = [n \in 0 .. UpdateSteps |-> Step(g, n)]
  BY DEF UpdatedBy
<1>2. S = {}
  <2> SUFFICES ASSUME S # {}
               PROVE  FALSE
    OBVIOUS
  <2>1. S \in SUBSET Nat
    OBVIOUS
  <2>2. PICK m : m \in S /\ \A y \in S : m =< y
    BY <2>1, MinIsFirst
  <2>3. m \in Nat /\ m \in 0 .. UpdateSteps /\ ~ Solved(m)
    BY <2>2
  <2>4. CASE m = 0
    <3> DEFINE h == [n \in 0 .. m |-> Manager]
    <3>1. h = [n \in 0 .. m |-> Step(h, n)]
      <4>1. \A n \in 0 .. m : n = 0
        BY <2>4
      <4> QED
        BY <4>1
    <3> QED
      BY <2>3, <3>1
  <2>5. CASE m # 0
    <3>1. m - 1 \in 0 .. UpdateSteps /\ m - 1 \notin S
      <4>1. m - 1 \in 0 .. UpdateSteps /\ ~ (m =< m - 1)
        BY <2>3, <2>5
      <4> QED
        BY <2>2, <4>1
    <3>2. PICK g : g = [n \in 0 .. m - 1 |-> Step(g, n)]
      BY <3>1
    <3> DEFINE h == [n \in 0 .. m |-> IF n = m THEN Step(g, m) ELSE g[n]]
    <3>3. \A n \in 0 .. m : h[n] = Step(h, n)
      <4> SUFFICES ASSUME NEW n \in 0 .. m
                   PROVE  h[n] = Step(h, n)
        OBVIOUS
      <4>1. n # 0 => n - 1 \in 0 .. m /\ n - 1 # m
        BY <2>3
      <4>2. n # 0 => h[n - 1] = g[n - 1]
        BY <4>1
      <4>3. n # m => n \in 0 .. m - 1
        BY <2>3
      <4>4. n # m => g[n] = Step(g, n)
        BY <3>2, <4>3
      <4>5. h[n] = Step(g, n)
        BY <4>4
      <4> HIDE DEF h
      <4> QED
        BY <4>2, <4>5
    <3>4. h = [n \in 0 .. m |-> h[n]]
      OBVIOUS
    <3> HIDE DEF h
    <3>5. [n \in 0 .. m |-> h[n]] = [n \in 0 .. m |-> Step(h, n)]
      BY <3>3
    <3> QED
      BY <2>3, <3>4, <3>5
  <2> QED
    BY <2>4, <2>5
<1>3. Solved(UpdateSteps)
  BY <1>2
<1> HIDE DEF f
<1>4. f = [n \in 0 .. UpdateSteps |-> Step(f, n)]
  BY <1>1, <1>3
<1>5. f[0] = Manager
  BY <1>4
<1>6. \A n \in 1 .. UpdateSteps : f[n] = IF n <= Len(plugins) - Kept THEN Pop(f[n - 1])
                    ELSE Push(f[n - 1], Wanted[Kept + n - (Len(plugins) - Kept)], fails)
  <2> SUFFICES ASSUME NEW n \in 1 .. UpdateSteps
               PROVE  f[n] = IF n <= Len(plugins) - Kept THEN Pop(f[n - 1])
                    ELSE Push(f[n - 1], Wanted[Kept + n - (Len(plugins) - Kept)], fails)
    OBVIOUS
  <2>1. n \in 0 .. UpdateSteps /\ n # 0
    OBVIOUS
  <2>2. f[n] = Step(f, n)
    BY <1>4, <2>1
  <2> QED
    BY <2>1, <2>2
<1> QED
  BY <1>5, <1>6 DEF f


Managers == [plugins : Seq(PluginNames), blacklist : SUBSET PluginNames,
             onScreen : SUBSET PluginNames, storage : Storages]

(* What a step of an update does to the lists.                             *)
Popped(r, m) ==
  /\ r \in Managers /\ r.plugins = Front(m.plugins) /\ r.blacklist = m.blacklist
  /\ r.onScreen = m.onScreen \ {Last(m.plugins)} /\ Stepped(r.storage, m.storage)
  /\ r.storage = FiniWindows(m.storage, Last(m.plugins), m.storage.stacked)

LEMMA PopIs ==
  ASSUME NEW m \in Managers, Typed(m.storage), Len(m.plugins) # 0
  PROVE  Popped(Pop(m), m)
<1> DEFINE p == Last(m.plugins)
           x == Front(m.plugins)
           y == m.onScreen \ {p}
           z == FiniWindows(m.storage, p, m.storage.stacked)
           r == Pop(m)
<1>1. m.plugins \in Seq(PluginNames) /\ m.onScreen \in SUBSET PluginNames
  BY DEF Managers
<1>2. p \in PluginNames /\ x \in Seq(PluginNames)
  BY <1>1, SubSeqProperties DEF Last, Front
<1>3. y \in SUBSET PluginNames
  BY <1>1
<1>4. Stepped(z, m.storage)
  BY <1>2, PassesStepped DEF Typed
<1>5. r = [m EXCEPT !.plugins = x, !.storage = z, !.onScreen = y]
  BY DEF Pop, Managers
<1>6. z \in Storages
  BY <1>4 DEF Stepped, Typed
<1> HIDE DEF x, y, z
<1>7. r \in Managers /\ r.plugins = x /\ r.blacklist = m.blacklist /\ r.onScreen = y /\ r.storage = z
  BY <1>2, <1>3, <1>5, <1>6 DEF Managers
<1> HIDE DEF r
<1> QED
  BY <1>4, <1>7 DEF r, x, y, z, Popped

(* The plugin has no chance in this update.                                *)
Hopeless(st, p, fails) ==
  \/ p \in Unloadable
  \/ p \in fails \cap NeverStarts
  \/ p \in fails \cap NotForWindows /\ st.stacked # {}

Pushed(r, m, p, fails) ==
  /\ r \in Managers /\ Stepped(r.storage, m.storage)
  /\ \/ /\ p \in ToSet(m.plugins) /\ r.storage.broken = TRUE
        /\ r.plugins = m.plugins /\ r.blacklist = m.blacklist \cup {p} /\ r.onScreen = m.onScreen
     \/ /\ p \notin ToSet(m.plugins) /\ Hopeless(m.storage, p, fails)
        /\ r.plugins = m.plugins /\ r.blacklist = m.blacklist \cup {p}
        /\ r.onScreen = m.onScreen /\ r.storage = m.storage
     \/ /\ p \notin ToSet(m.plugins) /\ Hopeless(m.storage, p, fails) /\ p \in NotForWindows
        /\ m.storage.stacked # {} /\ r = PushFailsOnWindow(m, p)
        /\ r.plugins = m.plugins /\ r.blacklist = m.blacklist \cup {p}
        /\ r.onScreen = m.onScreen \cup {p}
     \/ /\ p \notin ToSet(m.plugins) /\ ~ Hopeless(m.storage, p, fails)
        /\ r.plugins = Append(m.plugins, p) /\ r.blacklist = m.blacklist
        /\ r.onScreen = m.onScreen \cup {p}
        /\ r.storage = InitWindows(m.storage, p, m.storage.stacked)

LEMMA PushFailsIs ==
  ASSUME NEW m \in Managers, Typed(m.storage), NEW p \in PluginNames, m.storage.stacked # {}
  PROVE  LET r == PushFailsOnWindow(m, p)
         IN  /\ r \in Managers /\ Stepped(r.storage, m.storage)
             /\ r.plugins = m.plugins /\ r.blacklist = m.blacklist \cup {p}
             /\ r.onScreen = m.onScreen \cup {p}
<1> DEFINE st == m.storage
           w == CHOOSE w \in st.stacked : TRUE
           before == st.stacked \ {w}
           begun == InitWindows(st, p, before)
           failed == InitWindowFails(begun, p, w)
           d == FiniWindows(failed, p, before)
           b == m.blacklist \cup {p}
           c == m.onScreen \cup {p}
<1>1. w \in st.stacked /\ st.stacked \subseteq DOMAIN st.slots
  BY DEF Typed
<1>2. before \subseteq DOMAIN st.slots /\ w \in DOMAIN st.slots
  BY <1>1
<1>3. PushFailsOnWindow(m, p) = [m EXCEPT !.blacklist = b, !.onScreen = c, !.storage = d]
  BY DEF PushFailsOnWindow, Managers
<1> HIDE DEF w, before, st
<1>4. Stepped(begun, st)
  BY <1>2, PassesStepped DEF st
<1> HIDE DEF begun
<1>5. Stepped(failed, begun)
  BY <1>2, <1>4, WindowsStepped DEF Stepped
<1> HIDE DEF failed
<1>6. before \in SUBSET DOMAIN failed.slots /\ Typed(failed)
  BY <1>2, <1>4, <1>5 DEF Stepped
<1>7. Stepped(d, failed)
  BY <1>6, PassesStepped
<1> HIDE DEF d
<1>8. Stepped(d, st)
  BY <1>4, <1>5, <1>7, SteppedTwice
<1>9. b \in SUBSET PluginNames /\ c \in SUBSET PluginNames /\ d \in Storages
      /\ m.plugins \in Seq(PluginNames)
  BY <1>8 DEF Managers, Stepped, Typed
<1> HIDE DEF b, c
<1> DEFINE r == PushFailsOnWindow(m, p)
<1>10. r \in Managers /\ r.plugins = m.plugins /\ r.blacklist = b /\ r.onScreen = c /\ r.storage = d
  BY <1>3, <1>9 DEF Managers
<1> HIDE DEF r
<1> QED
  BY <1>8, <1>10 DEF r, b, c, st

LEMMA PushIs ==
  ASSUME NEW m \in Managers, Typed(m.storage), NEW p \in PluginNames, NEW fails
  PROVE  Pushed(Push(m, p, fails), m, p, fails)
<1> DEFINE old == m.storage
           b == m.blacklist \cup {p}
           c == m.onScreen \cup {p}
           a == Append(m.plugins, p)
           d == InitWindows(old, p, old.stacked)
           k == Break(old)
           r == Push(m, p, fails)
<1>1. m.plugins \in Seq(PluginNames) /\ m.blacklist \in SUBSET PluginNames
      /\ m.onScreen \in SUBSET PluginNames /\ old \in Storages
  BY DEF Managers
<1>2. b \in SUBSET PluginNames /\ c \in SUBSET PluginNames /\ a \in Seq(PluginNames)
  BY <1>1, AppendProperties
<1>3. Stepped(d, old) /\ Stepped(k, old) /\ k.broken = TRUE /\ Stepped(old, old)
  <2>1. Typed(old) /\ old.stacked \in SUBSET DOMAIN old.slots
    BY DEF Typed
  <2> HIDE DEF old
  <2> QED
    BY <2>1, PassesStepped, BreakStepped DEF Stepped
<1>4. d \in Storages /\ k \in Storages
  BY <1>3 DEF Stepped, Typed
<1>5. CASE p \in ToSet(m.plugins)
  <2>1. r = [m EXCEPT !.blacklist = b, !.storage = k]
    BY <1>5 DEF Push, Managers
  <2> HIDE DEF b, k, old
  <2>2. r \in Managers /\ r.plugins = m.plugins /\ r.blacklist = b
        /\ r.onScreen = m.onScreen /\ r.storage = k
    BY <1>1, <1>2, <1>4, <2>1 DEF Managers
  <2> HIDE DEF r
  <2> QED
    BY <1>3, <1>5, <2>2 DEF Pushed, b, r, old
<1>6. CASE p \notin ToSet(m.plugins) /\ (p \in Unloadable \/ p \in fails \cap NeverStarts)
  <2>1. r = [m EXCEPT !.blacklist = b]
    BY <1>6 DEF Push, Managers
  <2> HIDE DEF b
  <2>2. r \in Managers /\ r.plugins = m.plugins /\ r.blacklist = b
        /\ r.onScreen = m.onScreen /\ r.storage = old
    BY <1>1, <1>2, <1>4, <2>1 DEF Managers
  <2> HIDE DEF r
  <2>3. Hopeless(m.storage, p, fails)
    BY <1>6 DEF Hopeless
  <2>4. Stepped(r.storage, m.storage) /\ r.storage = m.storage
    BY <1>3, <2>2
  <2>5. Pushed(r, m, p, fails)
    BY <1>6, <2>2, <2>3, <2>4 DEF Pushed, b
  <2> QED
    BY <2>5 DEF r
<1>7. CASE p \notin ToSet(m.plugins) /\ ~ (p \in Unloadable \/ p \in fails \cap NeverStarts)
           /\ p \in fails \cap NotForWindows /\ old.stacked # {}
  <2>1. r = PushFailsOnWindow(m, p)
    BY <1>7 DEF Push
  <2> HIDE DEF r
  <2>2. r \in Managers /\ Stepped(r.storage, old) /\ r.plugins = m.plugins /\ r.blacklist = b
        /\ r.onScreen = c
    BY <1>7, <2>1, PushFailsIs
  <2>3. Hopeless(old, p, fails)
    BY <1>7 DEF Hopeless
  <2>4. Pushed(r, m, p, fails)
    BY <1>7, <2>1, <2>2, <2>3 DEF Pushed
  <2> QED
    BY <2>4 DEF r
<1>8. CASE p \notin ToSet(m.plugins) /\ ~ (p \in Unloadable \/ p \in fails \cap NeverStarts)
           /\ ~ (p \in fails \cap NotForWindows /\ old.stacked # {})
  <2>1. r = [m EXCEPT !.plugins = a, !.onScreen = c, !.storage = d]
    BY <1>8 DEF Push, Managers
  <2> HIDE DEF a, c, d, old
  <2>2. r \in Managers /\ r.plugins = a /\ r.blacklist = m.blacklist
        /\ r.onScreen = c /\ r.storage = d
    BY <1>1, <1>2, <1>4, <2>1 DEF Managers
  <2> HIDE DEF r
  <2> QED
    BY <1>3, <1>8, <2>2 DEF Pushed, Hopeless, a, c, d, r, old
<1> QED
  BY <1>5, <1>6, <1>7, <1>8

Distinct(s) == \A i, j \in 1 .. Len(s) : s[i] = s[j] => i = j

LEMMA FrontOfDistinct ==
  ASSUME NEW S, NEW s \in Seq(S), Len(s) # 0
  PROVE  /\ Front(s) \in Seq(S) /\ Len(Front(s)) = Len(s) - 1
         /\ \A i \in 1 .. Len(s) - 1 : Front(s)[i] = s[i]
         /\ Distinct(s) => Distinct(Front(s)) /\ ToSet(Front(s)) = ToSet(s) \ {Last(s)}
<1> DEFINE t == Front(s)
           size == Len(s)
<1>1. size \in Nat \ {0} /\ s[size] = Last(s)
  BY DEF Last
<1>2. t \in Seq(S) /\ Len(t) = size - 1 /\ \A i \in 1 .. size - 1 : t[i] = s[i]
  <2>1. t = SubSeq(s, 1, size - 1)
    BY DEF Front
  <2> HIDE DEF t
  <2>2. \A i \in 1 .. size - 1 : s[i] \in S
    BY <1>1
  <2> HIDE DEF size
  <2>3. /\ SubSeq(s, 1, size - 1) \in Seq(S)
        /\ Len(SubSeq(s, 1, size - 1)) = IF 1 <= size - 1 THEN size - 1 - 1 + 1 ELSE 0
        /\ \A i \in 1 .. size - 1 - 1 + 1 : SubSeq(s, 1, size - 1)[i] = s[1 + i - 1]
    BY <1>1, <2>2, SubSeqProperties
  <2> QED
    BY <1>1, <2>1, <2>3
<1> HIDE DEF t
<1>3. \A x : x \in ToSet(t) <=> \E i \in 1 .. Len(t) : t[i] = x
  BY <1>2, MembersOf
<1>4. \A x : x \in ToSet(s) <=> \E i \in 1 .. size : s[i] = x
  BY MembersOf
<1> HIDE DEF size
<1>5. ASSUME Distinct(s)
      PROVE  Distinct(t) /\ ToSet(t) = ToSet(s) \ {Last(s)}
  <2>1. \A i, j \in 1 .. size : s[i] = s[j] => i = j
    BY <1>5 DEF Distinct, size
  <2>2. Distinct(t)
    BY <1>1, <1>2, <2>1 DEF Distinct
  <2>3. \A x : (\E i \in 1 .. size - 1 : s[i] = x) <=> x # s[size] /\ \E i \in 1 .. size : s[i] = x
    <3>1. \A i : i \in 1 .. size <=> i \in 1 .. size - 1 \/ i = size
      BY <1>1
    <3>2. \A i \in 1 .. size - 1 : s[i] # s[size]
      BY <1>1, <2>1
    <3> QED
      BY <3>1, <3>2
  <2>4. \A x : x \in ToSet(t) <=> \E i \in 1 .. size - 1 : s[i] = x
    BY <1>2, <1>3
  <2>5. \A x : x \in ToSet(t) <=> x # Last(s) /\ x \in ToSet(s)
    BY <1>1, <1>4, <2>3, <2>4
  <2> QED
    BY <2>2, <2>5
<1> QED
  BY <1>2, <1>5 DEF t, size

LEMMA AppendOfDistinct ==
  ASSUME NEW S, NEW s \in Seq(S), NEW e \in S, Distinct(s), e \notin ToSet(s)
  PROVE  Distinct(Append(s, e))
<1> DEFINE t == Append(s, e)
<1>1. /\ Len(t) = Len(s) + 1 /\ t[Len(s) + 1] = e /\ \A i \in 1 .. Len(s) : t[i] = s[i]
      /\ Len(s) \in Nat
  BY MembersOfAppend
<1>2. \A i \in 1 .. Len(s) : s[i] # e
  BY MembersOf
<1>3. \A i, j \in 1 .. Len(s) : s[i] = s[j] => i = j
  BY DEF Distinct
<1> HIDE DEF t
<1>4. ASSUME NEW i \in 1 .. Len(t), NEW j \in 1 .. Len(t), t[i] = t[j]
      PROVE  i = j
  <2>1. i \in 1 .. Len(s) \/ i = Len(s) + 1
    BY <1>1
  <2>2. j \in 1 .. Len(s) \/ j = Len(s) + 1
    BY <1>1
  <2> QED
    BY <1>1, <1>2, <1>3, <1>4, <2>1, <2>2
<1> QED
  BY <1>4 DEF t, Distinct

ScreenIs(run, seen, black) ==
  ToSet(run) \subseteq seen /\ seen \ ToSet(run) \subseteq black \cap NotForWindows

(* A manager on its way through an update.                                 *)
OnTheWay(m) ==
  /\ m \in Managers /\ Stepped(m.storage, storage) /\ blacklist \subseteq m.blacklist
  /\ ~ m.storage.broken => Distinct(m.plugins) /\ ScreenIs(m.plugins, m.onScreen, m.blacklist)

LEMMA PoppedOnTheWay ==
  ASSUME NEW m, OnTheWay(m), Len(m.plugins) # 0, NEW r, Popped(r, m)
  PROVE  OnTheWay(r)
<1>1. m.plugins \in Seq(PluginNames) /\ r.plugins = Front(m.plugins) /\ r.blacklist = m.blacklist
      /\ r.onScreen = m.onScreen \ {Last(m.plugins)} /\ r \in Managers
      /\ Stepped(r.storage, m.storage) /\ Stepped(m.storage, storage)
      /\ blacklist \subseteq m.blacklist
  BY DEF OnTheWay, Popped, Managers
<1>2. Stepped(r.storage, storage)
  BY <1>1, SteppedTwice
<1>3. ASSUME ~ r.storage.broken
      PROVE  Distinct(r.plugins) /\ ScreenIs(r.plugins, r.onScreen, r.blacklist)
  <2>1. ~ m.storage.broken
    BY <1>1, <1>3 DEF Stepped
  <2>2. Distinct(m.plugins) /\ ScreenIs(m.plugins, m.onScreen, m.blacklist)
    BY <2>1 DEF OnTheWay
  <2>3. Distinct(r.plugins) /\ ToSet(r.plugins) = ToSet(m.plugins) \ {Last(m.plugins)}
    BY <1>1, <2>2, FrontOfDistinct
  <2> QED
    BY <1>1, <2>2, <2>3 DEF ScreenIs
<1> QED
  BY <1>1, <1>2, <1>3 DEF OnTheWay

LEMMA PushedOnTheWay ==
  ASSUME NEW m, OnTheWay(m), NEW p \in PluginNames, NEW fails, NEW r, Pushed(r, m, p, fails)
  PROVE  OnTheWay(r)
<1>1. m.plugins \in Seq(PluginNames) /\ r \in Managers
      /\ Stepped(r.storage, m.storage) /\ Stepped(m.storage, storage)
      /\ blacklist \subseteq m.blacklist
  BY DEF OnTheWay, Pushed, Managers
<1>2. Stepped(r.storage, storage)
  BY <1>1, SteppedTwice
<1>3. blacklist \subseteq r.blacklist
  BY <1>1 DEF Pushed
<1>4. ASSUME ~ r.storage.broken
      PROVE  Distinct(r.plugins) /\ ScreenIs(r.plugins, r.onScreen, r.blacklist)
  <2>1. ~ m.storage.broken
    BY <1>1, <1>4 DEF Stepped
  <2>2. Distinct(m.plugins) /\ ScreenIs(m.plugins, m.onScreen, m.blacklist)
    BY <2>1 DEF OnTheWay
  <2>3. CASE p \in ToSet(m.plugins)
    BY <1>4, <2>3 DEF Pushed
  <2>4. CASE p \notin ToSet(m.plugins) /\ r.plugins = m.plugins /\ r.blacklist = m.blacklist \cup {p}
             /\ \/ r.onScreen = m.onScreen
                \/ r.onScreen = m.onScreen \cup {p} /\ p \in NotForWindows
    BY <2>2, <2>4 DEF ScreenIs
  <2>5. CASE p \notin ToSet(m.plugins) /\ r.plugins = Append(m.plugins, p)
             /\ r.blacklist = m.blacklist /\ r.onScreen = m.onScreen \cup {p}
    <3>1. Distinct(r.plugins) /\ ToSet(r.plugins) = ToSet(m.plugins) \cup {p}
      BY <1>1, <2>2, <2>5, AppendOfDistinct, MembersOfAppend
    <3> QED
      BY <2>2, <2>5, <3>1 DEF ScreenIs
  <2> QED
    BY <2>3, <2>4, <2>5 DEF Pushed
<1> QED
  BY <1>1, <1>2, <1>3, <1>4 DEF OnTheWay

(* What an update is about to work on.                                     *)
PluginsRight ==
  ~ storage.broken => Distinct(plugins) /\ ScreenIs(plugins, onScreen, blacklist)

PluginsShape ==
  /\ option \in Seq(PluginNames) /\ dirty \in BOOLEAN /\ crossings \in 0 .. MaxCrossings
  /\ plugins \in Seq(PluginNames) /\ blacklist \subseteq PluginNames
  /\ onScreen \subseteq PluginNames /\ destroyedWindows \subseteq Windows
  /\ Typed(storage) /\ DOMAIN storage.slots = storage.stacked \cup destroyedWindows
  /\ storage.stacked \cap destroyedWindows = {}

LEMMA ManagerStarts ==
  ASSUME PluginsShape, PluginsRight
  PROVE  /\ OnTheWay(Manager) /\ Manager.plugins = plugins /\ Manager.blacklist = blacklist
         /\ Manager.onScreen = onScreen /\ Manager.storage = storage
<1> DEFINE m == Manager
<1>1. m.plugins = plugins /\ m.blacklist = blacklist /\ m.onScreen = onScreen /\ m.storage = storage
  BY DEF Manager
<1>2. m \in Managers
  BY DEF Manager, Managers, PluginsShape, Typed
<1> HIDE DEF m
<1>3. Stepped(m.storage, storage)
  BY <1>1 DEF Stepped, PluginsShape
<1> QED
  BY <1>1, <1>2, <1>3 DEF OnTheWay, PluginsRight, m

(* Plugins are popped one by one.                                          *)
LEMMA PopsOfUpdate ==
  ASSUME PluginsShape, PluginsRight, NEW fails
  PROVE  \A n \in 0 .. Len(plugins) - Kept :
            /\ OnTheWay(UpdatedBy(fails)[n])
            /\ UpdatedBy(fails)[n].plugins = SubSeq(plugins, 1, Len(plugins) - n)
            /\ UpdatedBy(fails)[n].blacklist = blacklist
<1> DEFINE f == UpdatedBy(fails)
           pops == Len(plugins) - Kept
           J == {n \in 0 .. pops :
                   /\ OnTheWay(f[n]) /\ f[n].plugins = SubSeq(plugins, 1, Len(plugins) - n)
                   /\ f[n].blacklist = blacklist}
<1>1. plugins \in Seq(PluginNames) /\ option \in Seq(PluginNames) /\ Len(plugins) \in Nat
  BY DEF PluginsShape
<1>2. UpdateSteps \in Nat /\ pops \in 0 .. UpdateSteps /\ pops \in Nat /\ pops <= Len(plugins)
  BY <1>1, KeptIs DEF CommonStart
<1>3. f[0] = Manager /\ \A n \in 1 .. pops : f[n] = Pop(f[n - 1])
  BY <1>2, UpdatedSteps
<1> HIDE DEF f, pops
<1>4. 0 \in J
  <2>1. SubSeq(plugins, 1, Len(plugins) - 0) = plugins
    BY <1>1, SubSeqFull
  <2> QED
    BY <1>2, <1>3, <2>1, ManagerStarts
<1>5. ASSUME NEW n \in 1 .. pops, n - 1 \in J
      PROVE  n \in J
  <2> DEFINE m == f[n - 1]
             r == f[n]
             k == Len(plugins) - n
  <2>1. OnTheWay(m) /\ m.plugins = SubSeq(plugins, 1, Len(plugins) - (n - 1))
        /\ m.blacklist = blacklist
    BY <1>5
  <2>2. r = Pop(m)
    BY <1>3
  <2>3. Len(plugins) - (n - 1) = k + 1 /\ k \in Nat /\ k + 1 \in 1 .. Len(plugins)
    BY <1>1, <1>2
  <2> HIDE DEF m, r, k
  <2>4. Len(m.plugins) = k + 1
    BY <1>1, <2>1, <2>3, SubSeqProperties
  <2>5. m \in Managers /\ Typed(m.storage) /\ Len(m.plugins) # 0
    BY <2>1, <2>3, <2>4 DEF OnTheWay, Stepped
  <2>6. Popped(r, m)
    BY <2>2, <2>5, PopIs
  <2>7. OnTheWay(r) /\ r.blacklist = blacklist
    BY <2>1, <2>5, <2>6, PoppedOnTheWay DEF Popped
  <2>8. r.plugins = SubSeq(plugins, 1, k)
    <3>1. r.plugins = SubSeq(SubSeq(plugins, 1, k + 1), 1, k)
      BY <2>1, <2>3, <2>4, <2>6 DEF Popped, Front
    <3>2. SubSeq(SubSeq(plugins, 1, k + 1), 1, k) = SubSeq(plugins, 1, k)
      BY <1>1, <2>3
    <3> QED
      BY <3>1, <3>2
  <2> QED
    BY <2>7, <2>8 DEF r, k
<1>6. \A n \in 0 .. pops : n \in J
  <2> HIDE DEF J
  <2> QED
    BY <1>2, <1>4, <1>5, CountingUp
<1> QED
  BY <1>6 DEF f, pops

(* What is wanted from there is pushed, in its order.                      *)
PushedUpTo(m, k, fails) ==
  ~ m.storage.broken =>
     /\ m.plugins = Skipping(SubSeq(Wanted, 1, k), m.blacklist)
     /\ \A q \in m.blacklist \ blacklist : Hopeless(storage, q, fails)

LEMMA PushedOneMore ==
  ASSUME option \in Seq(PluginNames), NEW m, OnTheWay(m), NEW k \in 1 .. Len(Wanted), NEW fails,
         PushedUpTo(m, k - 1, fails), NEW r, Pushed(r, m, Wanted[k], fails)
  PROVE  PushedUpTo(r, k, fails)
<1> DEFINE p == Wanted[k]
           done == SubSeq(Wanted, 1, k - 1)
           more == SubSeq(Wanted, 1, k)
<1>1. Wanted \in Seq(PluginNames) /\ ToSet(Wanted) \cap blacklist = {} /\ Len(Wanted) \in Nat
  BY WantedIs
<1>2. p \in PluginNames /\ p \notin blacklist
  BY <1>1, MembersOf
<1>3. more = Append(done, p) /\ done \in Seq(PluginNames)
  <2>1. done \in Seq(PluginNames)
    BY <1>1
  <2>2. more = done \o << p >>
    BY <1>1, SubSeqRecursiveSecond
  <2> QED
    BY <1>2, <2>1, <2>2, AppendIsConcat
<1> HIDE DEF p, done, more
<1>4. SUFFICES ASSUME ~ r.storage.broken
               PROVE  /\ r.plugins = Skipping(more, r.blacklist)
                      /\ \A q \in r.blacklist \ blacklist : Hopeless(storage, q, fails)
  BY DEF PushedUpTo, more
<1>5. Stepped(r.storage, m.storage) /\ Stepped(m.storage, storage) /\ m.plugins \in Seq(PluginNames)
      /\ Pushed(r, m, p, fails)
  BY DEF Pushed, OnTheWay, Managers, p
<1>6. ~ m.storage.broken /\ m.storage.stacked = storage.stacked
  BY <1>4, <1>5 DEF Stepped
<1>7. /\ m.plugins = Skipping(done, m.blacklist)
      /\ \A q \in m.blacklist \ blacklist : Hopeless(storage, q, fails)
  BY <1>6 DEF PushedUpTo, done
<1>8. Hopeless(m.storage, p, fails) <=> Hopeless(storage, p, fails)
  BY <1>6 DEF Hopeless
<1>9. CASE p \notin ToSet(m.plugins) /\ Hopeless(m.storage, p, fails) /\ r.plugins = m.plugins
           /\ r.blacklist = m.blacklist \cup {p}
  <2>1. Skipping(more, r.blacklist) = Skipping(done, m.blacklist \cup {p})
    BY <1>2, <1>3, <1>9, SkippingAppend
  <2>2. Skipping(m.plugins, {p}) = Skipping(done, m.blacklist \cup {p})
    BY <1>3, <1>7, SkippingTwice
  <2>3. Skipping(m.plugins, {p}) = m.plugins
    BY <1>5, <1>9, SkippingNone
  <2> QED
    BY <1>7, <1>8, <1>9, <2>1, <2>2, <2>3
<1>10. CASE ~ Hopeless(m.storage, p, fails) /\ r.plugins = Append(m.plugins, p)
            /\ r.blacklist = m.blacklist
  <2>1. p \notin m.blacklist
    BY <1>2, <1>7, <1>8, <1>10
  <2>2. Skipping(more, r.blacklist) = Append(Skipping(done, m.blacklist), p)
    BY <1>2, <1>3, <1>10, <2>1, SkippingAppend
  <2> QED
    BY <1>7, <1>10, <2>2
<1>11. p \in ToSet(m.plugins) => r.storage.broken
  BY <1>5 DEF Pushed
<1> QED
  BY <1>4, <1>5, <1>9, <1>10, <1>11 DEF Pushed

LEMMA PushesOfUpdate ==
  ASSUME PluginsShape, PluginsRight, NEW fails
  PROVE  \A j \in 0 .. Len(Wanted) - Kept :
            /\ OnTheWay(UpdatedBy(fails)[Len(plugins) - Kept + j])
            /\ PushedUpTo(UpdatedBy(fails)[Len(plugins) - Kept + j], Kept + j, fails)
<1> DEFINE f == UpdatedBy(fails)
           pops == Len(plugins) - Kept
           kept == Kept
           want == Wanted
           J == {j \in 0 .. Len(want) - kept :
                   OnTheWay(f[pops + j]) /\ PushedUpTo(f[pops + j], kept + j, fails)}
<1>1. plugins \in Seq(PluginNames) /\ option \in Seq(PluginNames) /\ Len(plugins) \in Nat
  BY DEF PluginsShape
<1>2. /\ UpdateSteps \in Nat /\ pops \in 0 .. UpdateSteps /\ pops \in Nat
      /\ UpdateSteps - pops = Len(want) - kept /\ CommonStart(kept, plugins, want)
      /\ pops = Len(plugins) - kept
  BY <1>1, KeptIs DEF CommonStart
<1>3. want \in Seq(PluginNames) /\ ToSet(want) \cap blacklist = {} /\ Len(want) \in Nat
  BY <1>1, WantedIs
<1>4. \A n \in 1 .. UpdateSteps : f[n] = IF n <= pops THEN Pop(f[n - 1])
                                  ELSE Push(f[n - 1], want[kept + n - pops], fails)
  BY <1>2, UpdatedSteps
<1>5. /\ OnTheWay(f[pops]) /\ f[pops].plugins = SubSeq(plugins, 1, Len(plugins) - pops)
      /\ f[pops].blacklist = blacklist
  <2>1. pops \in 0 .. pops
    BY <1>2
  <2> QED
    BY <2>1, PopsOfUpdate
<1> HIDE DEF f, pops, kept, want
<1>6. kept \in Nat /\ kept <= Len(want) /\ kept <= Len(plugins) /\ Len(want) - kept \in Nat
      /\ Len(plugins) - pops = kept /\ \A i \in 1 .. kept : plugins[i] = want[i]
  BY <1>1, <1>2, <1>3 DEF CommonStart
<1>7. 0 \in J
  <2> DEFINE start == SubSeq(want, 1, kept)
  <2>1. /\ start \in Seq(PluginNames) /\ Len(start) = kept
        /\ \A i \in 1 .. kept : start[i] = want[i]
    BY <1>3, <1>6
  <2>2. SubSeq(plugins, 1, kept) \in Seq(PluginNames) /\ Len(SubSeq(plugins, 1, kept)) = kept
        /\ \A i \in 1 .. kept : SubSeq(plugins, 1, kept)[i] = plugins[i]
    BY <1>1, <1>6
  <2> HIDE DEF start
  <2>3. SubSeq(plugins, 1, kept) = start
    BY <1>6, <2>1, <2>2, SeqEqual
  <2>4. ToSet(start) \subseteq ToSet(want)
    <3>1. \A i \in 1 .. kept : i \in 1 .. Len(want)
      BY <1>3, <1>6
    <3> QED
      BY <1>3, <2>1, <3>1, MembersOf
  <2>5. Skipping(start, blacklist) = start
    BY <1>3, <2>1, <2>4, SkippingNone
  <2>6. PushedUpTo(f[pops], kept, fails)
    BY <1>5, <1>6, <2>3, <2>5 DEF PushedUpTo, start, want
  <2>7. pops + 0 = pops /\ kept + 0 = kept /\ 0 \in 0 .. Len(want) - kept
    BY <1>2, <1>6
  <2> QED
    BY <1>5, <2>6, <2>7
<1>8. ASSUME NEW j \in 1 .. Len(want) - kept, j - 1 \in J
      PROVE  j \in J
  <2> DEFINE m == f[pops + (j - 1)]
             r == f[pops + j]
             k == kept + j
  <2>1. OnTheWay(m) /\ PushedUpTo(m, kept + (j - 1), fails)
    BY <1>8
  <2>2. pops + j \in 1 .. UpdateSteps /\ ~ (pops + j <= pops) /\ pops + j - 1 = pops + (j - 1)
        /\ kept + (pops + j) - pops = k /\ k \in 1 .. Len(want) /\ kept + (j - 1) = k - 1
    <3> HIDE DEF J, m, r
    <3>1. j \in Nat /\ 1 <= j /\ j <= Len(want) - kept
      BY <1>3, <1>6
    <3>2. UpdateSteps \in Nat /\ pops \in Nat /\ UpdateSteps - pops = Len(want) - kept
      BY <1>2
    <3> QED
      BY <1>3, <1>6, <3>1, <3>2
  <2>4. r = Push(m, want[k], fails)
    <3> DEFINE n == pops + j
    <3>1. n \in 1 .. UpdateSteps /\ ~ (n <= pops) /\ n - 1 = pops + (j - 1)
          /\ kept + n - pops = k
      BY <1>2, <1>6, <2>2
    <3>2. r = f[n]
      OBVIOUS
    <3> HIDE DEF n, r, k
    <3>3. f[n] = Push(f[n - 1], want[kept + n - pops], fails)
      BY <1>4, <3>1
    <3> QED
      BY <3>1, <3>2, <3>3
  <2> HIDE DEF m, r, k
  <2>5. m \in Managers /\ Typed(m.storage) /\ want[k] \in PluginNames
    BY <1>3, <2>1, <2>2 DEF OnTheWay, Stepped
  <2>6. Pushed(r, m, want[k], fails)
    BY <2>4, <2>5, PushIs
  <2>7. OnTheWay(r)
    BY <2>1, <2>5, <2>6, PushedOnTheWay
  <2>8. PushedUpTo(r, k, fails)
    BY <1>1, <2>1, <2>2, <2>6, PushedOneMore DEF want
  <2> QED
    BY <2>7, <2>8 DEF r, k
<1>9. \A j \in 0 .. Len(want) - kept : j \in J
  <2> HIDE DEF J
  <2> QED
    BY <1>6, <1>7, <1>8, CountingUp
<1> QED
  BY <1>9 DEF f, pops, want, kept

LEMMA UpdatedIs ==
  ASSUME PluginsShape, PluginsRight, NEW fails
  PROVE  LET m == Updated(fails)
         IN  /\ OnTheWay(m)
             /\ ~ m.storage.broken => m.plugins = Skipping(Wanted, m.blacklist)
<1> DEFINE m == Updated(fails)
           pops == Len(plugins) - Kept
           rest == Len(Wanted) - Kept
<1>1. plugins \in Seq(PluginNames) /\ option \in Seq(PluginNames) /\ Len(plugins) \in Nat
  BY DEF PluginsShape
<1>2. Wanted \in Seq(PluginNames) /\ Len(Wanted) \in Nat
  BY <1>1, WantedIs
<1>3. rest \in Nat /\ pops + rest = UpdateSteps /\ Kept + rest = Len(Wanted)
  <2>1. CommonStart(Kept, plugins, Wanted) /\ UpdateSteps \in Nat /\ pops \in 0 .. UpdateSteps
        /\ UpdateSteps - pops = rest
    BY <1>1, KeptIs
  <2>2. Kept \in Nat /\ Kept <= Len(Wanted)
    BY <2>1 DEF CommonStart
  <2> HIDE DEF pops
  <2> QED
    BY <1>2, <2>1, <2>2
<1>4. m = UpdatedBy(fails)[UpdateSteps]
  BY DEF Updated
<1>5. rest \in 0 .. rest
  BY <1>3
<1>6. OnTheWay(UpdatedBy(fails)[pops + rest])
      /\ PushedUpTo(UpdatedBy(fails)[pops + rest], Kept + rest, fails)
  BY <1>5, PushesOfUpdate
<1>7. SubSeq(Wanted, 1, Len(Wanted)) = Wanted
  BY <1>2, SubSeqFull
<1> HIDE DEF m, pops, rest
<1> QED
  BY <1>3, <1>4, <1>6, <1>7 DEF PushedUpTo, m

PluginsInv == PluginsShape /\ PluginsRight /\ PluginsSettled

LEMMA PluginsStart ==
  PluginsInit => PluginsInv
<1> SUFFICES ASSUME PluginsInit
             PROVE  PluginsInv
  OBVIOUS
<1>1. option \in Seq(PluginNames) /\ MaxCrossings \in Nat
  BY PluginsAssumption DEF PluginsInit
<1>2. plugins = << >> /\ plugins \in Seq(PluginNames) /\ Len(plugins) = 0
  BY EmptySeq DEF PluginsInit
<1>3. PluginsShape
  BY <1>1, <1>2, FirstStorage DEF PluginsShape, PluginsInit
<1>4. Distinct(plugins) /\ ToSet(plugins) = {}
  BY <1>2 DEF Distinct, ToSet
<1>5. PluginsRight
  BY <1>4 DEF PluginsRight, ScreenIs, PluginsInit
<1>6. PluginsSettled
  BY DEF PluginsSettled, PluginsInit
<1> QED
  BY <1>3, <1>5, <1>6 DEF PluginsInv

LEMMA UpdateKeeps ==
  ASSUME PluginsInv, NEW fails, UpdatePlugins(fails)
  PROVE  PluginsInv'
<1> DEFINE m == Updated(fails)
<1>1. PluginsShape /\ PluginsRight
  BY DEF PluginsInv
<1>2. /\ OnTheWay(m)
      /\ ~ m.storage.broken => m.plugins = Skipping(Wanted, m.blacklist)
  BY <1>1, UpdatedIs
<1>3. /\ plugins' = m.plugins /\ blacklist' = m.blacklist /\ onScreen' = m.onScreen
      /\ storage' = m.storage /\ option' = m.plugins /\ dirty' = (option # m.plugins)
      /\ crossings' = (IF destroyedWindows # {} /\ plugins # Wanted
                       THEN crossings + 1 ELSE crossings)
      /\ crossings' <= MaxCrossings /\ destroyedWindows' = destroyedWindows
  BY DEF UpdatePlugins
<1> HIDE DEF m
<1>4. m \in Managers /\ Stepped(m.storage, storage) /\ blacklist \subseteq m.blacklist
  BY <1>2 DEF OnTheWay
<1>5. PluginsShape'
  <2>1. plugins' \in Seq(PluginNames) /\ blacklist' \subseteq PluginNames
        /\ onScreen' \subseteq PluginNames /\ option' \in Seq(PluginNames)
    BY <1>3, <1>4 DEF Managers
  <2>2. Typed(storage)' /\ storage'.stacked = storage.stacked
        /\ DOMAIN storage'.slots = DOMAIN storage.slots
    BY <1>3, <1>4 DEF Stepped
  <2>3. crossings' \in 0 .. MaxCrossings /\ dirty' \in BOOLEAN
    BY <1>1, <1>3, PluginsAssumption DEF PluginsShape
  <2> QED
    BY <1>1, <1>3, <2>1, <2>2, <2>3 DEF PluginsShape
<1>6. PluginsRight'
  BY <1>2, <1>3 DEF PluginsRight, OnTheWay
<1>7. PluginsSettled'
  <2> SUFFICES ASSUME ~ dirty', ~ storage'.broken
               PROVE  plugins' = Wanted' /\ option' = plugins'
    BY DEF PluginsSettled
  <2>1. option = m.plugins /\ option' = option /\ option' = plugins'
    BY <1>3
  <2>2. plugins' = Skipping(Wanted, m.blacklist)
    BY <1>2, <1>3
  <2>3. option \in Seq(PluginNames)
    BY <1>1 DEF PluginsShape
  <2>4. plugins' = Skipping(InitialPlugins, m.blacklist)
                   \o Skipping(option, m.blacklist \cup ToSet(InitialPlugins))
    BY <1>4, <2>2, <2>3, WantedIs
  <2>5. Wanted' = Skipping(InitialPlugins, blacklist')
                  \o Skipping(option', blacklist' \cup ToSet(InitialPlugins))
    BY DEF Wanted
  <2> QED
    BY <1>3, <2>1, <2>4, <2>5
<1> QED
  BY <1>5, <1>6, <1>7 DEF PluginsInv

(* A step that touches neither the lists nor whether memory is sound.      *)
LEMMA ListsKept ==
  ASSUME PluginsInv, ~ storage.broken,
         UNCHANGED <<option, dirty, plugins, blacklist, onScreen, crossings>>
  PROVE  PluginsRight' /\ PluginsSettled'
<1>1. Wanted' = Wanted
  BY DEF Wanted
<1>2. PluginsSettled'
  BY <1>1 DEF PluginsSettled, PluginsInv
<1>3. PluginsRight'
  BY DEF PluginsRight, PluginsInv
<1> QED
  BY <1>2, <1>3

LEMMA CreateKeeps ==
  ASSUME PluginsInv, NEW w \in Windows, CreateWindow(w), ~ storage.broken
  PROVE  PluginsInv'
<1> DEFINE a == AddWindow(storage, w)
           t == InitPlugins(a, plugins, w)
<1>1. w \notin DOMAIN storage.slots /\ storage' = t /\ destroyedWindows' = destroyedWindows
      /\ UNCHANGED <<option, dirty, plugins, blacklist, onScreen, crossings>>
  BY DEF CreateWindow
<1>2. PluginsShape
  BY DEF PluginsInv
<1> HIDE DEF a
<1>3. VectorAdded(a, storage, w)
  BY <1>1, <1>2, AddWindowIs DEF PluginsShape, a
<1>4. Typed(a) /\ w \in DOMAIN a.slots /\ a.stacked = storage.stacked \cup {w}
      /\ DOMAIN a.slots = DOMAIN storage.slots \cup {w}
  BY <1>3 DEF VectorAdded
<1>5. Stepped(t, a)
  BY <1>2, <1>4, PassesStepped DEF PluginsShape
<1> HIDE DEF t
<1>6. Typed(t) /\ t.stacked = storage.stacked \cup {w}
      /\ DOMAIN t.slots = DOMAIN storage.slots \cup {w}
  BY <1>4, <1>5 DEF Stepped
<1>7. Typed(storage)'
  BY <1>1, <1>6
<1>8. PluginsShape'
  BY <1>1, <1>2, <1>6, <1>7 DEF PluginsShape
<1> QED
  BY <1>1, <1>8, ListsKept DEF PluginsInv

LEMMA DestroyKeeps ==
  ASSUME PluginsInv, NEW w \in Windows, DestroyWindow(w), ~ storage.broken
  PROVE  PluginsInv'
<1> DEFINE t == Unstack(storage, w)
<1>1. w \in storage.stacked /\ storage' = t /\ destroyedWindows' = destroyedWindows \cup {w}
      /\ UNCHANGED <<option, dirty, plugins, blacklist, onScreen, crossings>>
  BY DEF DestroyWindow
<1>2. PluginsShape
  BY DEF PluginsInv
<1>3. Unstacked(t, storage, w)
  BY <1>2, UnstackIs DEF PluginsShape
<1> HIDE DEF t
<1>4. Typed(t) /\ t.stacked = storage.stacked \ {w} /\ t.slots = storage.slots
  BY <1>3 DEF Unstacked
<1>5. Typed(storage)'
  BY <1>1, <1>4
<1>6. PluginsShape'
  BY <1>1, <1>2, <1>4, <1>5 DEF PluginsShape
<1> QED
  BY <1>1, <1>6, ListsKept DEF PluginsInv

LEMMA DeleteKeeps ==
  ASSUME PluginsInv, NEW w \in Windows, DeleteWindow(w), ~ storage.broken
  PROVE  PluginsInv'
<1> DEFINE gone == FiniPlugins(storage, Reverse(plugins), w)
           t == DropWindow(gone, w)
<1>1. w \in destroyedWindows /\ storage' = t /\ destroyedWindows' = destroyedWindows \ {w}
      /\ UNCHANGED <<option, dirty, plugins, blacklist, onScreen, crossings>>
  BY DEF DeleteWindow
<1>2. PluginsShape
  BY DEF PluginsInv
<1>3. Reverse(plugins) \in Seq(PluginNames)
  BY <1>2 DEF Reverse, PluginsShape
<1>4. Stepped(gone, storage)
  BY <1>1, <1>2, <1>3, PassesStepped DEF PluginsShape
<1> HIDE DEF gone
<1>5. VectorDropped(t, gone, w)
  BY <1>1, <1>2, <1>4, DropWindowIs DEF PluginsShape, Stepped
<1> HIDE DEF t
<1>6. Typed(t) /\ t.stacked = storage.stacked /\ DOMAIN t.slots = DOMAIN storage.slots \ {w}
  BY <1>4, <1>5 DEF VectorDropped, Stepped
<1>7. Typed(storage)'
  BY <1>1, <1>6
<1>8. PluginsShape'
  BY <1>1, <1>2, <1>6, <1>7 DEF PluginsShape
<1> QED
  BY <1>1, <1>8, ListsKept DEF PluginsInv

LEMMA SetOptionKeeps ==
  ASSUME PluginsInv, NEW list \in OptionLists, SetOption(list)
  PROVE  PluginsInv'
<1>1. list \in Seq(PluginNames)
  BY PluginsAssumption
<1>2. PluginsShape'
  BY <1>1 DEF PluginsInv, PluginsShape, SetOption
<1>3. PluginsRight' /\ PluginsSettled'
  BY DEF PluginsInv, PluginsRight, PluginsSettled, SetOption
<1> QED
  BY <1>2, <1>3 DEF PluginsInv

LEMMA PluginsKept ==
  PluginsInv /\ [PluginsNext]_pluginVars => PluginsInv'
<1> SUFFICES ASSUME PluginsInv, [PluginsNext]_pluginVars
             PROVE  PluginsInv'
  OBVIOUS
<1>1. CASE ~ storage.broken /\ \E list \in OptionLists : SetOption(list)
  BY <1>1, SetOptionKeeps
<1>2. CASE ~ storage.broken
           /\ \E fails \in SUBSET (NeverStarts \union NotForWindows) : UpdatePlugins(fails)
  BY <1>2, UpdateKeeps
<1>3. CASE ~ storage.broken
           /\ \E w \in Windows : CreateWindow(w) \/ DestroyWindow(w) \/ DeleteWindow(w)
  BY <1>3, CreateKeeps, DestroyKeeps, DeleteKeeps
<1>4. CASE UNCHANGED pluginVars
  <2>1. Wanted' = Wanted
    BY <1>4 DEF Wanted, pluginVars
  <2>2. Typed(storage)' <=> Typed(storage)
    BY <1>4 DEF pluginVars
  <2> QED
    BY <1>4, <2>1, <2>2
       DEF PluginsInv, PluginsShape, PluginsRight, PluginsSettled, pluginVars
<1> QED
  BY <1>1, <1>2, <1>3, <1>4 DEF PluginsNext, Undefined

(* Type correctness: the manager's lists name plugins, and every window    *)
(* that is in the stack or waits to be deleted has a vector of objects.    *)
THEOREM PluginsTyped == PluginsSpec => []PluginsTypeOK
<1>1. PluginsInv => PluginsTypeOK
  <2> SUFFICES ASSUME PluginsInv
               PROVE  PluginsTypeOK
    OBVIOUS
  <2>1. PluginsShape /\ storage \in Storages /\ storage.stacked \subseteq DOMAIN storage.slots
    BY DEF PluginsInv, PluginsShape, Typed
  <2>2. storage.broken \in BOOLEAN /\ storage.stacked \subseteq Windows
        /\ \A p \in PluginNames : storage.class[p].refs \in Nat
    BY <2>1, StorageParts DEF Classes
  <2> QED
    BY <2>1, <2>2 DEF PluginsShape, PluginsTypeOK
<1> QED
  BY <1>1, PluginsStart, PluginsKept, PTL DEF PluginsSpec

(* A list that is not dirty is the outcome of its own request, although    *)
(* updatePlugins asks for the option to be set once more only when it      *)
(* differs from what was requested: whatever fails is blacklisted at once. *)
THEOREM PluginsSettle == PluginsSpec => []PluginsSettled
<1>1. PluginsInv => PluginsSettled
  BY DEF PluginsInv
<1> QED
  BY <1>1, PluginsStart, PluginsKept, PTL DEF PluginsSpec

(* push and pop keep the objects for the screen in step with the list of   *)
(* running plugins, but for the plugins that fail on a window.             *)
THEOREM PluginsOnScreen == PluginsSpec => []ScreenObjects
<1>1. PluginsInv => ScreenObjects
  BY DEF PluginsInv, PluginsRight, ScreenObjects, ScreenIs
<1> QED
  BY <1>1, PluginsStart, PluginsKept, PTL DEF PluginsSpec

(* Indices are given out in the order of a list of plugins.                *)
IndexedBy(st, list) ==
  /\ Len(st.indices) = Len(list) /\ \A i \in 1 .. Len(list) : st.indices[i] = TRUE
  /\ \A q \in DOMAIN st.holder : \E i \in 1 .. Len(list) : list[i] = q
  /\ \A i \in 1 .. Len(list) :
        /\ list[i] \in DOMAIN st.holder /\ st.holder[list[i]] = i
        /\ st.class[list[i]].ready
        /\ st.class[list[i]].fresh => st.class[list[i]].index = i

(* Objects are where the list says, and only there.                        *)
FilledBy(st, list) ==
  /\ \A w \in DOMAIN st.slots : Len(st.slots[w]) >= Len(list)
  /\ \A w \in st.stacked : Len(st.slots[w]) = Len(list)
  /\ \A w \in DOMAIN st.slots : \A j \in 1 .. Len(st.slots[w]) : \A q \in PluginNames :
        st.slots[w][j] = Live(q) => j <= Len(list) /\ list[j] = q

CountsMatch(st) == \A q \in PluginNames : st.class[q].refs = Cardinality(LiveAt(st.slots, q))

Coherent(st, list) ==
  /\ Typed(st) /\ st.broken = FALSE /\ list \in Seq(PluginNames) /\ Distinct(list)
  /\ IndexedBy(st, list) /\ FilledBy(st, list) /\ CountsMatch(st)

LEMMA IndexKept ==
  ASSUME NEW st, NEW u, NEW list, IndexedBy(st, list),
         u.indices = st.indices /\ u.holder = st.holder,
         \A j \in 1 .. Len(list) : /\ u.class[list[j]].ready = st.class[list[j]].ready
                                   /\ u.class[list[j]].fresh = st.class[list[j]].fresh
                                   /\ u.class[list[j]].index = st.class[list[j]].index
  PROVE  IndexedBy(u, list)
<1>1. /\ Len(u.indices) = Len(list)
      /\ \A j \in 1 .. Len(list) : u.indices[j] = TRUE
      /\ \A q \in DOMAIN u.holder : \E j \in 1 .. Len(list) : list[j] = q
  BY DEF IndexedBy
<1>2. ASSUME NEW j \in 1 .. Len(list)
      PROVE  /\ list[j] \in DOMAIN u.holder /\ u.holder[list[j]] = j
             /\ u.class[list[j]].ready
             /\ u.class[list[j]].fresh => u.class[list[j]].index = j
  <2> DEFINE q == list[j]
  <2>1. q \in DOMAIN st.holder /\ st.holder[q] = j /\ st.class[q].ready
        /\ (st.class[q].fresh => st.class[q].index = j)
    BY DEF IndexedBy
  <2>2. u.class[q].ready = st.class[q].ready /\ u.class[q].fresh = st.class[q].fresh
        /\ u.class[q].index = st.class[q].index
    OBVIOUS
  <2> HIDE DEF q
  <2>3. q \in DOMAIN u.holder /\ u.holder[q] = j /\ u.class[q].ready
        /\ (u.class[q].fresh => u.class[q].index = j)
    BY <2>1, <2>2, Zenon
  <2> QED
    BY <2>3 DEF q
<1> QED
  BY <1>1, <1>2 DEF IndexedBy

LEMMA CoherentTypes ==
  ASSUME NEW st, NEW list, Coherent(st, list)
  PROVE  /\ st \in Storages /\ Typed(st) /\ list \in Seq(PluginNames) /\ Len(list) \in Nat
         /\ st.broken = FALSE /\ st.stacked \subseteq DOMAIN st.slots
         /\ \A i \in 1 .. Len(list) : list[i] \in PluginNames
         /\ \A w \in DOMAIN st.slots : Len(st.slots[w]) \in Nat /\ Len(list) <= Len(st.slots[w])
         /\ \A w \in DOMAIN st.slots : st.slots[w] \in Seq(Objects)
<1>1. st \in Storages /\ Typed(st) /\ st.stacked \subseteq DOMAIN st.slots /\ st.broken = FALSE
  BY DEF Coherent, Typed
<1>2. list \in Seq(PluginNames) /\ Len(list) \in Nat
      /\ \A i \in 1 .. Len(list) : list[i] \in PluginNames
  BY DEF Coherent
<1>3. \A w \in DOMAIN st.slots : st.slots[w] \in Seq(Objects)
  BY <1>1, StorageParts, VectorsAre
<1>4. \A w \in DOMAIN st.slots : Len(st.slots[w]) \in Nat /\ Len(list) <= Len(st.slots[w])
  BY <1>2, <1>3 DEF Coherent, FilledBy
<1> QED
  BY <1>1, <1>2, <1>3, <1>4

(* get of a plugin that has an index                                       *)
FoundOld(t, st, list, i) ==
  /\ Coherent(t, list) /\ t.slots = st.slots /\ t.stacked = st.stacked
  /\ t.class[list[i]].index = i

LEMMA FoundOldIs ==
  ASSUME NEW st, NEW list, Coherent(st, list), NEW i \in 1 .. Len(list)
  PROVE  FoundOld(Located(st, list[i]), st, list, i)
<1> DEFINE q == list[i]
           u == Located(st, q)
<1>1. st \in Storages /\ Typed(st) /\ q \in PluginNames /\ st.broken = FALSE
  BY CoherentTypes
<1>2. /\ st.class[q].ready /\ q \in DOMAIN st.holder /\ st.holder[q] = i
      /\ st.class[q].fresh => st.class[q].index = i
  BY DEF Coherent, IndexedBy
<1>6. q = list[i]
  OBVIOUS
<1> HIDE DEF q
<1>3. LocatedOld(u, st, q)
  BY <1>1, <1>2, LocatedOldIs
<1>4. Typed(u)
  BY <1>1, LocatedTyped
<1> HIDE DEF u
<1>5. /\ u.indices = st.indices /\ u.stacked = st.stacked /\ u.holder = st.holder
      /\ u.broken = FALSE /\ u.slots = st.slots
      /\ \A x \in PluginNames \ {q} : u.class[x] = st.class[x]
      /\ u.class[q].refs = st.class[q].refs /\ u.class[q].ready = TRUE /\ u.class[q].index = i
  BY <1>1, <1>2, <1>3 DEF LocatedOld
<1>7. IndexedBy(u, list)
  <2>1. ASSUME NEW j \in 1 .. Len(list)
        PROVE  u.class[list[j]].ready /\ (u.class[list[j]].fresh => u.class[list[j]].index = j)
    <3>1. CASE list[j] = q
      <4>1. j = i
        BY <1>6, <3>1 DEF Coherent, Distinct
      <4> QED
        BY <1>5, <1>6, <4>1
    <3>2. CASE list[j] # q
      <4>1. u.class[list[j]] = st.class[list[j]]
        BY <1>5, <3>2, CoherentTypes
      <4> QED
        BY <4>1 DEF Coherent, IndexedBy
    <3> QED
      BY <3>1, <3>2
  <2> QED
    BY <1>5, <2>1 DEF Coherent, IndexedBy
<1>8. FilledBy(u, list)
  BY <1>5 DEF Coherent, FilledBy
<1>9. CountsMatch(u)
  BY <1>5 DEF Coherent, CountsMatch
<1>10. Coherent(u, list)
  BY <1>4, <1>5, <1>7, <1>8, <1>9 DEF Coherent
<1> QED
  BY <1>5, <1>6, <1>10 DEF FoundOld, u, q

(* get of a plugin that has none, while every window is in the stack       *)
FoundNew(t, st, list, q) ==
  /\ Coherent(t, Append(list, q)) /\ t.stacked = st.stacked /\ DOMAIN t.slots = DOMAIN st.slots
  /\ t.class[q].index = Len(list) + 1
  /\ \A w \in DOMAIN st.slots :
        /\ \A j \in 1 .. Len(list) : t.slots[w][j] = st.slots[w][j]
        /\ t.slots[w][Len(list) + 1] = Null

LEMMA NextIndex ==
  ASSUME NEW st, NEW list, Coherent(st, list)
  PROVE  FirstFree(st) = Len(list) + 1 /\ FirstFree(st) \notin DOMAIN st.indices
<1>1. st \in Storages /\ st.indices \in Seq(BOOLEAN) /\ Len(list) \in Nat
  BY CoherentTypes, StorageParts
<1>2. Len(st.indices) = Len(list) /\ \A i \in 1 .. Len(list) : st.indices[i]
  BY DEF Coherent, IndexedBy
<1>3. /\ FirstFree(st) \in 1 .. Len(st.indices) + 1
      /\ FirstFree(st) \in DOMAIN st.indices => ~ st.indices[FirstFree(st)]
  BY <1>1, FreeIndicesAre DEF FirstFree
<1>4. DOMAIN st.indices = 1 .. Len(list)
  BY <1>1, <1>2
<1> QED
  BY <1>1, <1>2, <1>3, <1>4

LEMMA FoundNewIs ==
  ASSUME NEW st, NEW list, Coherent(st, list), NEW q \in PluginNames,
         q \notin ToSet(list), DOMAIN st.slots = st.stacked
  PROVE  FoundNew(Located(st, q), st, list, q)
<1> DEFINE u == Located(st, q)
           more == Append(list, q)
           size == Len(list)
<1>1. st \in Storages /\ Typed(st) /\ st.broken = FALSE /\ list \in Seq(PluginNames) /\ size \in Nat
  BY CoherentTypes
<1>2. /\ more \in Seq(PluginNames) /\ Len(more) = size + 1
      /\ more[size + 1] = q /\ \A i \in 1 .. size : more[i] = list[i]
  BY <1>1, MembersOfAppend
<1>3. Distinct(more)
  BY <1>1, AppendOfDistinct DEF Coherent
<1>4. \A i \in 1 .. size : list[i] # q
  BY <1>1, MembersOf
<1>5. q \notin DOMAIN st.holder /\ ~ st.class[q].ready
  BY <1>1, <1>4 DEF Coherent, IndexedBy, Typed
<1>6. LocatedNew(u, st, q)
  BY <1>1, <1>5, LocatedNewIs
<1>7. Typed(u)
  BY <1>1, LocatedTyped
<1>8. FirstFree(st) = size + 1 /\ FirstFree(st) \notin DOMAIN st.indices
  BY NextIndex
<1> HIDE DEF u, more, size
<1>9. /\ u.stacked = st.stacked /\ u.broken = FALSE /\ DOMAIN u.slots = DOMAIN st.slots
      /\ u.indices = Append(st.indices, TRUE)
      /\ \A w \in DOMAIN st.slots : u.slots[w] = Resized(st.slots[w], Len(u.indices))
  BY <1>1, <1>6, <1>8 DEF LocatedNew
<1>10. /\ \A x \in PluginNames : u.class[x].refs = st.class[x].refs
       /\ \A x \in PluginNames \ {q} : u.class[x].ready = st.class[x].ready
                                       /\ u.class[x].fresh = FALSE
       /\ u.class[q].ready /\ u.class[q].index = size + 1
       /\ DOMAIN u.holder = DOMAIN st.holder \cup {q} /\ u.holder[q] = size + 1
       /\ \A x \in DOMAIN st.holder \ {q} : u.holder[x] = st.holder[x]
  BY <1>5, <1>6, <1>8 DEF LocatedNew
<1>11. /\ Len(u.indices) = size + 1 /\ \A i \in 1 .. size + 1 : u.indices[i] = TRUE
  <2>1. st.indices \in Seq(BOOLEAN)
    BY <1>1, StorageParts
  <2>2. Len(st.indices) = size /\ \A i \in 1 .. size : st.indices[i] = TRUE
    BY DEF Coherent, IndexedBy, size
  <2> QED
    BY <1>9, <2>1, <2>2
<1>12. ASSUME NEW w \in DOMAIN st.slots
       PROVE  /\ Len(u.slots[w]) = size + 1 /\ Len(st.slots[w]) = size
              /\ \A j \in 1 .. size : u.slots[w][j] = st.slots[w][j]
              /\ u.slots[w][size + 1] = Null
  <2> DEFINE vec == st.slots[w]
             k == size + 1
  <2>1. vec \in Seq(Objects)
    BY CoherentTypes
  <2>2. Len(vec) = size
    BY DEF Coherent, FilledBy, size
  <2>3. u.slots[w] = Resized(vec, k)
    BY <1>9, <1>11
  <2>4. k \in Nat
    BY <1>1
  <2> HIDE DEF vec, k
  <2>5. /\ Len(Resized(vec, k)) = k
        /\ \A i \in 1 .. k : Resized(vec, k)[i] = IF i =< Len(vec) THEN vec[i] ELSE Null
    BY <2>1, <2>4, ResizedIs
  <2>6. /\ Len(u.slots[w]) = size + 1
        /\ \A i \in 1 .. size + 1 : u.slots[w][i] = IF i =< size THEN vec[i] ELSE Null
    BY <2>2, <2>3, <2>5 DEF k
  <2>7. \A j \in 1 .. size : u.slots[w][j] = vec[j]
    BY <1>1, <2>6
  <2>8. u.slots[w][size + 1] = Null
    BY <1>1, <2>6
  <2> QED
    BY <2>2, <2>6, <2>7, <2>8 DEF vec
<1>13. IndexedBy(u, more)
  <2>1. ASSUME NEW j \in 1 .. size + 1
        PROVE  /\ more[j] \in DOMAIN u.holder /\ u.holder[more[j]] = j
               /\ u.class[more[j]].ready
               /\ u.class[more[j]].fresh => u.class[more[j]].index = j
    <3>1. CASE j = size + 1
      BY <1>2, <1>10, <3>1
    <3>2. CASE j # size + 1
      <4>1. j \in 1 .. size
        BY <1>1, <3>2
      <4>2. more[j] = list[j] /\ list[j] \in PluginNames \ {q}
        BY <1>2, <1>4, <4>1, CoherentTypes DEF size
      <4>3. list[j] \in DOMAIN st.holder /\ st.holder[list[j]] = j /\ st.class[list[j]].ready
        BY <4>1 DEF Coherent, IndexedBy, size
      <4> QED
        BY <1>10, <4>2, <4>3
    <3> QED
      BY <3>1, <3>2
  <2>2. ASSUME NEW x \in DOMAIN u.holder
        PROVE  \E i \in 1 .. size + 1 : more[i] = x
    <3>1. CASE x = q
      BY <1>1, <1>2, <3>1
    <3>2. CASE x # q
      <4>1. PICK i \in 1 .. size : list[i] = x
        BY <1>10, <3>2 DEF Coherent, IndexedBy, size
      <4>2. i \in 1 .. size + 1
        BY <1>1
      <4> QED
        BY <1>2, <4>1, <4>2
    <3> QED
      BY <3>1, <3>2
  <2> QED
    BY <1>2, <1>11, <2>1, <2>2 DEF IndexedBy
<1>14. FilledBy(u, more)
  <2>1. \A w \in DOMAIN u.slots : Len(u.slots[w]) = Len(more)
    BY <1>2, <1>9, <1>12
  <2>2. ASSUME NEW w \in DOMAIN u.slots, NEW j \in 1 .. Len(u.slots[w]), NEW x \in PluginNames,
               u.slots[w][j] = Live(x)
        PROVE  j <= Len(more) /\ more[j] = x
    <3>1. Live(x) # Null
      BY ObjectsAre
    <3>2. w \in DOMAIN st.slots /\ Len(u.slots[w]) = size + 1
      BY <1>9, <1>12
    <3>3. j \in 1 .. size
      BY <1>1, <1>12, <2>2, <3>1, <3>2
    <3>4. st.slots[w][j] = Live(x) /\ j \in 1 .. Len(st.slots[w])
      BY <1>12, <2>2, <3>2, <3>3
    <3>5. list[j] = x
      BY <3>2, <3>4 DEF Coherent, FilledBy
    <3> QED
      BY <1>1, <1>2, <3>3, <3>5
  <2>3. Len(more) \in Nat /\ \A w \in u.stacked : w \in DOMAIN u.slots
    BY <1>1, <1>2, <1>9
  <2> QED
    BY <2>1, <2>2, <2>3 DEF FilledBy
<1>15. CountsMatch(u)
  <2> SUFFICES ASSUME NEW x \in PluginNames
               PROVE  u.class[x].refs = Cardinality(LiveAt(u.slots, x))
    BY DEF CountsMatch
  <2>1. Live(x) # Null
    BY ObjectsAre
  <2>2. ASSUME NEW w \in DOMAIN st.slots, NEW j
        PROVE  <<w, j>> \in LiveAt(u.slots, x) <=> <<w, j>> \in LiveAt(st.slots, x)
    <3>1. <<w, j>> \in LiveAt(u.slots, x) <=> j \in 1 .. size + 1 /\ u.slots[w][j] = Live(x)
      BY <1>9, <1>12, InLive
    <3>2. <<w, j>> \in LiveAt(st.slots, x) <=> j \in 1 .. size /\ st.slots[w][j] = Live(x)
      BY <1>12, InLive
    <3>3. j \in 1 .. size + 1 <=> j \in 1 .. size \/ j = size + 1
      BY <1>1
    <3> QED
      BY <1>1, <1>12, <2>1, <3>1, <3>2, <3>3
  <2>3. LiveAt(u.slots, x) = LiveAt(st.slots, x)
    <3>1. \A y \in LiveAt(u.slots, x) \cup LiveAt(st.slots, x) :
             \E w \in DOMAIN st.slots : \E j : y = <<w, j>>
      BY <1>9, InLive
    <3>2. \A y : y \in LiveAt(u.slots, x) <=> y \in LiveAt(st.slots, x)
      BY <2>2, <3>1
    <3> QED
      BY <3>2
  <2> QED
    BY <1>10, <2>3 DEF Coherent, CountsMatch
<1>16. Coherent(u, more)
  BY <1>2, <1>3, <1>7, <1>9, <1>13, <1>14, <1>15 DEF Coherent
<1> QED
  BY <1>9, <1>10, <1>12, <1>16 DEF FoundNew, u, more, size

(* An object is made in an empty slot of its plugin.                       *)
SlotFilled(t, st, list, w, i, o) ==
  /\ Coherent(t, list) /\ t.stacked = st.stacked /\ SlotSet(t.slots, st.slots, w, i, o)

LEMMA LiveAfterSlot ==
  ASSUME NEW st, NEW list, Coherent(st, list), NEW t, NEW w \in DOMAIN st.slots,
         NEW i \in 1 .. Len(list), NEW o,
         SlotSet(t, st.slots, w, i, o), NEW q \in PluginNames
  PROVE  LiveSet(t, st.slots, w, i, o, q)
<1> DEFINE sl == st.slots
<1>1. Len(sl[w]) \in Nat /\ Len(list) <= Len(sl[w]) /\ Len(list) \in Nat
  BY CoherentTypes
<1>2. w \in DOMAIN sl /\ i \in 1 .. Len(sl[w]) /\ SlotSet(t, sl, w, i, o)
  BY <1>1
<1> HIDE DEF sl
<1>3. LiveSet(t, sl, w, i, o, q)
  BY <1>1, <1>2, LiveAfterSet
<1> QED
  BY <1>3 DEF sl

LEMMA FilledAfterSlot ==
  ASSUME NEW st, NEW list, Coherent(st, list), NEW t, NEW w \in DOMAIN st.slots,
         NEW i \in 1 .. Len(list), NEW o \in {Live(list[i]), Dead(list[i])},
         SlotSet(t.slots, st.slots, w, i, o), t.stacked = st.stacked
  PROVE  FilledBy(t, list)
<1>0. \A q \in PluginNames : o = Live(q) => list[i] = q
  BY DEF Live, Dead
<1>1. /\ DOMAIN t.slots = DOMAIN st.slots
      /\ \A x \in DOMAIN st.slots \ {w} : t.slots[x] = st.slots[x]
      /\ Len(t.slots[w]) = Len(st.slots[w])
      /\ \A j \in 1 .. Len(st.slots[w]) : t.slots[w][j] = IF j = i THEN o ELSE st.slots[w][j]
  BY DEF SlotSet
<1>2. \A x \in DOMAIN st.slots : Len(t.slots[x]) = Len(st.slots[x])
  BY <1>1
<1>4. /\ \A x \in DOMAIN st.slots : Len(st.slots[x]) >= Len(list)
      /\ \A x \in st.stacked : x \in DOMAIN st.slots /\ Len(st.slots[x]) = Len(list)
  BY CoherentTypes DEF Coherent, FilledBy
<1>5. \A x \in DOMAIN st.slots : \A j \in 1 .. Len(st.slots[x]) : \A q \in PluginNames :
        st.slots[x][j] = Live(q) => j <= Len(list) /\ list[j] = q
  BY DEF Coherent, FilledBy
<1>3. ASSUME NEW x \in DOMAIN t.slots, NEW j \in 1 .. Len(t.slots[x]), NEW q \in PluginNames,
             t.slots[x][j] = Live(q)
      PROVE  j <= Len(list) /\ list[j] = q
  <2>1. CASE x = w /\ j = i
    BY <1>0, <1>1, <1>3, <2>1, CoherentTypes
  <2>2. CASE ~ (x = w /\ j = i)
    <3>1. t.slots[x][j] = st.slots[x][j] /\ j \in 1 .. Len(st.slots[x])
      BY <1>1, <1>2, <2>2
    <3> QED
      <4>1. x \in DOMAIN st.slots /\ st.slots[x][j] = Live(q)
        BY <1>1, <1>3, <3>1
      <4> QED
        BY <1>5, <3>1, <4>1
  <2> QED
    BY <2>1, <2>2
<1> QED
  BY <1>1, <1>2, <1>3, <1>4 DEF FilledBy

LEMMA SlotMade ==
  ASSUME NEW st, NEW list, Coherent(st, list), NEW i \in 1 .. Len(list),
         NEW w \in DOMAIN st.slots, st.class[list[i]].index = i, st.slots[w][i] = Null
  PROVE  SlotFilled(Construct(st, list[i], w), st, list, w, i, Live(list[i]))
<1> DEFINE me == list[i]
           u == Construct(st, me, w)
<1>1. st \in Storages /\ Typed(st) /\ me \in PluginNames
  BY CoherentTypes
<1>2. st.class[me].index = i
  OBVIOUS
<1>12. i \in 1 .. Len(st.slots[w])
  <2>1. Len(list) \in Nat /\ Len(st.slots[w]) \in Nat /\ Len(list) <= Len(st.slots[w])
    BY CoherentTypes
  <2> QED
    BY <2>1
<1>0. me = list[i]
  OBVIOUS
<1> HIDE DEF me
<1>3. Stepped(u, st) /\ Constructed(u, st, me, w)
  BY <1>1, <1>2, <1>12, ConstructStepped
<1> HIDE DEF u
<1>4. SlotSet(u.slots, st.slots, w, i, Live(me))
  BY <1>2, <1>3 DEF Constructed, SlotSet
<1>5. /\ u.indices = st.indices /\ u.stacked = st.stacked /\ u.holder = st.holder
      /\ u.broken = st.broken /\ \A x \in PluginNames \ {me} : u.class[x] = st.class[x]
      /\ u.class[me].index = st.class[me].index /\ u.class[me].refs = st.class[me].refs + 1
      /\ u.class[me].ready = st.class[me].ready /\ u.class[me].fresh = st.class[me].fresh
  BY <1>3 DEF Constructed
<1>6. IndexedBy(u, list)
  <2>1. \A x \in PluginNames : /\ u.class[x].ready = st.class[x].ready
                               /\ u.class[x].fresh = st.class[x].fresh
                               /\ u.class[x].index = st.class[x].index
    BY <1>5
  <2>2. \A j \in 1 .. Len(list) : list[j] \in PluginNames
    BY CoherentTypes
  <2>3. IndexedBy(st, list)
    BY DEF Coherent
  <2>4. \A j \in 1 .. Len(list) : /\ u.class[list[j]].ready = st.class[list[j]].ready
                                  /\ u.class[list[j]].fresh = st.class[list[j]].fresh
                                  /\ u.class[list[j]].index = st.class[list[j]].index
    BY <2>1, <2>2
  <2>5. u.indices = st.indices /\ u.holder = st.holder
    BY <1>5
  <2> QED
    BY <2>3, <2>4, <2>5, IndexKept
<1>8. FilledBy(u, list)
  <2>1. u.stacked = st.stacked
    BY <1>5
  <2> QED
    BY <1>0, <1>4, <2>1, FilledAfterSlot
<1>9. CountsMatch(u)
  <2> SUFFICES ASSUME NEW x \in PluginNames
               PROVE  u.class[x].refs = Cardinality(LiveAt(u.slots, x))
    BY DEF CountsMatch
  <2>1. Live(x) # Null
    BY ObjectsAre
  <2>2. <<w, i>> \notin LiveAt(st.slots, x)
    BY <2>1, InLive
  <2>3. LiveSet(u.slots, st.slots, w, i, Live(me), x)
    BY <1>4, LiveAfterSlot
  <2>4. st.class[x].refs = Cardinality(LiveAt(st.slots, x)) /\ IsFiniteSet(LiveAt(st.slots, x))
    BY <1>1, CountsOfTyped DEF Coherent, CountsMatch
  <2>5. CASE x = me
    <3>1. LiveAt(u.slots, x) = LiveAt(st.slots, x) \cup {<<w, i>>}
      BY <2>3, <2>5 DEF LiveSet
    <3> QED
      BY <1>5, <2>2, <2>4, <2>5, <3>1, FS_AddElement
  <2>6. CASE x # me
    <3>1. Live(me) # Live(x)
      BY <2>6 DEF Live
    <3>2. LiveAt(u.slots, x) = LiveAt(st.slots, x)
      BY <2>2, <2>3, <3>1 DEF LiveSet
    <3> QED
      BY <1>5, <2>4, <2>6, <3>2
  <2> QED
    BY <2>5, <2>6
<1>10. Coherent(u, list)
  BY <1>3, <1>5, <1>6, <1>8, <1>9 DEF Coherent, Stepped
<1> QED
  BY <1>4, <1>5, <1>10 DEF SlotFilled, u, me

LEMMA SlotUnmade ==
  ASSUME NEW st, NEW list, Coherent(st, list), NEW i \in 1 .. Len(list),
         NEW w \in DOMAIN st.slots, st.class[list[i]].index = i,
         st.slots[w][i] = Live(list[i]),
         NEW other \in DOMAIN st.slots \ {w}, st.slots[other][i] = Live(list[i])
  PROVE  SlotFilled(Destruct(st, list[i], w), st, list, w, i, Dead(list[i]))
<1> DEFINE me == list[i]
           u == Destruct(st, me, w)
<1>0. me = list[i]
  OBVIOUS
<1>1. st \in Storages /\ Typed(st) /\ me \in PluginNames
  BY CoherentTypes
<1>2. st.class[me].index = i /\ st.slots[w][i] = Live(me) /\ st.slots[other][i] = Live(me)
  OBVIOUS
<1>3. \A x \in DOMAIN st.slots : i \in 1 .. Len(st.slots[x])
  <2>1. Len(list) \in Nat
        /\ \A x \in DOMAIN st.slots : Len(st.slots[x]) \in Nat /\ Len(list) <= Len(st.slots[x])
    BY CoherentTypes
  <2> QED
    BY <2>1
<1> HIDE DEF me
<1>4. <<w, i>> \in LiveAt(st.slots, me) /\ <<other, i>> \in LiveAt(st.slots, me)
  BY <1>2, <1>3, InLive
<1>5. IsFiniteSet(LiveAt(st.slots, me)) /\ st.class[me].refs = Cardinality(LiveAt(st.slots, me))
      /\ st.class[me].refs # 0
  BY <1>1, <1>4, CountsOfTyped DEF Coherent, CountsMatch
<1>6. st.class[me].refs # 1
  <2>1. SUFFICES ASSUME st.class[me].refs = 1
                 PROVE  FALSE
    OBVIOUS
  <2>2. PICK y : LiveAt(st.slots, me) = {y}
    BY <1>5, <2>1, FS_Singleton
  <2>3. <<w, i>> = <<other, i>>
    BY <1>4, <2>2
  <2> QED
    BY <2>3
<1>7. PICK s : /\ Marked(s, st, me, w)
               /\ st.class[me].refs # 1 => u = s
               /\ st.class[me].refs = 1 => Freed(u, s, me, st.class[me].index)
  BY <1>1, <1>2, <1>3, <1>5, DestructIs
<1> HIDE DEF u
<1>8. Marked(u, st, me, w)
  BY <1>6, <1>7
<1>9. Typed(u) /\ SlotSet(u.slots, st.slots, w, i, Dead(me))
  BY <1>1, <1>2, <1>3, <1>8, MarkedTyped
<1>10. /\ u.indices = st.indices /\ u.stacked = st.stacked /\ u.holder = st.holder
       /\ u.broken = st.broken /\ \A x \in PluginNames \ {me} : u.class[x] = st.class[x]
       /\ u.class[me].index = st.class[me].index /\ u.class[me].refs = st.class[me].refs - 1
       /\ u.class[me].ready = st.class[me].ready /\ u.class[me].fresh = st.class[me].fresh
  BY <1>8 DEF Marked
<1>11. IndexedBy(u, list)
  <2>1. \A x \in PluginNames : /\ u.class[x].ready = st.class[x].ready
                               /\ u.class[x].fresh = st.class[x].fresh
                               /\ u.class[x].index = st.class[x].index
    BY <1>10
  <2>2. \A j \in 1 .. Len(list) : list[j] \in PluginNames
    BY CoherentTypes
  <2>3. IndexedBy(st, list)
    BY DEF Coherent
  <2>4. \A j \in 1 .. Len(list) : /\ u.class[list[j]].ready = st.class[list[j]].ready
                                  /\ u.class[list[j]].fresh = st.class[list[j]].fresh
                                  /\ u.class[list[j]].index = st.class[list[j]].index
    BY <2>1, <2>2
  <2>5. u.indices = st.indices /\ u.holder = st.holder
    BY <1>10
  <2> QED
    BY <2>3, <2>4, <2>5, IndexKept
<1>12. FilledBy(u, list)
  <2>1. u.stacked = st.stacked
    BY <1>10
  <2> QED
    BY <1>0, <1>9, <2>1, FilledAfterSlot
<1>13. CountsMatch(u)
  <2> SUFFICES ASSUME NEW x \in PluginNames
               PROVE  u.class[x].refs = Cardinality(LiveAt(u.slots, x))
    BY DEF CountsMatch
  <2>1. Dead(me) # Live(x)
    BY ObjectsAre DEF Live, Dead
  <2>2. LiveSet(u.slots, st.slots, w, i, Dead(me), x)
    BY <1>9, LiveAfterSlot
  <2>3. LiveAt(u.slots, x) = LiveAt(st.slots, x) \ {<<w, i>>}
    BY <2>1, <2>2 DEF LiveSet
  <2>4. st.class[x].refs = Cardinality(LiveAt(st.slots, x)) /\ IsFiniteSet(LiveAt(st.slots, x))
    BY <1>1, CountsOfTyped DEF Coherent, CountsMatch
  <2>5. CASE x = me
    BY <1>4, <1>10, <2>3, <2>4, <2>5, FS_RemoveElement
  <2>6. CASE x # me
    <3>1. <<w, i>> \notin LiveAt(st.slots, x)
      <4>1. Live(me) # Live(x)
        BY <2>6 DEF Live
      <4> QED
        BY <1>2, <4>1, InLive
    <3>2. LiveAt(u.slots, x) = LiveAt(st.slots, x)
      BY <2>3, <3>1
    <3> QED
      BY <1>10, <2>4, <2>6, <3>2
  <2> QED
    BY <2>5, <2>6
<1>14. Coherent(u, list)
  BY <1>9, <1>10, <1>11, <1>12, <1>13 DEF Coherent
<1> QED
  BY <1>9, <1>10, <1>14 DEF SlotFilled, u, me

(* The last object of the plugin with the last index is gone.              *)
ListShrunk(t, st, list) ==
  /\ Coherent(t, Front(list)) /\ t.stacked = st.stacked /\ DOMAIN t.slots = DOMAIN st.slots
  /\ \A x \in DOMAIN st.slots : \A j \in 1 .. Len(list) - 1 : t.slots[x][j] = st.slots[x][j]

LEMMA LastSlotUnmade ==
  ASSUME NEW st, NEW list, Coherent(st, list), NEW i, i = Len(list), i # 0,
         NEW w \in DOMAIN st.slots, st.class[list[i]].index = i,
         st.slots[w][i] = Live(list[i]),
         \A x \in DOMAIN st.slots \ {w} : st.slots[x][i] # Live(list[i])
  PROVE  ListShrunk(Destruct(st, list[i], w), st, list)
<1> DEFINE me == list[i]
           u == Destruct(st, me, w)
           less == Front(list)
<1>0. i \in 1 .. Len(list) /\ i \in Nat
  BY CoherentTypes
<1>1. st \in Storages /\ Typed(st) /\ me \in PluginNames /\ list \in Seq(PluginNames)
      /\ st.broken = FALSE
  BY <1>0, CoherentTypes
<1>2. /\ st.class[me].index = i /\ st.slots[w][i] = Live(me) /\ list[i] = me
      /\ \A x \in DOMAIN st.slots \ {w} : st.slots[x][i] # Live(me)
  OBVIOUS
<1>3. /\ less \in Seq(PluginNames) /\ Len(less) = i - 1
      /\ \A j \in 1 .. i - 1 : less[j] = list[j]
      /\ Distinct(less)
  BY <1>1, FrontOfDistinct DEF Coherent
<1>4. \A x \in DOMAIN st.slots : i \in 1 .. Len(st.slots[x])
  <2>1. \A x \in DOMAIN st.slots : Len(st.slots[x]) \in Nat /\ i <= Len(st.slots[x])
    BY CoherentTypes
  <2> QED
    BY <1>0, <2>1
<1>5. \A j \in 1 .. i - 1 : list[j] # me /\ list[j] \in PluginNames
  <2>1. ASSUME NEW j \in 1 .. i - 1
        PROVE  list[j] # me /\ list[j] \in PluginNames
    <3>1. j \in 1 .. Len(list) /\ j # i
      BY <1>0
    <3> QED
      BY <1>0, <1>2, <3>1, CoherentTypes DEF Coherent, Distinct
  <2> QED
    BY <2>1
<1>40. /\ st.indices \in Seq(BOOLEAN) /\ Len(st.indices) = i
       /\ \A j \in 1 .. i : st.indices[j] = TRUE
       /\ \A q \in DOMAIN st.holder : \E j \in 1 .. i : list[j] = q
       /\ \A j \in 1 .. i : list[j] \in DOMAIN st.holder /\ st.holder[list[j]] = j
                            /\ st.class[list[j]].ready
  BY <1>1, StorageParts DEF Coherent, IndexedBy
<1>41. /\ \A x \in st.stacked : x \in DOMAIN st.slots /\ Len(st.slots[x]) = i
       /\ \A x \in DOMAIN st.slots : \A j \in 1 .. Len(st.slots[x]) : \A q \in PluginNames :
             st.slots[x][j] = Live(q) => j <= i /\ list[j] = q
  <2>1. FilledBy(st, list)
    BY DEF Coherent
  <2> HIDE DEF me, less, u
  <2>2. \A x \in st.stacked : x \in DOMAIN st.slots /\ Len(st.slots[x]) = i
    BY <2>1, CoherentTypes DEF FilledBy
  <2>3. \A x \in DOMAIN st.slots : \A j \in 1 .. Len(st.slots[x]) : \A q \in PluginNames :
           st.slots[x][j] = Live(q) => j <= i /\ list[j] = q
    BY <2>1, CoherentTypes DEF FilledBy
  <2> QED
    BY <2>2, <2>3
<1> HIDE DEF me, less
<1>6. LiveAt(st.slots, me) = {<<w, i>>}
  <2>1. <<w, i>> \in LiveAt(st.slots, me)
    BY <1>2, <1>4, InLive
  <2>2. ASSUME NEW y \in LiveAt(st.slots, me)
        PROVE  y = <<w, i>>
    <3>1. PICK x \in DOMAIN st.slots : \E j \in 1 .. Len(st.slots[x]) : y = <<x, j>>
      BY InLive
    <3>2. PICK j \in 1 .. Len(st.slots[x]) : y = <<x, j>>
      BY <3>1
    <3>3. st.slots[x][j] = Live(me)
      BY <2>2, <3>2, InLive
    <3>4. j <= i /\ list[j] = me /\ j \in Nat
      BY <1>1, <1>41, <3>3
    <3>5. j = i
      BY <1>0, <1>5, <3>4
    <3>6. x = w
      BY <1>2, <3>3, <3>5
    <3> QED
      BY <3>2, <3>5, <3>6
  <2> QED
    BY <2>1, <2>2
<1>7. st.class[me].refs = 1
  BY <1>1, <1>6, FS_Singleton DEF Coherent, CountsMatch
<1>8. PICK s : /\ Marked(s, st, me, w)
               /\ st.class[me].refs # 1 => u = s
               /\ st.class[me].refs = 1 => Freed(u, s, me, st.class[me].index)
  BY <1>1, <1>2, <1>4, <1>7, DestructIs
<1> HIDE DEF u
<1>9. Marked(s, st, me, w) /\ Freed(u, s, me, i)
  BY <1>2, <1>7, <1>8
<1>42. Typed(s) /\ SlotSet(s.slots, st.slots, w, i, Dead(me))
  BY <1>1, <1>2, <1>4, <1>9, MarkedTyped
<1>10. Typed(s) /\ SlotSet(s.slots, st.slots, w, i, Dead(me)) /\ s \in Storages
  BY <1>42 DEF Typed
<1>11. Typed(u)
  BY <1>0, <1>1, <1>9, <1>10, FreedTyped
<1>12. /\ s.indices = st.indices /\ s.stacked = st.stacked /\ s.holder = st.holder
       /\ s.broken = FALSE /\ DOMAIN s.slots = DOMAIN st.slots
       /\ \A x \in PluginNames \ {me} : s.class[x] = st.class[x]
       /\ s.class[me].refs = 0
  BY <1>1, <1>7, <1>9 DEF Marked
<1>13. /\ u.stacked = st.stacked /\ u.broken = FALSE /\ DOMAIN u.slots = DOMAIN st.slots
       /\ u.indices = Front(st.indices)
       /\ \A x \in DOMAIN st.slots : u.slots[x] =
             IF x \in st.stacked THEN Resized(s.slots[x], Len(u.indices)) ELSE s.slots[x]
       /\ DOMAIN u.holder = DOMAIN st.holder \ {me}
       /\ \A q \in DOMAIN st.holder \ {me} : u.holder[q] = st.holder[q]
  BY <1>9, <1>12, <1>40 DEF Freed
<1>14. /\ \A q \in PluginNames : u.class[q].refs = s.class[q].refs /\ u.class[q].fresh = FALSE
       /\ \A q \in PluginNames \ {me} : u.class[q].ready = st.class[q].ready
                                        /\ u.class[q].refs = st.class[q].refs
       /\ u.class[me].refs = 0
  BY <1>1, <1>9, <1>12 DEF Freed
<1>15. /\ Len(u.indices) = i - 1 /\ \A j \in 1 .. i - 1 : u.indices[j] = TRUE
  <2>1. Len(Front(st.indices)) = Len(st.indices) - 1
        /\ \A j \in 1 .. Len(st.indices) - 1 : Front(st.indices)[j] = st.indices[j]
    BY <1>40, FrontOfDistinct
  <2>2. \A j \in 1 .. i - 1 : j \in 1 .. i
    BY <1>0
  <2> QED
    BY <1>13, <1>40, <2>1, <2>2
<1>16. ASSUME NEW x \in DOMAIN st.slots
       PROVE  /\ s.slots[x] \in Seq(Objects) /\ Len(s.slots[x]) = Len(st.slots[x])
              /\ \A j \in 1 .. Len(st.slots[x]) :
                    s.slots[x][j] = IF x = w /\ j = i THEN Dead(me) ELSE st.slots[x][j]
  <2>1. s.slots[x] \in Seq(Objects)
    BY <1>10, <1>12, StorageParts, VectorsAre
  <2> QED
    BY <1>10, <2>1 DEF SlotSet
<1>17. ASSUME NEW x \in DOMAIN st.slots
       PROVE  /\ Len(u.slots[x]) \in Nat /\ Len(u.slots[x]) >= i - 1
              /\ x \in st.stacked => Len(u.slots[x]) = i - 1
              /\ \A j \in 1 .. i - 1 : u.slots[x][j] = st.slots[x][j]
              /\ \A j \in 1 .. Len(u.slots[x]) : \A q \in PluginNames :
                    u.slots[x][j] = Live(q) => j <= i - 1 /\ st.slots[x][j] = Live(q)
  <2> DEFINE vec == s.slots[x]
             k == i - 1
  <2>1. vec \in Seq(Objects) /\ Len(vec) \in Nat /\ i <= Len(vec) /\ Len(vec) = Len(st.slots[x])
    BY <1>4, <1>16
  <2>2. \A j \in 1 .. Len(vec) : vec[j] = IF x = w /\ j = i THEN Dead(me) ELSE st.slots[x][j]
    BY <1>16
  <2>3. k \in Nat /\ k < i
    BY <1>0
  <2>4. \A j \in 1 .. k : j \in 1 .. Len(vec) /\ vec[j] = st.slots[x][j]
    BY <2>1, <2>2, <2>3
  <2>5. CASE x \in st.stacked
    <3>1. u.slots[x] = Resized(vec, k)
      BY <1>13, <1>15, <2>5
    <3> HIDE DEF vec, k
    <3>2. /\ Len(Resized(vec, k)) = k
          /\ \A j \in 1 .. k : Resized(vec, k)[j] = IF j =< Len(vec) THEN vec[j] ELSE Null
      BY <2>1, <2>3, ResizedIs
    <3>3. Len(u.slots[x]) = k /\ \A j \in 1 .. k : u.slots[x][j] = st.slots[x][j]
      BY <2>1, <2>4, <3>1, <3>2
    <3> QED
      BY <2>3, <3>3 DEF k
  <2>6. CASE x \notin st.stacked
    <3>1. u.slots[x] = vec
      BY <1>13, <2>6
    <3> HIDE DEF vec
    <3>2. ASSUME NEW j \in 1 .. Len(vec), NEW q \in PluginNames, vec[j] = Live(q)
          PROVE  j <= i - 1 /\ st.slots[x][j] = Live(q)
      <4>1. Dead(me) # Live(q)
        BY ObjectsAre DEF Live, Dead
      <4>2. vec[j] = st.slots[x][j] /\ ~ (x = w /\ j = i)
        BY <2>2, <3>2, <4>1
      <4>5. j \in 1 .. Len(st.slots[x]) /\ st.slots[x][j] = Live(q)
        BY <2>1, <3>2, <4>2
      <4>3. j <= i /\ list[j] = q
        BY <1>41, <4>5
      <4>4. j # i
        <5>1. SUFFICES ASSUME j = i
                       PROVE  FALSE
          OBVIOUS
        <5>2. st.slots[x][i] = Live(me) /\ x # w
          BY <1>2, <3>2, <4>2, <4>3, <5>1
        <5> QED
          BY <1>2, <5>2
      <4> QED
        BY <1>0, <3>2, <4>2, <4>3, <4>4
    <3> QED
      BY <1>0, <2>1, <2>4, <2>6, <3>1, <3>2 DEF k
  <2> QED
    BY <2>5, <2>6
<1>18. IndexedBy(u, less)
  <2>1. ASSUME NEW q \in DOMAIN u.holder
        PROVE  \E j \in 1 .. i - 1 : less[j] = q
    <3>1. PICK j \in 1 .. i : list[j] = q
      BY <1>13, <1>40
    <3>2. j # i
      BY <1>2, <1>13, <3>1
    <3>3. j \in 1 .. i - 1
      BY <1>0, <3>1, <3>2
    <3> QED
      BY <1>3, <3>1, <3>3
  <2>2. ASSUME NEW j \in 1 .. i - 1
        PROVE  /\ less[j] \in DOMAIN u.holder /\ u.holder[less[j]] = j
               /\ u.class[less[j]].ready
               /\ u.class[less[j]].fresh => u.class[less[j]].index = j
    <3>1. less[j] = list[j] /\ list[j] # me /\ list[j] \in PluginNames /\ j \in 1 .. i
      BY <1>0, <1>3, <1>5
    <3>2. list[j] \in DOMAIN st.holder /\ st.holder[list[j]] = j /\ st.class[list[j]].ready
      BY <1>40, <3>1
    <3> QED
      BY <1>13, <1>14, <3>1, <3>2
  <2> QED
    BY <1>3, <1>15, <2>1, <2>2 DEF IndexedBy
<1>19. FilledBy(u, less)
  <2>1. ASSUME NEW x \in DOMAIN u.slots, NEW j \in 1 .. Len(u.slots[x]), NEW q \in PluginNames,
               u.slots[x][j] = Live(q)
        PROVE  j <= Len(less) /\ less[j] = q
    <3>1. x \in DOMAIN st.slots /\ j <= i - 1 /\ st.slots[x][j] = Live(q) /\ j \in 1 .. i - 1
      BY <1>0, <1>13, <1>17, <2>1
    <3>2. j \in 1 .. Len(st.slots[x])
      BY <1>0, <1>4, <3>1
    <3>3. list[j] = q
      BY <1>41, <3>1, <3>2
    <3> QED
      BY <1>3, <3>1, <3>3
  <2>2. \A x \in u.stacked : x \in DOMAIN st.slots /\ x \in st.stacked
    BY <1>13, <1>41
  <2> QED
    BY <1>3, <1>13, <1>17, <2>1, <2>2 DEF FilledBy
<1>20. CountsMatch(u)
  <2> SUFFICES ASSUME NEW q \in PluginNames
               PROVE  u.class[q].refs = Cardinality(LiveAt(u.slots, q))
    BY DEF CountsMatch
  <2>1. ASSUME NEW x \in DOMAIN st.slots, NEW j
        PROVE  <<x, j>> \in LiveAt(u.slots, q) <=> j \in 1 .. i - 1 /\ st.slots[x][j] = Live(q)
    <3>1. <<x, j>> \in LiveAt(u.slots, q) <=> j \in 1 .. Len(u.slots[x]) /\ u.slots[x][j] = Live(q)
      BY <1>13, InLive
    <3>2. j \in 1 .. Len(u.slots[x]) /\ u.slots[x][j] = Live(q)
             => j \in 1 .. i - 1 /\ st.slots[x][j] = Live(q)
      BY <1>0, <1>17
    <3>3. j \in 1 .. i - 1 => j \in 1 .. Len(u.slots[x]) /\ u.slots[x][j] = st.slots[x][j]
      BY <1>0, <1>17
    <3> QED
      BY <3>1, <3>2, <3>3
  <2>2. \A y \in LiveAt(u.slots, q) : \E x \in DOMAIN st.slots : \E j : y = <<x, j>>
    BY <1>13, InLive
  <2>9. ASSUME NEW x \in DOMAIN st.slots, NEW j \in 1 .. i - 1, st.slots[x][j] = Live(q)
        PROVE  list[j] = q
    <3>1. j \in 1 .. Len(st.slots[x])
      BY <1>0, <1>4
    <3> QED
      BY <1>41, <2>9, <3>1
  <2>3. CASE q = me
    <3>1. LiveAt(u.slots, q) = {}
      <4>1. SUFFICES ASSUME NEW y \in LiveAt(u.slots, q)
                     PROVE  FALSE
        OBVIOUS
      <4>2. PICK x \in DOMAIN st.slots : \E j : y = <<x, j>>
        BY <2>2
      <4>3. PICK j : y = <<x, j>>
        BY <4>2
      <4>4. j \in 1 .. i - 1 /\ st.slots[x][j] = Live(q)
        BY <2>1, <4>3
      <4> QED
        BY <1>5, <2>3, <2>9, <4>4
    <3> QED
      BY <1>14, <2>3, <3>1, FS_EmptySet
  <2>4. CASE q # me
    <3>1. ASSUME NEW x \in DOMAIN st.slots, NEW j
          PROVE  <<x, j>> \in LiveAt(st.slots, q) <=> j \in 1 .. i - 1 /\ st.slots[x][j] = Live(q)
      <4>1. <<x, j>> \in LiveAt(st.slots, q)
               <=> j \in 1 .. Len(st.slots[x]) /\ st.slots[x][j] = Live(q)
        BY InLive
      <4>2. j \in 1 .. Len(st.slots[x]) /\ st.slots[x][j] = Live(q) => j \in 1 .. i - 1
        <5>1. ASSUME j \in 1 .. Len(st.slots[x]), st.slots[x][j] = Live(q)
              PROVE  j \in 1 .. i - 1
          <6>1. j <= i /\ list[j] = q
            BY <1>41, <5>1
          <6>2. j # i
            BY <1>2, <2>4, <6>1
          <6>3. Len(st.slots[x]) \in Nat
            BY CoherentTypes
          <6> QED
            BY <1>0, <5>1, <6>1, <6>2, <6>3
        <5> QED
          BY <5>1
      <4>3. j \in 1 .. i - 1 => j \in 1 .. Len(st.slots[x])
        BY <1>0, <1>4
      <4> QED
        BY <4>1, <4>2, <4>3
    <3>2. \A y \in LiveAt(st.slots, q) : \E x \in DOMAIN st.slots : \E j : y = <<x, j>>
      BY InLive
    <3>3. \A y : y \in LiveAt(u.slots, q) <=> y \in LiveAt(st.slots, q)
      BY <2>1, <2>2, <3>1, <3>2
    <3>4. LiveAt(u.slots, q) = LiveAt(st.slots, q)
      BY <3>3
    <3>5. st.class[q].refs = Cardinality(LiveAt(st.slots, q))
      BY DEF Coherent, CountsMatch
    <3> QED
      BY <1>14, <2>4, <3>4, <3>5
  <2> QED
    BY <2>3, <2>4
<1>21. Coherent(u, less)
  BY <1>3, <1>11, <1>13, <1>18, <1>19, <1>20 DEF Coherent
<1> QED
  BY <1>13, <1>17, <1>21 DEF ListShrunk, u, less, me

-----------------------------------------------------------------------------
(* The calls of initWindow and finiWindow.                                 *)
LEMMA InRangeOf ==
  ASSUME NEW st, NEW list, Coherent(st, list), NEW i \in 1 .. Len(list), NEW w \in DOMAIN st.slots,
         st.class[list[i]].index = i
  PROVE  InRange(st, list[i], w) /\ SlotOf(st, list[i], w) = st.slots[w][i]
<1>1. Len(list) \in Nat /\ Len(st.slots[w]) \in Nat /\ Len(list) <= Len(st.slots[w])
      /\ st.slots[w] \in Seq(Objects)
  BY CoherentTypes
<1>2. i \in DOMAIN st.slots[w]
  BY <1>1
<1> QED
  BY <1>2 DEF InRange, SlotOf

LEMMA InitKnown ==
  ASSUME NEW st, NEW list, Coherent(st, list), NEW i \in 1 .. Len(list),
         NEW w \in DOMAIN st.slots, st.slots[w][i] = Null
  PROVE  SlotFilled(InitWindow(st, list[i], w), st, list, w, i, Live(list[i]))
<1> DEFINE me == list[i]
           u == Located(st, me)
<1>1. FoundOld(u, st, list, i) /\ st.broken = FALSE
  BY FoundOldIs, CoherentTypes
<1>2. InitWindow(st, me, w) = IF st.broken THEN st ELSE IF ~ InRange(u, me, w) THEN Break(u)
          ELSE IF SlotOf(u, me, w) = Null THEN Construct(u, me, w) ELSE u
  BY DEF InitWindow
<1> HIDE DEF u
<1>3. /\ Coherent(u, list) /\ u.slots = st.slots /\ u.stacked = st.stacked
      /\ u.class[list[i]].index = i
  BY <1>1 DEF FoundOld
<1>4. InRange(u, me, w) /\ SlotOf(u, me, w) = Null
  BY <1>3, InRangeOf
<1>5. InitWindow(st, me, w) = Construct(u, list[i], w)
  BY <1>1, <1>2, <1>4
<1>6. SlotFilled(Construct(u, list[i], w), u, list, w, i, Live(list[i]))
  BY <1>3, SlotMade
<1> QED
  BY <1>3, <1>5, <1>6 DEF SlotFilled

LEMMA FiniKnown ==
  ASSUME NEW st, NEW list, Coherent(st, list), NEW i \in 1 .. Len(list),
         NEW w \in DOMAIN st.slots, st.slots[w][i] = Live(list[i])
  PROVE  /\ (\E x \in DOMAIN st.slots \ {w} : st.slots[x][i] = Live(list[i]))
               => SlotFilled(FiniWindow(st, list[i], w), st, list, w, i, Dead(list[i]))
         /\ (~ \E x \in DOMAIN st.slots \ {w} : st.slots[x][i] = Live(list[i])) /\ i = Len(list)
               => ListShrunk(FiniWindow(st, list[i], w), st, list)
<1> DEFINE me == list[i]
           u == Located(st, me)
<1>1. FoundOld(u, st, list, i) /\ st.broken = FALSE
  BY FoundOldIs, CoherentTypes
<1>2. FiniWindow(st, me, w) = IF st.broken THEN st ELSE IF ~ InRange(u, me, w) THEN Break(u)
          ELSE IF SlotOf(u, me, w) = Null THEN Destruct(Construct(u, me, w), me, w)
          ELSE IF SlotOf(u, me, w) = Live(me) THEN Destruct(u, me, w)
          ELSE Break(u)
  BY DEF FiniWindow, Live
<1> HIDE DEF u
<1>3. /\ Coherent(u, list) /\ u.slots = st.slots /\ u.stacked = st.stacked
      /\ u.class[list[i]].index = i
  BY <1>1 DEF FoundOld
<1>4. InRange(u, me, w) /\ SlotOf(u, me, w) = Live(me)
  BY <1>3, InRangeOf
<1>5. FiniWindow(st, me, w) = Destruct(u, list[i], w)
  <2>1. Live(me) # Null
    <3>1. me \in PluginNames
      BY CoherentTypes
    <3> QED
      BY <3>1, ObjectsAre
  <2> QED
    BY <1>1, <1>2, <1>4, <2>1
<1>6. ASSUME NEW x \in DOMAIN st.slots \ {w}, st.slots[x][i] = Live(list[i])
      PROVE  SlotFilled(FiniWindow(st, list[i], w), st, list, w, i, Dead(list[i]))
  <2>1. SlotFilled(Destruct(u, list[i], w), u, list, w, i, Dead(list[i]))
    BY <1>3, <1>6, SlotUnmade
  <2> QED
    BY <1>3, <1>5, <2>1 DEF SlotFilled
<1>7. ASSUME ~ \E x \in DOMAIN st.slots \ {w} : st.slots[x][i] = Live(list[i]), i = Len(list)
      PROVE  ListShrunk(FiniWindow(st, list[i], w), st, list)
  <2>1. i # 0
    OBVIOUS
  <2>2. ListShrunk(Destruct(u, list[i], w), u, list)
    BY <1>3, <1>7, <2>1, LastSlotUnmade
  <2> QED
    BY <1>3, <1>5, <2>2 DEF ListShrunk
<1> QED
  BY <1>6, <1>7

(* The first object of a plugin, on one of the windows.                    *)
ColumnBegun(t, st, list, q, w) ==
  /\ Coherent(t, Append(list, q)) /\ t.stacked = st.stacked /\ DOMAIN t.slots = DOMAIN st.slots
  /\ \A x \in DOMAIN st.slots :
        /\ \A j \in 1 .. Len(list) : t.slots[x][j] = st.slots[x][j]
        /\ t.slots[x][Len(list) + 1] = IF x = w THEN Live(q) ELSE Null

LEMMA ConstructedFirst ==
  ASSUME NEW st, NEW list, Coherent(st, list), NEW q \in PluginNames, q \notin ToSet(list),
         DOMAIN st.slots = st.stacked, NEW w \in DOMAIN st.slots
  PROVE  /\ ColumnBegun(Construct(Located(st, q), q, w), st, list, q, w)
         /\ InitWindow(st, q, w) = Construct(Located(st, q), q, w)
         /\ InitWindowFails(st, q, w) = Destruct(Construct(Located(st, q), q, w), q, w)
         /\ Construct(Located(st, q), q, w).class[q].index = Len(list) + 1
<1> DEFINE u == Located(st, q)
           more == Append(list, q)
           i == Len(list) + 1
           z == Construct(u, q, w)
<1>1. FoundNew(u, st, list, q) /\ st.broken = FALSE
  BY FoundNewIs, CoherentTypes
<1>2. list \in Seq(PluginNames) /\ Len(list) \in Nat
  BY CoherentTypes
<1>3. Len(more) = i /\ more[i] = q /\ i \in 1 .. Len(more)
  BY <1>2, MembersOfAppend
<1>4. /\ InitWindow(st, q, w) = IF st.broken THEN st ELSE IF ~ InRange(u, q, w) THEN Break(u)
          ELSE IF SlotOf(u, q, w) = Null THEN Construct(u, q, w) ELSE u
      /\ InitWindowFails(st, q, w) = IF st.broken THEN st
          ELSE IF ~ InRange(u, q, w) \/ SlotOf(u, q, w) # Null THEN Break(u)
          ELSE Destruct(Construct(u, q, w), q, w)
  BY DEF InitWindow, InitWindowFails
<1> HIDE DEF u, more, i
<1>5. /\ Coherent(u, more) /\ u.stacked = st.stacked /\ DOMAIN u.slots = DOMAIN st.slots
      /\ u.class[more[i]].index = i
      /\ \A x \in DOMAIN st.slots :
            /\ \A j \in 1 .. Len(list) : u.slots[x][j] = st.slots[x][j]
            /\ u.slots[x][i] = Null
  BY <1>1, <1>3 DEF FoundNew, more, i
<1>6. InRange(u, q, w) /\ SlotOf(u, q, w) = Null
  BY <1>3, <1>5, InRangeOf
<1>7. InitWindow(st, q, w) = z /\ InitWindowFails(st, q, w) = Destruct(z, q, w)
  BY <1>1, <1>4, <1>6
<1>8. SlotFilled(z, u, more, w, i, Live(q))
  BY <1>3, <1>5, SlotMade
<1>9. z.class[q].index = i
  <2>1. u \in Storages /\ Len(more) <= Len(u.slots[w]) /\ Len(u.slots[w]) \in Nat
    BY <1>5, CoherentTypes
  <2>4. u.class[q].index = i /\ w \in DOMAIN u.slots /\ Typed(u)
    BY <1>3, <1>5, CoherentTypes
  <2>5. i \in Nat /\ 1 <= i
    BY <1>2 DEF i
  <2>2. u.class[q].index \in 1 .. Len(u.slots[w])
    BY <1>3, <2>1, <2>4, <2>5
  <2>3. Constructed(z, u, q, w)
    BY <2>2, <2>4, ConstructStepped
  <2> QED
    BY <2>3, <2>4 DEF Constructed
<1> HIDE DEF z
<1>10. Coherent(z, more) /\ z.stacked = u.stacked /\ SlotSet(z.slots, u.slots, w, i, Live(q))
  BY <1>8 DEF SlotFilled
<1>11. ASSUME NEW x \in DOMAIN st.slots
       PROVE  /\ \A j \in 1 .. Len(list) : z.slots[x][j] = st.slots[x][j]
              /\ z.slots[x][i] = IF x = w THEN Live(q) ELSE Null
  <2>1. CASE x = w
    <3>1. \A j \in 1 .. Len(u.slots[w]) : z.slots[w][j] = IF j = i THEN Live(q) ELSE u.slots[w][j]
      BY <1>10 DEF SlotSet
    <3>2. Len(u.slots[w]) \in Nat /\ i <= Len(u.slots[w])
      BY <1>3, <1>5, CoherentTypes
    <3>3. \A j \in 1 .. Len(list) : j \in 1 .. Len(u.slots[w]) /\ j # i
      BY <1>2, <3>2 DEF i
    <3>4. i \in 1 .. Len(u.slots[w])
      BY <1>2, <3>2 DEF i
    <3> QED
      BY <1>5, <2>1, <3>1, <3>3, <3>4
  <2>2. CASE x # w
    BY <1>5, <1>10, <2>2 DEF SlotSet
  <2> QED
    BY <2>1, <2>2
<1>12. DOMAIN z.slots = DOMAIN st.slots /\ z.stacked = st.stacked
  BY <1>5, <1>10 DEF SlotSet
<1> QED
  BY <1>7, <1>9, <1>10, <1>11, <1>12 DEF ColumnBegun, z, u, more, i

LEMMA MadeIndex ==
  ASSUME NEW st, NEW list, Coherent(st, list), NEW i \in 1 .. Len(list),
         NEW w \in DOMAIN st.slots, st.class[list[i]].index = i
  PROVE  Construct(st, list[i], w).class[list[i]].index = i
<1> DEFINE me == list[i]
           z == Construct(st, me, w)
<1>1. st \in Storages /\ Typed(st) /\ me \in PluginNames
  BY CoherentTypes
<1>2. st.class[me].index = i
  OBVIOUS
<1>3. i \in 1 .. Len(st.slots[w])
  <2>1. Len(list) \in Nat /\ Len(st.slots[w]) \in Nat /\ Len(list) <= Len(st.slots[w])
    BY CoherentTypes
  <2> QED
    BY <2>1
<1> HIDE DEF me
<1>4. Constructed(z, st, me, w)
  BY <1>1, <1>2, <1>3, ConstructStepped
<1> HIDE DEF z
<1>5. z.class[me].index = st.class[me].index
  BY <1>4 DEF Constructed
<1> QED
  BY <1>2, <1>5 DEF z, me

(* An object is made and deleted while others of its plugin live.          *)
LEMMA FailsKnown ==
  ASSUME NEW st, NEW list, Coherent(st, list), NEW i \in 1 .. Len(list),
         NEW w \in DOMAIN st.slots, st.slots[w][i] = Null,
         NEW other \in DOMAIN st.slots \ {w}, st.slots[other][i] = Live(list[i])
  PROVE  SlotFilled(InitWindowFails(st, list[i], w), st, list, w, i, Dead(list[i]))
<1> DEFINE me == list[i]
           u == Located(st, me)
           z == Construct(u, list[i], w)
<1>1. FoundOld(u, st, list, i) /\ st.broken = FALSE
  BY FoundOldIs, CoherentTypes
<1>2. InitWindowFails(st, me, w) = IF st.broken THEN st
          ELSE IF ~ InRange(u, me, w) \/ SlotOf(u, me, w) # Null THEN Break(u)
          ELSE Destruct(Construct(u, me, w), me, w)
  BY DEF InitWindowFails
<1> HIDE DEF u
<1>3. /\ Coherent(u, list) /\ u.slots = st.slots /\ u.stacked = st.stacked
      /\ u.class[list[i]].index = i
  BY <1>1 DEF FoundOld
<1>4. InRange(u, me, w) /\ SlotOf(u, me, w) = Null
  BY <1>3, InRangeOf
<1>5. InitWindowFails(st, me, w) = Destruct(z, list[i], w)
  BY <1>1, <1>2, <1>4
<1>6. SlotFilled(z, u, list, w, i, Live(list[i]))
  BY <1>3, SlotMade
<1>7. z.class[list[i]].index = i
  BY <1>3, MadeIndex
<1> HIDE DEF z
<1>8. /\ Coherent(z, list) /\ z.stacked = st.stacked
      /\ SlotSet(z.slots, st.slots, w, i, Live(list[i]))
  BY <1>3, <1>6 DEF SlotFilled
<1>9. /\ DOMAIN z.slots = DOMAIN st.slots /\ z.slots[w][i] = Live(list[i])
      /\ z.slots[other][i] = Live(list[i])
  <2>1. i \in 1 .. Len(st.slots[w])
    <3>1. Len(list) \in Nat /\ Len(st.slots[w]) \in Nat /\ Len(list) <= Len(st.slots[w])
      BY CoherentTypes
    <3> QED
      BY <3>1
  <2> QED
    BY <1>8, <2>1 DEF SlotSet
<1>10. w \in DOMAIN z.slots /\ other \in DOMAIN z.slots \ {w}
  BY <1>9
<1>11. SlotFilled(Destruct(z, list[i], w), z, list, w, i, Dead(list[i]))
  BY <1>7, <1>8, <1>9, <1>10, SlotUnmade
<1> DEFINE t == Destruct(z, list[i], w)
<1> HIDE DEF t
<1>12. Coherent(t, list) /\ t.stacked = z.stacked /\ SlotSet(t.slots, z.slots, w, i, Dead(list[i]))
  BY <1>11 DEF SlotFilled, t
<1>13. SlotSet(t.slots, st.slots, w, i, Dead(list[i]))
  BY <1>8, <1>12 DEF SlotSet
<1>14. SlotFilled(t, st, list, w, i, Dead(list[i]))
  BY <1>8, <1>12, <1>13 DEF SlotFilled
<1> QED
  BY <1>5, <1>14 DEF t

(* The same slots are filled below the length of the list.                 *)
Even(t, st, list) ==
  /\ Coherent(t, list) /\ t.stacked = st.stacked /\ DOMAIN t.slots = DOMAIN st.slots
  /\ \A x \in DOMAIN st.slots : \A j \in 1 .. Len(list) : t.slots[x][j] = st.slots[x][j]

LEMMA FrontOfAppend ==
  ASSUME NEW S, NEW s \in Seq(S), NEW e \in S
  PROVE  Front(Append(s, e)) = s
<1> DEFINE more == Append(s, e)
<1>1. more \in Seq(S) /\ Len(more) = Len(s) + 1 /\ \A i \in 1 .. Len(s) : more[i] = s[i]
  BY MembersOfAppend
<1>2. Len(s) \in Nat
  OBVIOUS
<1> HIDE DEF more
<1>3. /\ Front(more) \in Seq(S) /\ Len(Front(more)) = Len(s)
      /\ \A i \in 1 .. Len(s) : Front(more)[i] = s[i]
  <2>1. Len(more) # 0 /\ Len(more) - 1 = Len(s)
    BY <1>1, <1>2
  <2>2. /\ Front(more) \in Seq(S) /\ Len(Front(more)) = Len(more) - 1
        /\ \A i \in 1 .. Len(more) - 1 : Front(more)[i] = more[i]
    BY <1>1, <2>1, FrontOfDistinct
  <2> QED
    BY <1>1, <2>1, <2>2
<1> QED
  BY <1>3 DEF more

LEMMA FailsNew ==
  ASSUME NEW st, NEW list, Coherent(st, list), NEW q \in PluginNames, q \notin ToSet(list),
         DOMAIN st.slots = st.stacked, NEW w \in DOMAIN st.slots
  PROVE  Even(InitWindowFails(st, q, w), st, list)
<1> DEFINE z == Construct(Located(st, q), q, w)
           more == Append(list, q)
           i == Len(list) + 1
           t == Destruct(z, q, w)
<1>1. /\ ColumnBegun(z, st, list, q, w) /\ InitWindowFails(st, q, w) = t
      /\ z.class[q].index = i
  BY ConstructedFirst
<1>2. list \in Seq(PluginNames) /\ Len(list) \in Nat
  BY CoherentTypes
<1>3. Len(more) = i /\ more[i] = q /\ Front(more) = list /\ i # 0 /\ i - 1 = Len(list)
  BY <1>2, MembersOfAppend, FrontOfAppend
<1> HIDE DEF z
<1>4. /\ Coherent(z, more) /\ z.stacked = st.stacked /\ DOMAIN z.slots = DOMAIN st.slots
      /\ \A x \in DOMAIN st.slots :
            /\ \A j \in 1 .. Len(list) : z.slots[x][j] = st.slots[x][j]
            /\ z.slots[x][i] = IF x = w THEN Live(q) ELSE Null
  BY <1>1 DEF ColumnBegun
<1> HIDE DEF more, i
<1>5. /\ w \in DOMAIN z.slots /\ z.slots[w][i] = Live(more[i])
      /\ \A x \in DOMAIN z.slots \ {w} : z.slots[x][i] # Live(more[i])
      /\ z.class[more[i]].index = i /\ i = Len(more)
  <2>1. Live(q) # Null
    BY ObjectsAre
  <2> QED
    BY <1>1, <1>3, <1>4, <2>1
<1>6. ListShrunk(Destruct(z, more[i], w), z, more)
  BY <1>3, <1>4, <1>5, LastSlotUnmade
<1>7. ListShrunk(t, z, more)
  BY <1>3, <1>6
<1> HIDE DEF t
<1>8. /\ Coherent(t, list) /\ t.stacked = st.stacked /\ DOMAIN t.slots = DOMAIN st.slots
      /\ \A x \in DOMAIN st.slots : \A j \in 1 .. Len(list) : t.slots[x][j] = z.slots[x][j]
  BY <1>3, <1>4, <1>7 DEF ListShrunk
<1>9. Even(t, st, list)
  BY <1>4, <1>8 DEF Even
<1> QED
  BY <1>1, <1>9

(* A plugin comes or goes: it has objects in the next slot of the windows  *)
(* of L, and objects that were deleted in that of the windows of D.        *)
Column(t, st, list, q, L, D) ==
  /\ Coherent(t, Append(list, q)) /\ t.stacked = st.stacked /\ DOMAIN t.slots = DOMAIN st.slots
  /\ \A x \in DOMAIN st.slots :
        /\ \A j \in 1 .. Len(list) : t.slots[x][j] = st.slots[x][j]
        /\ t.slots[x][Len(list) + 1] = IF x \in L THEN Live(q)
                                       ELSE IF x \in D THEN Dead(q) ELSE Null

Spread(t, st, list, q, L, D) ==
  /\ L = {} => Even(t, st, list)
  /\ L # {} => Column(t, st, list, q, L, D)

(* What the steps of a column start from.                                  *)
Columns(st, list, q) ==
  /\ list \in Seq(PluginNames) /\ q \in PluginNames /\ q \notin ToSet(list)
  /\ DOMAIN st.slots = st.stacked /\ IsFiniteSet(DOMAIN st.slots)

LEMMA ColumnIs ==
  ASSUME NEW st, NEW list, NEW q, Columns(st, list, q), NEW t, NEW L, NEW D,
         Column(t, st, list, q, L, D)
  PROVE  LET i == Len(list) + 1
             more == Append(list, q)
         IN  /\ Coherent(t, more) /\ i \in 1 .. Len(more) /\ Len(more) = i /\ more[i] = q
             /\ DOMAIN t.slots = DOMAIN st.slots /\ Len(list) \in Nat /\ Front(more) = list
             /\ \A x \in DOMAIN st.slots :
                   /\ i \in 1 .. Len(t.slots[x]) /\ Len(t.slots[x]) \in Nat
                   /\ \A j \in 1 .. Len(list) : j \in 1 .. Len(t.slots[x]) /\ j # i
<1> DEFINE i == Len(list) + 1
           more == Append(list, q)
<1>1. Coherent(t, more) /\ DOMAIN t.slots = DOMAIN st.slots
  BY DEF Column
<1>2. list \in Seq(PluginNames) /\ Len(list) \in Nat /\ q \in PluginNames
  BY DEF Columns
<1>3. Len(more) = i /\ more[i] = q /\ Front(more) = list
  BY <1>2, MembersOfAppend, FrontOfAppend
<1> HIDE DEF more
<1>4. ASSUME NEW x \in DOMAIN st.slots
      PROVE  /\ i \in 1 .. Len(t.slots[x]) /\ Len(t.slots[x]) \in Nat
             /\ \A j \in 1 .. Len(list) : j \in 1 .. Len(t.slots[x]) /\ j # i
  <2>1. Len(t.slots[x]) \in Nat /\ Len(more) <= Len(t.slots[x])
    BY <1>1, CoherentTypes
  <2> QED
    BY <1>2, <1>3, <2>1
<1>5. i \in 1 .. Len(more)
  BY <1>2, <1>3
<1> QED
  BY <1>1, <1>2, <1>3, <1>4, <1>5 DEF more

LEMMA ColumnOfSlot ==
  ASSUME NEW st, NEW list, NEW q, Columns(st, list, q), NEW t, NEW L, NEW D,
         Column(t, st, list, q, L, D), NEW w \in DOMAIN st.slots, NEW o, NEW z,
         SlotFilled(z, t, Append(list, q), w, Len(list) + 1, o), NEW L2, NEW D2,
         o = IF w \in L2 THEN Live(q) ELSE IF w \in D2 THEN Dead(q) ELSE Null,
         \A x \in DOMAIN st.slots \ {w} : (x \in L2 <=> x \in L) /\ (x \in D2 <=> x \in D)
  PROVE  Column(z, st, list, q, L2, D2)
<1> DEFINE i == Len(list) + 1
           more == Append(list, q)
<1>1. /\ Coherent(z, more) /\ z.stacked = t.stacked /\ SlotSet(z.slots, t.slots, w, i, o)
  BY DEF SlotFilled
<1>2. /\ t.stacked = st.stacked /\ DOMAIN t.slots = DOMAIN st.slots
      /\ \A x \in DOMAIN st.slots :
            /\ \A j \in 1 .. Len(list) : t.slots[x][j] = st.slots[x][j]
            /\ t.slots[x][i] = IF x \in L THEN Live(q) ELSE IF x \in D THEN Dead(q) ELSE Null
  BY DEF Column
<1>3. \A x \in DOMAIN st.slots :
         /\ i \in 1 .. Len(t.slots[x])
         /\ \A j \in 1 .. Len(list) : j \in 1 .. Len(t.slots[x]) /\ j # i
  BY ColumnIs
<1> HIDE DEF i, more
<1>4. ASSUME NEW x \in DOMAIN st.slots
      PROVE  /\ \A j \in 1 .. Len(list) : z.slots[x][j] = st.slots[x][j]
             /\ z.slots[x][i] = IF x \in L2 THEN Live(q) ELSE IF x \in D2 THEN Dead(q) ELSE Null
  <2>1. CASE x = w
    BY <1>1, <1>2, <1>3, <2>1 DEF SlotSet
  <2>2. CASE x # w
    <3>1. z.slots[x] = t.slots[x]
      BY <1>1, <1>2, <2>2 DEF SlotSet
    <3>2. (x \in L2 <=> x \in L) /\ (x \in D2 <=> x \in D)
      BY <2>2
    <3> QED
      BY <1>2, <3>1, <3>2
  <2> QED
    BY <2>1, <2>2
<1>5. z.stacked = st.stacked /\ DOMAIN z.slots = DOMAIN st.slots
  BY <1>1, <1>2 DEF SlotSet
<1> QED
  BY <1>1, <1>4, <1>5 DEF Column, i, more

LEMMA SpreadInit ==
  ASSUME NEW st, NEW list, NEW q, Columns(st, list, q), NEW t, NEW L, NEW D,
         Spread(t, st, list, q, L, D), NEW w \in DOMAIN st.slots, w \notin L \cup D,
         L = {} => D = {}
  PROVE  Spread(InitWindow(t, q, w), st, list, q, L \cup {w}, D)
<1> DEFINE z == InitWindow(t, q, w)
           i == Len(list) + 1
           more == Append(list, q)
<1>1. CASE L = {}
  <2>1. Even(t, st, list) /\ D = {}
    BY <1>1 DEF Spread
  <2>2. /\ Coherent(t, list) /\ q \in PluginNames /\ q \notin ToSet(list)
        /\ DOMAIN t.slots = t.stacked /\ w \in DOMAIN t.slots
    BY <2>1 DEF Even, Columns
  <2>3. ColumnBegun(z, t, list, q, w)
    BY <2>2, ConstructedFirst
  <2> HIDE DEF z
  <2>4. Column(z, st, list, q, {w}, {})
    BY <2>1, <2>3 DEF ColumnBegun, Column, Even
  <2>5. L \cup {w} = {w} /\ L \cup {w} # {} /\ D = {}
    BY <1>1, <2>1
  <2> QED
    BY <2>4, <2>5 DEF Spread, z
<1>2. CASE L # {}
  <2>1. Column(t, st, list, q, L, D)
    BY <1>2 DEF Spread
  <2>2. /\ Coherent(t, more) /\ i \in 1 .. Len(more) /\ more[i] = q
        /\ DOMAIN t.slots = DOMAIN st.slots
    BY <2>1, ColumnIs
  <2>3. t.slots[w][i] = Null
    BY <2>1 DEF Column
  <2> HIDE DEF i, more
  <2>4. SlotFilled(InitWindow(t, more[i], w), t, more, w, i, Live(more[i]))
    BY <2>2, <2>3, InitKnown
  <2>5. SlotFilled(z, t, more, w, i, Live(q))
    BY <2>2, <2>4
  <2> HIDE DEF z
  <2> DEFINE M == L \cup {w}
  <2>6. /\ Live(q) = IF w \in M THEN Live(q) ELSE IF w \in D THEN Dead(q) ELSE Null
        /\ \A x \in DOMAIN st.slots \ {w} : (x \in M <=> x \in L) /\ (x \in D <=> x \in D)
        /\ M # {}
    OBVIOUS
  <2> HIDE DEF M
  <2>7. Column(z, st, list, q, M, D)
    BY <2>1, <2>5, <2>6, ColumnOfSlot DEF i, more
  <2> QED
    BY <2>6, <2>7 DEF Spread, M, z
<1> QED
  BY <1>1, <1>2

LEMMA SpreadFini ==
  ASSUME NEW st, NEW list, NEW q, Columns(st, list, q), NEW t, NEW L, NEW D,
         Spread(t, st, list, q, L, D), NEW w \in DOMAIN st.slots, w \in L,
         L \subseteq DOMAIN st.slots
  PROVE  Spread(FiniWindow(t, q, w), st, list, q, L \ {w}, D \cup {w})
<1> DEFINE z == FiniWindow(t, q, w)
           i == Len(list) + 1
           more == Append(list, q)
           M == L \ {w}
           E == D \cup {w}
<1>1. Column(t, st, list, q, L, D)
  BY DEF Spread
<1>2. /\ Coherent(t, more) /\ i \in 1 .. Len(more) /\ more[i] = q /\ i = Len(more)
      /\ DOMAIN t.slots = DOMAIN st.slots /\ Front(more) = list /\ Len(list) \in Nat
  BY <1>1, ColumnIs
<1>3. /\ t.stacked = st.stacked
      /\ \A x \in DOMAIN st.slots :
            /\ \A j \in 1 .. Len(list) : t.slots[x][j] = st.slots[x][j]
            /\ t.slots[x][i] = IF x \in L THEN Live(q) ELSE IF x \in D THEN Dead(q) ELSE Null
  BY <1>1 DEF Column
<1>4. i - 1 = Len(list)
  BY <1>2
<1> HIDE DEF i, more
<1>5. t.slots[w][i] = Live(more[i]) /\ w \in DOMAIN t.slots
  BY <1>2, <1>3
<1>6. Live(q) # Dead(q) /\ Live(q) # Null
  BY ObjectsAre DEF Columns
<1>7. /\ (\E x \in DOMAIN t.slots \ {w} : t.slots[x][i] = Live(more[i]))
            => SlotFilled(FiniWindow(t, more[i], w), t, more, w, i, Dead(more[i]))
      /\ (~ \E x \in DOMAIN t.slots \ {w} : t.slots[x][i] = Live(more[i])) /\ i = Len(more)
            => ListShrunk(FiniWindow(t, more[i], w), t, more)
  BY <1>2, <1>5, FiniKnown
<1>8. /\ (\E x \in DOMAIN t.slots \ {w} : t.slots[x][i] = Live(q))
            => SlotFilled(z, t, more, w, i, Dead(q))
      /\ (~ \E x \in DOMAIN t.slots \ {w} : t.slots[x][i] = Live(q))
            => ListShrunk(z, t, more)
  BY <1>2, <1>7
<1> HIDE DEF z
<1>9. CASE M = {}
  <2>1. ListShrunk(z, t, more)
    BY <1>2, <1>3, <1>6, <1>8, <1>9
  <2>2. Even(z, st, list)
    BY <1>2, <1>3, <1>4, <2>1 DEF ListShrunk, Even
  <2> QED
    BY <1>9, <2>2 DEF Spread, z
<1>10. CASE M # {}
  <2>1. SlotFilled(z, t, more, w, i, Dead(q))
    BY <1>2, <1>3, <1>8, <1>10
  <2>2. /\ Dead(q) = IF w \in M THEN Live(q) ELSE IF w \in E THEN Dead(q) ELSE Null
        /\ \A x \in DOMAIN st.slots \ {w} : (x \in M <=> x \in L) /\ (x \in E <=> x \in D)
    OBVIOUS
  <2> HIDE DEF M, E
  <2>3. Column(z, st, list, q, M, E)
    BY <1>1, <2>1, <2>2, ColumnOfSlot DEF i, more
  <2> QED
    BY <1>10, <2>3 DEF Spread, M, E, z
<1> QED
  BY <1>9, <1>10

LEMMA SpreadFails ==
  ASSUME NEW st, NEW list, NEW q, Columns(st, list, q), NEW t, NEW L,
         Spread(t, st, list, q, L, {}), NEW w \in DOMAIN st.slots, w \notin L,
         L \subseteq DOMAIN st.slots
  PROVE  Spread(InitWindowFails(t, q, w), st, list, q, L, {w})
<1> DEFINE z == InitWindowFails(t, q, w)
           i == Len(list) + 1
           more == Append(list, q)
<1>1. CASE L = {}
  <2>1. Even(t, st, list)
    BY <1>1 DEF Spread
  <2>2. /\ Coherent(t, list) /\ q \in PluginNames /\ q \notin ToSet(list)
        /\ DOMAIN t.slots = t.stacked /\ w \in DOMAIN t.slots
    BY <2>1 DEF Even, Columns
  <2>3. Even(z, t, list)
    BY <2>2, FailsNew
  <2> HIDE DEF z
  <2>4. Even(z, st, list)
    BY <2>1, <2>3 DEF Even
  <2> QED
    BY <1>1, <2>4 DEF Spread, z
<1>2. CASE L # {}
  <2>1. Column(t, st, list, q, L, {})
    BY <1>2 DEF Spread
  <2>2. /\ Coherent(t, more) /\ i \in 1 .. Len(more) /\ more[i] = q
        /\ DOMAIN t.slots = DOMAIN st.slots
    BY <2>1, ColumnIs
  <2>3. PICK other \in L : TRUE
    BY <1>2
  <2>4. t.slots[w][i] = Null /\ t.slots[other][i] = Live(q) /\ other \in DOMAIN st.slots \ {w}
    BY <2>1, <2>3 DEF Column
  <2> HIDE DEF i, more
  <2>5. SlotFilled(InitWindowFails(t, more[i], w), t, more, w, i, Dead(more[i]))
    BY <2>2, <2>4, FailsKnown
  <2>6. SlotFilled(z, t, more, w, i, Dead(q))
    BY <2>2, <2>5
  <2> HIDE DEF z
  <2> DEFINE E == {w}
  <2>7. /\ Dead(q) = IF w \in L THEN Live(q) ELSE IF w \in E THEN Dead(q) ELSE Null
        /\ \A x \in DOMAIN st.slots \ {w} : (x \in L <=> x \in L) /\ (x \in E <=> x \in {})
    OBVIOUS
  <2> HIDE DEF E
  <2>8. Column(z, st, list, q, L, E)
    BY <2>1, <2>6, <2>7, ColumnOfSlot DEF i, more
  <2> QED
    BY <1>2, <2>8 DEF Spread, E, z
<1> QED
  BY <1>1, <1>2

(* The first members of a list.                                            *)
Taken(s, n) == {s[i] : i \in 1 .. n}

LEMMA TakenGrows ==
  ASSUME NEW s, NEW S, Listing(s, S)
  PROVE  /\ Taken(s, 0) = {} /\ Taken(s, Len(s)) = S
         /\ \A n \in 1 .. Len(s) : /\ Taken(s, n) = Taken(s, n - 1) \cup {s[n]}
                                   /\ s[n] \notin Taken(s, n - 1) /\ s[n] \in S
<1>1. /\ Len(s) \in Nat /\ \A i \in 1 .. Len(s) : s[i] \in S
      /\ \A i, j \in 1 .. Len(s) : s[i] = s[j] => i = j
      /\ \A x \in S : \E i \in 1 .. Len(s) : s[i] = x
  BY DEF Listing
<1>2. Taken(s, 0) = {}
  BY DEF Taken
<1>3. Taken(s, Len(s)) = S
  BY <1>1 DEF Taken
<1>4. ASSUME NEW n \in 1 .. Len(s)
      PROVE  /\ Taken(s, n) = Taken(s, n - 1) \cup {s[n]}
             /\ s[n] \notin Taken(s, n - 1) /\ s[n] \in S
  <2>1. /\ \A i : i \in 1 .. n <=> i \in 1 .. n - 1 \/ i = n
        /\ \A i \in 1 .. n - 1 : i \in 1 .. Len(s) /\ i # n
    BY <1>1
  <2>2. Taken(s, n) = Taken(s, n - 1) \cup {s[n]}
    BY <2>1 DEF Taken
  <2>3. s[n] \notin Taken(s, n - 1)
    BY <1>1, <2>1 DEF Taken
  <2> QED
    BY <1>1, <2>2, <2>3
<1> QED
  BY <1>2, <1>3, <1>4

PassBy(t, u, s, init, q, S) ==
  /\ Listing(s, S) /\ u[0] = t /\ Len(s) \in Nat
  /\ \A n \in 1 .. Len(s) : u[n] = IF init THEN InitWindow(u[n - 1], q, s[n])
                                   ELSE FiniWindow(u[n - 1], q, s[n])

LEMMA PassTasks ==
  ASSUME NEW t, NEW init, NEW q, NEW S, IsFiniteSet(S)
  PROVE  /\ PassBy(t, CarriedBy(t, ForWindows(init, q, S)), SetToSeq(S), init, q, S)
         /\ Carried(t, ForWindows(init, q, S))
               = CarriedBy(t, ForWindows(init, q, S))[Len(SetToSeq(S))]
<1> DEFINE s == SetToSeq(S)
           tasks == ForWindows(init, q, S)
           u == CarriedBy(t, tasks)
<1>1. Listing(s, S)
  BY WindowsListed
<1>2. Len(s) \in Nat
  BY <1>1 DEF Listing
<1>3. Len(tasks) = Len(s) /\ \A n \in 1 .. Len(s) : tasks[n] = Task(init, q, s[n])
  BY WindowTasksAre
<1> HIDE DEF s, tasks
<1>4. /\ u[0] = t
      /\ \A n \in 1 .. Len(tasks) :
            u[n] = IF tasks[n].init THEN InitWindow(u[n - 1], tasks[n].plugin, tasks[n].window)
                   ELSE FiniWindow(u[n - 1], tasks[n].plugin, tasks[n].window)
  BY <1>2, <1>3, CarriedSteps
<1>5. Carried(t, tasks) = u[Len(tasks)]
  BY CarriedIs
<1> HIDE DEF u
<1>6. ASSUME NEW n \in 1 .. Len(s)
      PROVE  u[n] = IF init THEN InitWindow(u[n - 1], q, s[n]) ELSE FiniWindow(u[n - 1], q, s[n])
  <2>1. tasks[n].init = init /\ tasks[n].plugin = q /\ tasks[n].window = s[n]
    BY <1>3, TaskIs
  <2> QED
    BY <1>3, <1>4, <2>1
<1>7. PassBy(t, u, s, init, q, S) /\ Carried(t, tasks) = u[Len(s)]
  BY <1>1, <1>2, <1>3, <1>4, <1>5, <1>6 DEF PassBy
<1> QED
  BY <1>7 DEF s, tasks, u

LEMMA InitPass ==
  ASSUME NEW st, NEW list, NEW q, Columns(st, list, q), NEW t, Even(t, st, list),
         NEW S, S \subseteq DOMAIN st.slots
  PROVE  Spread(InitWindows(t, q, S), st, list, q, S, {})
<1> DEFINE s == SetToSeq(S)
           u == CarriedBy(t, ForWindows(TRUE, q, S))
           J == {n \in 0 .. Len(s) : Spread(u[n], st, list, q, Taken(s, n), {})}
<1>1. IsFiniteSet(S)
  BY FS_Subset DEF Columns
<1>8. PassBy(t, u, s, TRUE, q, S)
  BY <1>1, PassTasks
<1>9. InitWindows(t, q, S) = u[Len(s)]
  BY <1>1, PassTasks DEF InitWindows
<1> HIDE DEF s, u
<1>2. /\ Listing(s, S) /\ u[0] = t /\ InitWindows(t, q, S) = u[Len(s)] /\ Len(s) \in Nat
      /\ \A n \in 1 .. Len(s) : u[n] = InitWindow(u[n - 1], q, s[n])
  BY <1>8, <1>9 DEF PassBy
<1>3. /\ Taken(s, 0) = {} /\ Taken(s, Len(s)) = S
      /\ \A n \in 1 .. Len(s) : /\ Taken(s, n) = Taken(s, n - 1) \cup {s[n]}
                                /\ s[n] \notin Taken(s, n - 1) /\ s[n] \in S
  BY <1>2, TakenGrows
<1>4. 0 \in J
  BY <1>2, <1>3 DEF Spread
<1>5. ASSUME NEW n \in 1 .. Len(s), n - 1 \in J
      PROVE  n \in J
  <2>1. Spread(u[n - 1], st, list, q, Taken(s, n - 1), {})
    BY <1>5
  <2>2. s[n] \in DOMAIN st.slots /\ s[n] \notin Taken(s, n - 1) \cup {}
    BY <1>3
  <2>3. Spread(InitWindow(u[n - 1], q, s[n]), st, list, q, Taken(s, n - 1) \cup {s[n]}, {})
    BY <2>1, <2>2, SpreadInit
  <2>4. n \in 0 .. Len(s)
    BY <1>2
  <2> QED
    BY <1>2, <1>3, <2>3, <2>4
<1> HIDE DEF J
<1>6. \A n \in 0 .. Len(s) : n \in J
  BY <1>2, <1>4, <1>5, CountingUp
<1>7. Len(s) \in J
  BY <1>2, <1>6
<1> QED
  BY <1>2, <1>3, <1>7 DEF J

LEMMA FiniPass ==
  ASSUME NEW st, NEW list, NEW q, Columns(st, list, q), NEW t, NEW L, NEW D,
         Spread(t, st, list, q, L, D), NEW S, S \subseteq L, L \subseteq DOMAIN st.slots
  PROVE  Spread(FiniWindows(t, q, S), st, list, q, L \ S, D \cup S)
<1> DEFINE s == SetToSeq(S)
           u == CarriedBy(t, ForWindows(FALSE, q, S))
           J == {n \in 0 .. Len(s) :
                    Spread(u[n], st, list, q, L \ Taken(s, n), D \cup Taken(s, n))}
<1>1. IsFiniteSet(S)
  BY FS_Subset DEF Columns
<1>8. PassBy(t, u, s, FALSE, q, S)
  BY <1>1, PassTasks
<1>9. FiniWindows(t, q, S) = u[Len(s)]
  BY <1>1, PassTasks DEF FiniWindows
<1> HIDE DEF s, u
<1>2. /\ Listing(s, S) /\ u[0] = t /\ FiniWindows(t, q, S) = u[Len(s)] /\ Len(s) \in Nat
      /\ \A n \in 1 .. Len(s) : u[n] = FiniWindow(u[n - 1], q, s[n])
  BY <1>8, <1>9 DEF PassBy
<1>3. /\ Taken(s, 0) = {} /\ Taken(s, Len(s)) = S
      /\ \A n \in 1 .. Len(s) : /\ Taken(s, n) = Taken(s, n - 1) \cup {s[n]}
                                /\ s[n] \notin Taken(s, n - 1) /\ s[n] \in S
  BY <1>2, TakenGrows
<1>4. 0 \in J
  <2>1. L \ Taken(s, 0) = L /\ D \cup Taken(s, 0) = D
    BY <1>3
  <2>2. Spread(u[0], st, list, q, L \ Taken(s, 0), D \cup Taken(s, 0))
    BY <1>2, <2>1
  <2>3. 0 \in 0 .. Len(s)
    BY <1>2
  <2> QED
    BY <2>2, <2>3
<1>5. ASSUME NEW n \in 1 .. Len(s), n - 1 \in J
      PROVE  n \in J
  <2> DEFINE M == L \ Taken(s, n - 1)
             E == D \cup Taken(s, n - 1)
  <2>1. Spread(u[n - 1], st, list, q, M, E)
    BY <1>5
  <2>2. s[n] \in M /\ M \subseteq DOMAIN st.slots /\ s[n] \in DOMAIN st.slots
    BY <1>3
  <2>5. M \ {s[n]} = L \ Taken(s, n) /\ E \cup {s[n]} = D \cup Taken(s, n)
    BY <1>3
  <2> HIDE DEF M, E
  <2>3. Spread(FiniWindow(u[n - 1], q, s[n]), st, list, q, M \ {s[n]}, E \cup {s[n]})
    BY <2>1, <2>2, SpreadFini
  <2>4. n \in 0 .. Len(s)
    BY <1>2
  <2> QED
    BY <1>2, <2>3, <2>4, <2>5
<1> HIDE DEF J
<1>6. \A n \in 0 .. Len(s) : n \in J
  BY <1>2, <1>4, <1>5, CountingUp
<1>7. Len(s) \in J
  BY <1>2, <1>6
<1> QED
  BY <1>2, <1>3, <1>7 DEF J

(* All is regular: running plugins have an object on every window.         *)
Regular(st, run) ==
  /\ run \in Seq(PluginNames) /\ Distinct(run)
  /\ DOMAIN st.slots = {} => Coherent(st, << >>)
  /\ DOMAIN st.slots # {} => Coherent(st, run)
  /\ \A w \in DOMAIN st.slots : \A j \in 1 .. Len(run) : st.slots[w][j] = Live(run[j])

LEMMA RegularTypes ==
  ASSUME NEW st, NEW run, Regular(st, run)
  PROVE  /\ Typed(st) /\ st.broken = FALSE /\ run \in Seq(PluginNames) /\ Distinct(run)
         /\ IsFiniteSet(DOMAIN st.slots) /\ st.stacked \subseteq DOMAIN st.slots
         /\ st \in Storages /\ Len(run) \in Nat
<1>1. Typed(st) /\ st.broken = FALSE
  BY CoherentTypes DEF Regular
<1>2. run \in Seq(PluginNames) /\ Distinct(run)
  BY DEF Regular
<1>3. Len(run) \in Nat
  BY <1>2
<1> QED
  BY <1>1, <1>2, <1>3 DEF Typed

LEMMA EmptyHasNone ==
  << >> \in Seq(PluginNames) /\ \A x : x \notin ToSet(<< >>)
<1>1. << >> \in Seq(PluginNames) /\ Len(<< >>) = 0
  BY EmptySeq
<1>2. \A x : x \in ToSet(<< >>) <=> \E i \in 1 .. Len(<< >>) : << >>[i] = x
  BY <1>1, MembersOf
<1> QED
  BY <1>1, <1>2

LEMMA NoWindows ==
  ASSUME NEW st, NEW run, Regular(st, run), DOMAIN st.slots = {}, NEW t, NEW q, NEW D,
         Spread(t, st, << >>, q, {}, D), NEW more \in Seq(PluginNames), Distinct(more)
  PROVE  Regular(t, more)
<1>1. Even(t, st, << >>)
  BY DEF Spread
<1>2. Coherent(t, << >>) /\ DOMAIN t.slots = {}
  BY <1>1 DEF Even
<1> QED
  BY <1>2 DEF Regular

LEMMA EvenStart ==
  ASSUME NEW st, NEW list, Coherent(st, list)
  PROVE  Even(st, st, list)
BY DEF Even

LEMMA RegularPushed ==
  ASSUME NEW st, NEW run, Regular(st, run), DOMAIN st.slots = st.stacked,
         NEW p \in PluginNames, p \notin ToSet(run)
  PROVE  Regular(InitWindows(st, p, st.stacked), Append(run, p))
<1> DEFINE more == Append(run, p)
           t == InitWindows(st, p, st.stacked)
<1>1. /\ run \in Seq(PluginNames) /\ Distinct(run) /\ IsFiniteSet(DOMAIN st.slots)
      /\ Len(run) \in Nat
  BY RegularTypes
<1>2. /\ more \in Seq(PluginNames) /\ Distinct(more) /\ Len(more) = Len(run) + 1
      /\ more[Len(run) + 1] = p /\ \A i \in 1 .. Len(run) : more[i] = run[i]
  BY <1>1, MembersOfAppend, AppendOfDistinct
<1>3. CASE DOMAIN st.slots = {}
  <2>1. Even(st, st, << >>)
    BY <1>3, EvenStart DEF Regular
  <2>2. << >> \in Seq(PluginNames) /\ p \notin ToSet(<< >>)
    BY EmptyHasNone
  <2>3. Columns(st, << >>, p)
    BY <1>1, <2>2 DEF Columns
  <2>4. st.stacked \subseteq DOMAIN st.slots /\ st.stacked = {}
    BY <1>3
  <2>5. Spread(t, st, << >>, p, st.stacked, {})
    BY <2>1, <2>3, <2>4, InitPass
  <2> HIDE DEF t, more
  <2>6. Spread(t, st, << >>, p, {}, {})
    BY <2>4, <2>5
  <2> QED
    BY <1>2, <1>3, <2>6, NoWindows DEF t, more
<1>4. CASE DOMAIN st.slots # {}
  <2>1. Coherent(st, run) /\ Even(st, st, run)
    BY <1>4, EvenStart DEF Regular
  <2>2. Columns(st, run, p)
    BY <1>1 DEF Columns
  <2>3. Spread(t, st, run, p, st.stacked, {})
    BY <2>1, <2>2, InitPass
  <2> HIDE DEF t
  <2>4. Column(t, st, run, p, st.stacked, {})
    BY <1>4, <2>3 DEF Spread
  <2>5. /\ Coherent(t, more) /\ DOMAIN t.slots = DOMAIN st.slots
        /\ \A x \in DOMAIN st.slots :
              /\ \A j \in 1 .. Len(run) : t.slots[x][j] = st.slots[x][j]
              /\ t.slots[x][Len(run) + 1] = Live(p)
    BY <2>4 DEF Column
  <2> HIDE DEF more
  <2>6. ASSUME NEW w \in DOMAIN t.slots, NEW j \in 1 .. Len(more)
        PROVE  t.slots[w][j] = Live(more[j])
    <3>1. CASE j = Len(run) + 1
      BY <1>2, <2>5, <3>1
    <3>2. CASE j # Len(run) + 1
      <4>1. j \in 1 .. Len(run)
        BY <1>1, <1>2, <3>2
      <4>2. t.slots[w][j] = Live(run[j])
        BY <2>5, <4>1 DEF Regular
      <4> QED
        BY <1>2, <4>1, <4>2
    <3> QED
      BY <3>1, <3>2
  <2>7. Regular(t, more)
    BY <1>2, <1>4, <2>5, <2>6 DEF Regular
  <2> QED
    BY <2>7 DEF t, more
<1> QED
  BY <1>3, <1>4

LEMMA EvenRegular ==
  ASSUME NEW st, NEW run, Regular(st, run), DOMAIN st.slots # {}, NEW t, Even(t, st, run)
  PROVE  Regular(t, run)
<1>1. /\ Coherent(t, run) /\ DOMAIN t.slots = DOMAIN st.slots
      /\ \A x \in DOMAIN st.slots : \A j \in 1 .. Len(run) : t.slots[x][j] = st.slots[x][j]
  BY DEF Even
<1>2. \A w \in DOMAIN t.slots : \A j \in 1 .. Len(run) : t.slots[w][j] = Live(run[j])
  BY <1>1 DEF Regular
<1> QED
  BY <1>1, <1>2 DEF Regular

LEMMA RegularPopped ==
  ASSUME NEW st, NEW run, Regular(st, run), DOMAIN st.slots = st.stacked, Len(run) # 0
  PROVE  Regular(FiniWindows(st, Last(run), st.stacked), Front(run))
<1> DEFINE less == Front(run)
           q == Last(run)
           t == FiniWindows(st, q, st.stacked)
<1>1. /\ run \in Seq(PluginNames) /\ Distinct(run) /\ IsFiniteSet(DOMAIN st.slots)
      /\ Len(run) \in Nat
  BY RegularTypes
<1>2. /\ less \in Seq(PluginNames) /\ Distinct(less) /\ Len(less) = Len(run) - 1
      /\ ToSet(less) = ToSet(run) \ {q} /\ \A i \in 1 .. Len(run) - 1 : less[i] = run[i]
  BY <1>1, FrontOfDistinct
<1>3. q = run[Len(run)] /\ Len(run) \in 1 .. Len(run) /\ q \in PluginNames
  BY <1>1 DEF Last
<1>4. q \notin ToSet(less) /\ Len(less) \in Nat
  BY <1>1, <1>2
<1>5. Append(less, q) = run
  <2>1. /\ Append(less, q) \in Seq(PluginNames) /\ Len(Append(less, q)) = Len(run)
        /\ Append(less, q)[Len(run)] = q
        /\ \A i \in 1 .. Len(run) - 1 : Append(less, q)[i] = less[i]
    <3> HIDE DEF less, q
    <3>1. Len(less) + 1 = Len(run)
      BY <1>1, <1>2
    <3>2. /\ Append(less, q) \in Seq(PluginNames) /\ Len(Append(less, q)) = Len(less) + 1
          /\ Append(less, q)[Len(less) + 1] = q
          /\ \A i \in 1 .. Len(less) : Append(less, q)[i] = less[i]
      BY <1>2, <1>3, MembersOfAppend
    <3> QED
      BY <1>2, <3>1, <3>2
  <2> DEFINE vec == Append(less, q)
  <2>3. vec \in Seq(PluginNames) /\ Len(vec) = Len(run) /\ vec[Len(run)] = q
        /\ \A i \in 1 .. Len(run) - 1 : vec[i] = less[i]
    BY <2>1
  <2> HIDE DEF vec, less, q
  <2>4. \A i \in 1 .. Len(run) : vec[i] = run[i]
    <3>1. ASSUME NEW i \in 1 .. Len(run)
          PROVE  vec[i] = run[i]
      <4>1. CASE i = Len(run)
        BY <1>3, <2>3, <4>1
      <4>2. CASE i # Len(run)
        <5>1. i \in 1 .. Len(run) - 1
          BY <1>1, <4>2
        <5> QED
          BY <1>2, <2>3, <5>1
      <4> QED
        BY <4>1, <4>2
    <3> QED
      BY <3>1
  <2>5. vec = run
    BY <1>1, <2>3, <2>4, SeqEqual
  <2> QED
    BY <2>5 DEF vec
<1> HIDE DEF less, q
<1>6. CASE DOMAIN st.slots = {}
  <2>1. Even(st, st, << >>)
    BY <1>6, EvenStart DEF Regular
  <2>2. << >> \in Seq(PluginNames) /\ q \notin ToSet(<< >>)
    BY EmptyHasNone
  <2>3. Columns(st, << >>, q)
    BY <1>1, <1>3, <2>2 DEF Columns
  <2>4. st.stacked = {}
    BY <1>6
  <2>5. Spread(st, st, << >>, q, {}, {})
    BY <2>1 DEF Spread
  <2>6. Spread(FiniWindows(st, q, {}), st, << >>, q, {} \ {}, {} \cup {})
    BY <2>3, <2>5, FiniPass
  <2>7. t = FiniWindows(st, q, {}) /\ {} \ {} = {}
    BY <2>4
  <2> HIDE DEF t
  <2>8. Spread(t, st, << >>, q, {}, {} \cup {})
    BY <2>6, <2>7
  <2> QED
    BY <1>2, <1>6, <2>8, NoWindows DEF t, less, q
<1>7. CASE DOMAIN st.slots # {}
  <2> DEFINE W == st.stacked
  <2>1. Coherent(st, run) /\ Columns(st, less, q) /\ W \subseteq DOMAIN st.slots /\ W # {}
    BY <1>1, <1>2, <1>3, <1>4, <1>7 DEF Regular, Columns
  <2>2. Column(st, st, less, q, W, {})
    <3>1. ASSUME NEW x \in DOMAIN st.slots
          PROVE  st.slots[x][Len(less) + 1] = Live(q)
      <4>1. Len(less) + 1 = Len(run)
        BY <1>1, <1>2
      <4> QED
        BY <1>3, <4>1 DEF Regular
    <3> QED
      BY <1>5, <2>1, <3>1 DEF Column
  <2>3. Spread(st, st, less, q, W, {})
    BY <2>1, <2>2 DEF Spread
  <2> HIDE DEF W
  <2>4. Spread(FiniWindows(st, q, W), st, less, q, W \ W, {} \cup W)
    BY <2>1, <2>3, FiniPass
  <2>5. t = FiniWindows(st, q, W) /\ W \ W = {}
    BY DEF W
  <2> HIDE DEF t
  <2>6. Even(t, st, less)
    BY <2>4, <2>5 DEF Spread
  <2>7. /\ Coherent(t, less) /\ DOMAIN t.slots = DOMAIN st.slots
        /\ \A x \in DOMAIN st.slots : \A j \in 1 .. Len(less) : t.slots[x][j] = st.slots[x][j]
    BY <2>6 DEF Even
  <2>8. ASSUME NEW w \in DOMAIN t.slots, NEW j \in 1 .. Len(less)
        PROVE  t.slots[w][j] = Live(less[j])
    <3>1. j \in 1 .. Len(run) /\ j \in 1 .. Len(run) - 1
      BY <1>1, <1>2
    <3> QED
      BY <1>2, <2>7, <3>1 DEF Regular
  <2>9. Regular(t, less)
    BY <1>2, <1>7, <2>7, <2>8 DEF Regular
  <2> QED
    BY <2>9 DEF t, less, q
<1> QED
  BY <1>6, <1>7

LEMMA RegularFails ==
  ASSUME NEW m \in Managers, Regular(m.storage, m.plugins),
         DOMAIN m.storage.slots = m.storage.stacked, m.storage.stacked # {},
         NEW p \in PluginNames, p \notin ToSet(m.plugins)
  PROVE  Regular(PushFailsOnWindow(m, p).storage, m.plugins)
<1> DEFINE st == m.storage
           run == m.plugins
           w == CHOOSE x \in m.storage.stacked : TRUE
           before == m.storage.stacked \ {w}
           t1 == InitWindows(st, p, before)
           t2 == InitWindowFails(t1, p, w)
           t3 == FiniWindows(t2, p, before)
<1>1. PushFailsOnWindow(m, p).storage = t3
  BY DEF PushFailsOnWindow, Managers
<1>2. w \in st.stacked
  OBVIOUS
<1>3. /\ Regular(st, run) /\ Coherent(st, run) /\ DOMAIN st.slots = st.stacked
      /\ run \in Seq(PluginNames) /\ IsFiniteSet(DOMAIN st.slots) /\ p \notin ToSet(run)
  BY RegularTypes DEF Regular
<1>4. before \subseteq DOMAIN st.slots /\ w \notin before /\ w \in DOMAIN st.slots
  BY <1>2
<1> HIDE DEF st, run, w, before, t1, t2, t3
<1>5. Columns(st, run, p) /\ Even(st, st, run)
  BY <1>3, EvenStart DEF Columns
<1>6. Spread(t1, st, run, p, before, {})
  BY <1>4, <1>5, InitPass DEF t1
<1>7. Spread(t2, st, run, p, before, {w})
  BY <1>4, <1>5, <1>6, SpreadFails DEF t2
<1>8. Spread(t3, st, run, p, before \ before, {w} \cup before)
  BY <1>4, <1>5, <1>7, FiniPass DEF t3
<1>9. before \ before = {}
  OBVIOUS
<1>10. Even(t3, st, run)
  BY <1>8, <1>9 DEF Spread
<1>11. Regular(t3, run)
  BY <1>3, <1>4, <1>10, EvenRegular
<1> QED
  BY <1>1, <1>11 DEF run

-----------------------------------------------------------------------------
(* updatePlugins while no destroyed window waits: the objects stay regular *)
(* unless a plugin that runs is pushed again, which is blacklisted then.   *)
CalmManager(m) ==
  /\ DOMAIN m.storage.slots = m.storage.stacked
  /\ ~ m.storage.broken => Regular(m.storage, m.plugins)
  /\ m.storage.broken => ToSet(m.plugins) \cap m.blacklist # {}

LEMMA CalmPop ==
  ASSUME NEW m, OnTheWay(m), Len(m.plugins) # 0, CalmManager(m), ~ m.storage.broken,
         NEW r, Popped(r, m)
  PROVE  CalmManager(r) /\ ~ r.storage.broken
<1>1. Regular(m.storage, m.plugins) /\ DOMAIN m.storage.slots = m.storage.stacked
  BY DEF CalmManager
<1>2. /\ r.plugins = Front(m.plugins) /\ Stepped(r.storage, m.storage)
      /\ r.storage = FiniWindows(m.storage, Last(m.plugins), m.storage.stacked)
  BY DEF Popped
<1>3. Regular(r.storage, r.plugins)
  BY <1>1, <1>2, RegularPopped
<1>4. r.storage.broken = FALSE
  BY <1>3, RegularTypes
<1>5. DOMAIN r.storage.slots = r.storage.stacked
  BY <1>1, <1>2 DEF Stepped
<1> QED
  BY <1>3, <1>4, <1>5 DEF CalmManager

LEMMA CalmPush ==
  ASSUME NEW m, OnTheWay(m), CalmManager(m), NEW p \in PluginNames, NEW fails,
         NEW r, Pushed(r, m, p, fails)
  PROVE  CalmManager(r)
<1>1. m \in Managers /\ m.plugins \in Seq(PluginNames) /\ Stepped(r.storage, m.storage)
  BY DEF OnTheWay, Managers, Pushed
<1>2. DOMAIN r.storage.slots = r.storage.stacked /\ (m.storage.broken => r.storage.broken)
      /\ DOMAIN m.storage.slots = m.storage.stacked
  BY <1>1 DEF CalmManager, Stepped
<1>3. ToSet(Append(m.plugins, p)) = ToSet(m.plugins) \cup {p}
  BY <1>1, MembersOfAppend
<1>4. CASE m.storage.broken
  <2>1. ToSet(m.plugins) \cap m.blacklist # {} /\ r.storage.broken
    BY <1>2, <1>4 DEF CalmManager
  <2>2. ToSet(m.plugins) \subseteq ToSet(r.plugins) /\ m.blacklist \subseteq r.blacklist
    BY <1>3 DEF Pushed
  <2> QED
    BY <1>2, <2>1, <2>2 DEF CalmManager
<1>5. CASE ~ m.storage.broken
  <2>1. Regular(m.storage, m.plugins)
    BY <1>5 DEF CalmManager
  <2>2. CASE /\ p \in ToSet(m.plugins) /\ r.storage.broken = TRUE
             /\ r.plugins = m.plugins /\ r.blacklist = m.blacklist \cup {p}
    BY <1>2, <2>2 DEF CalmManager
  <2>3. CASE r.plugins = m.plugins /\ r.storage = m.storage
    BY <1>2, <1>5, <2>1, <2>3 DEF CalmManager
  <2>4. CASE /\ p \notin ToSet(m.plugins) /\ m.storage.stacked # {}
             /\ r = PushFailsOnWindow(m, p) /\ r.plugins = m.plugins
    <3>1. Regular(PushFailsOnWindow(m, p).storage, m.plugins)
      BY <1>1, <1>2, <2>1, <2>4, RegularFails
    <3>2. Regular(r.storage, r.plugins)
      BY <2>4, <3>1
    <3> QED
      BY <1>2, <3>2, RegularTypes DEF CalmManager
  <2>5. CASE /\ p \notin ToSet(m.plugins) /\ r.plugins = Append(m.plugins, p)
             /\ r.storage = InitWindows(m.storage, p, m.storage.stacked)
    <3>1. Regular(InitWindows(m.storage, p, m.storage.stacked), Append(m.plugins, p))
      BY <1>2, <2>1, <2>5, RegularPushed
    <3>2. Regular(r.storage, r.plugins)
      BY <2>5, <3>1
    <3> QED
      BY <1>2, <3>2, RegularTypes DEF CalmManager
  <2> QED
    BY <2>2, <2>3, <2>4, <2>5 DEF Pushed
<1> QED
  BY <1>4, <1>5

LEMMA CalmPops ==
  ASSUME PluginsShape, PluginsRight, NEW fails, CalmManager(Manager), ~ storage.broken
  PROVE  \A n \in 0 .. Len(plugins) - Kept :
            CalmManager(UpdatedBy(fails)[n]) /\ ~ UpdatedBy(fails)[n].storage.broken
<1> DEFINE f == UpdatedBy(fails)
           pops == Len(plugins) - Kept
           J == {n \in 0 .. pops : CalmManager(f[n]) /\ ~ f[n].storage.broken}
<1>1. plugins \in Seq(PluginNames) /\ option \in Seq(PluginNames) /\ Len(plugins) \in Nat
  BY DEF PluginsShape
<1>2. UpdateSteps \in Nat /\ pops \in 0 .. UpdateSteps /\ pops \in Nat /\ pops <= Len(plugins)
  BY <1>1, KeptIs DEF CommonStart
<1>3. f[0] = Manager /\ \A n \in 1 .. pops : f[n] = Pop(f[n - 1])
  BY <1>2, UpdatedSteps
<1>4. \A n \in 0 .. pops : OnTheWay(f[n]) /\ f[n].plugins = SubSeq(plugins, 1, Len(plugins) - n)
  BY PopsOfUpdate
<1> HIDE DEF f, pops
<1>5. 0 \in J
  <2>1. Manager.storage = storage /\ 0 \in 0 .. pops
    BY <1>2, ManagerStarts
  <2> QED
    BY <1>3, <2>1
<1>6. ASSUME NEW n \in 1 .. pops, n - 1 \in J
      PROVE  n \in J
  <2> DEFINE m == f[n - 1]
             r == f[n]
             k == Len(plugins) - (n - 1)
  <2>1. n - 1 \in 0 .. pops /\ n \in 0 .. pops
    BY <1>2
  <2>2. /\ CalmManager(m) /\ ~ m.storage.broken /\ OnTheWay(m)
        /\ m.plugins = SubSeq(plugins, 1, k) /\ r = Pop(m)
    BY <1>3, <1>4, <1>6, <2>1
  <2>3. k \in 1 .. Len(plugins)
    BY <1>1, <1>2
  <2> HIDE DEF m, r, k
  <2>4. Len(m.plugins) = k
    BY <1>1, <2>2, <2>3, SubSeqProperties
  <2>5. m \in Managers /\ Typed(m.storage) /\ Len(m.plugins) # 0
    BY <2>2, <2>3, <2>4 DEF OnTheWay, Stepped
  <2>6. Popped(r, m)
    BY <2>2, <2>5, PopIs
  <2>7. CalmManager(r) /\ ~ r.storage.broken
    BY <2>2, <2>5, <2>6, CalmPop
  <2> QED
    BY <2>1, <2>7 DEF r
<1>7. \A n \in 0 .. pops : n \in J
  <2> HIDE DEF J
  <2> QED
    BY <1>2, <1>5, <1>6, CountingUp
<1> QED
  BY <1>7 DEF f, pops

LEMMA CalmUpdated ==
  ASSUME PluginsShape, PluginsRight, NEW fails, CalmManager(Manager), ~ storage.broken
  PROVE  CalmManager(Updated(fails))
<1> DEFINE f == UpdatedBy(fails)
           pops == Len(plugins) - Kept
           J == {j \in 0 .. UpdateSteps - pops : CalmManager(f[pops + j])}
<1>1. plugins \in Seq(PluginNames) /\ option \in Seq(PluginNames) /\ Len(plugins) \in Nat
      /\ Wanted \in Seq(PluginNames) /\ Len(Wanted) \in Nat
  BY WantedIs DEF PluginsShape
<1>2. /\ UpdateSteps \in Nat /\ pops \in 0 .. UpdateSteps /\ pops \in Nat
      /\ UpdateSteps - pops = Len(Wanted) - Kept /\ Kept \in Nat
  BY <1>1, KeptIs DEF CommonStart
<1>3. \A n \in 1 .. UpdateSteps : f[n] = IF n <= pops THEN Pop(f[n - 1])
                                  ELSE Push(f[n - 1], Wanted[Kept + n - pops], fails)
  BY <1>2, UpdatedSteps
<1>4. CalmManager(f[pops])
  <2>1. pops \in 0 .. pops
    BY <1>2
  <2> QED
    BY <2>1, CalmPops
<1>5. \A j \in 0 .. UpdateSteps - pops : OnTheWay(f[pops + j])
  BY <1>2, PushesOfUpdate
<1> HIDE DEF f, pops
<1>6. 0 \in J
  <2>1. 0 \in 0 .. UpdateSteps - pops /\ pops + 0 = pops
    BY <1>2
  <2> QED
    BY <1>4, <2>1
<1>7. ASSUME NEW j \in 1 .. UpdateSteps - pops, j - 1 \in J
      PROVE  j \in J
  <2> DEFINE n == pops + j
             m == f[n - 1]
             p == Wanted[Kept + n - pops]
  <2>1. /\ n \in 1 .. UpdateSteps /\ ~ (n <= pops) /\ n - 1 = pops + (j - 1)
        /\ Kept + n - pops \in 1 .. Len(Wanted) /\ j - 1 \in 0 .. UpdateSteps - pops
        /\ j \in 0 .. UpdateSteps - pops
    <3> HIDE DEF J
    <3>1. j \in Nat /\ 1 <= j /\ j <= UpdateSteps - pops
      BY <1>2
    <3>2. j <= Len(Wanted) - Kept
      BY <1>2, <3>1
    <3> QED
      BY <1>1, <1>2, <3>1, <3>2
  <2>2. f[n] = Push(m, p, fails)
    BY <1>3, <2>1
  <2>3. OnTheWay(m) /\ CalmManager(m)
    BY <1>5, <1>7, <2>1
  <2>4. p \in PluginNames
    BY <1>1, <2>1
  <2> HIDE DEF m, p, n
  <2>5. Pushed(f[n], m, p, fails)
    BY <2>2, <2>3, <2>4, PushIs DEF OnTheWay, Stepped
  <2>6. CalmManager(f[n])
    BY <2>3, <2>4, <2>5, CalmPush
  <2> QED
    BY <2>1, <2>6 DEF n
<1>8. \A j \in 0 .. UpdateSteps - pops : j \in J
  <2>1. UpdateSteps - pops \in Nat
    BY <1>2
  <2> HIDE DEF J
  <2> QED
    BY <1>6, <1>7, <2>1, CountingUp
<1>9. UpdateSteps - pops \in J
  <2>1. UpdateSteps - pops \in 0 .. UpdateSteps - pops
    BY <1>2
  <2> HIDE DEF J
  <2> QED
    BY <1>8, <2>1
<1>10. pops + (UpdateSteps - pops) = UpdateSteps
  BY <1>2
<1> QED
  BY <1>9, <1>10 DEF Updated, f

-----------------------------------------------------------------------------
(* Windows come and go.                                                    *)
LEMMA AddedCoherent ==
  ASSUME NEW st, NEW list, Coherent(st, list), NEW w, w \notin DOMAIN st.slots,
         NEW a, VectorAdded(a, st, w)
  PROVE  Coherent(a, list) /\ \A i \in 1 .. Len(list) : a.slots[w][i] = Null
<1>1. /\ Typed(a) /\ DOMAIN a.slots = DOMAIN st.slots \cup {w}
      /\ a.stacked = st.stacked \cup {w} /\ a.broken = st.broken
      /\ a.indices = st.indices /\ a.class = st.class /\ a.holder = st.holder
      /\ \A x \in DOMAIN st.slots : a.slots[x] = st.slots[x]
      /\ Len(a.slots[w]) = Len(st.indices)
      /\ \A i \in 1 .. Len(st.indices) : a.slots[w][i] = Null
      /\ \A p \in PluginNames : LiveAt(a.slots, p) = LiveAt(st.slots, p)
  BY DEF VectorAdded
<1>2. Len(st.indices) = Len(list) /\ Len(list) \in Nat /\ st.stacked \subseteq DOMAIN st.slots
  BY CoherentTypes DEF Coherent, IndexedBy
<1>3. IndexedBy(a, list)
  BY <1>1 DEF Coherent, IndexedBy
<1>4. CountsMatch(a)
  BY <1>1 DEF Coherent, CountsMatch
<1>5. /\ \A x \in DOMAIN st.slots : Len(st.slots[x]) >= Len(list)
      /\ \A x \in st.stacked : Len(st.slots[x]) = Len(list)
      /\ \A x \in DOMAIN st.slots : \A j \in 1 .. Len(st.slots[x]) : \A q \in PluginNames :
            st.slots[x][j] = Live(q) => j <= Len(list) /\ list[j] = q
  BY DEF Coherent, FilledBy
<1>6. ASSUME NEW x \in DOMAIN a.slots, NEW j \in 1 .. Len(a.slots[x]), NEW q \in PluginNames,
             a.slots[x][j] = Live(q)
      PROVE  j <= Len(list) /\ list[j] = q
  <2>1. x # w
    <3>1. Live(q) # Null
      BY ObjectsAre
    <3> QED
      BY <1>1, <1>6, <3>1
  <2> QED
    BY <1>1, <1>5, <1>6, <2>1
<1>7. \A x \in DOMAIN a.slots : Len(a.slots[x]) >= Len(list)
  BY <1>1, <1>2, <1>5
<1>8. \A x \in a.stacked : Len(a.slots[x]) = Len(list)
  BY <1>1, <1>2, <1>5
<1>9. FilledBy(a, list)
  BY <1>6, <1>7, <1>8 DEF FilledBy
<1> QED
  BY <1>1, <1>2, <1>3, <1>4, <1>9 DEF Coherent

LEMMA DroppedCoherent ==
  ASSUME NEW t, NEW list, Coherent(t, list), NEW w \in DOMAIN t.slots,
         \A j \in 1 .. Len(list) : \A q \in PluginNames : t.slots[w][j] # Live(q),
         NEW u, VectorDropped(u, t, w)
  PROVE  Coherent(u, list)
<1>1. /\ Typed(u) /\ DOMAIN u.slots = DOMAIN t.slots \ {w}
      /\ u.stacked = t.stacked /\ u.broken = t.broken
      /\ u.indices = t.indices /\ u.class = t.class /\ u.holder = t.holder
      /\ \A x \in DOMAIN t.slots \ {w} : u.slots[x] = t.slots[x]
  BY DEF VectorDropped
<1>2. u.stacked \subseteq DOMAIN u.slots
  BY <1>1 DEF Typed
<1>3. IndexedBy(u, list)
  BY <1>1 DEF Coherent, IndexedBy
<1>4. /\ \A x \in DOMAIN t.slots : Len(t.slots[x]) >= Len(list)
      /\ \A x \in t.stacked : Len(t.slots[x]) = Len(list)
      /\ \A x \in DOMAIN t.slots : \A j \in 1 .. Len(t.slots[x]) : \A q \in PluginNames :
            t.slots[x][j] = Live(q) => j <= Len(list) /\ list[j] = q
  BY DEF Coherent, FilledBy
<1>5. FilledBy(u, list)
  BY <1>1, <1>2, <1>4 DEF FilledBy
<1>6. CountsMatch(u)
  <2> SUFFICES ASSUME NEW q \in PluginNames
               PROVE  u.class[q].refs = Cardinality(LiveAt(u.slots, q))
    BY DEF CountsMatch
  <2>1. \A j : <<w, j>> \notin LiveAt(t.slots, q)
    <3>1. SUFFICES ASSUME NEW j, <<w, j>> \in LiveAt(t.slots, q)
                   PROVE  FALSE
      OBVIOUS
    <3>2. j \in 1 .. Len(t.slots[w]) /\ t.slots[w][j] = Live(q)
      BY <3>1, InLive
    <3>3. j <= Len(list) /\ Len(list) \in Nat /\ Len(t.slots[w]) \in Nat
      BY <1>4, <3>2, CoherentTypes
    <3>4. j \in 1 .. Len(list)
      BY <3>2, <3>3
    <3> QED
      BY <3>2, <3>4
  <2>2. ASSUME NEW x \in DOMAIN t.slots \ {w}, NEW j
        PROVE  <<x, j>> \in LiveAt(u.slots, q) <=> <<x, j>> \in LiveAt(t.slots, q)
    <3>1. u.slots[x] = t.slots[x] /\ x \in DOMAIN u.slots
      BY <1>1
    <3>2. <<x, j>> \in LiveAt(u.slots, q) <=> j \in 1 .. Len(u.slots[x]) /\ u.slots[x][j] = Live(q)
      BY <3>1, InLive
    <3>3. <<x, j>> \in LiveAt(t.slots, q) <=> j \in 1 .. Len(t.slots[x]) /\ t.slots[x][j] = Live(q)
      BY InLive
    <3> QED
      BY <3>1, <3>2, <3>3
  <2>3. \A y \in LiveAt(u.slots, q) : \E x \in DOMAIN t.slots \ {w} : \E j : y = <<x, j>>
    BY <1>1, InLive
  <2>4. \A y \in LiveAt(t.slots, q) : \E x \in DOMAIN t.slots \ {w} : \E j : y = <<x, j>>
    <3>1. ASSUME NEW y \in LiveAt(t.slots, q)
          PROVE  \E x \in DOMAIN t.slots \ {w} : \E j : y = <<x, j>>
      <4>1. PICK x \in DOMAIN t.slots : \E j \in 1 .. Len(t.slots[x]) : y = <<x, j>>
        BY InLive
      <4>2. PICK j : y = <<x, j>>
        BY <4>1
      <4>3. x # w
        BY <2>1, <4>2
      <4> QED
        BY <4>2, <4>3
    <3> QED
      BY <3>1
  <2>5. \A y : y \in LiveAt(u.slots, q) <=> y \in LiveAt(t.slots, q)
    BY <2>2, <2>3, <2>4
  <2>6. LiveAt(u.slots, q) = LiveAt(t.slots, q)
    BY <2>5
  <2> QED
    BY <1>1, <2>6 DEF Coherent, CountsMatch
<1> QED
  BY <1>1, <1>3, <1>5, <1>6 DEF Coherent

LEMMA RegularUnstacked ==
  ASSUME NEW st, NEW run, Regular(st, run), NEW w, NEW u, Unstacked(u, st, w)
  PROVE  Regular(u, run)
<1>1. /\ Typed(u) /\ u.slots = st.slots /\ u.stacked = st.stacked \ {w} /\ u.broken = st.broken
      /\ u.indices = st.indices /\ u.class = st.class /\ u.holder = st.holder
  BY DEF Unstacked
<1>2. ASSUME NEW list, Coherent(st, list)
      PROVE  Coherent(u, list)
  <2>1. IndexedBy(u, list)
    BY <1>1, <1>2 DEF Coherent, IndexedBy
  <2>2. FilledBy(u, list)
    BY <1>1, <1>2 DEF Coherent, FilledBy
  <2>3. CountsMatch(u)
    BY <1>1, <1>2 DEF Coherent, CountsMatch
  <2> QED
    BY <1>1, <1>2, <2>1, <2>2, <2>3 DEF Coherent
<1> QED
  BY <1>1, <1>2 DEF Regular

(* The first plugins of the list.                                          *)
FirstOnes(run, n) == SubSeq(run, 1, n)

LEMMA FirstOnesAre ==
  ASSUME NEW run \in Seq(PluginNames), Distinct(run), NEW n \in 0 .. Len(run)
  PROVE  /\ FirstOnes(run, n) \in Seq(PluginNames) /\ Len(FirstOnes(run, n)) = n
         /\ \A i \in 1 .. n : FirstOnes(run, n)[i] = run[i]
         /\ Distinct(FirstOnes(run, n)) /\ Len(run) \in Nat
         /\ n = 0 => FirstOnes(run, n) = << >>
         /\ n = Len(run) => FirstOnes(run, n) = run
<1>1. Len(run) \in Nat /\ n \in Nat /\ n <= Len(run)
  OBVIOUS
<1> DEFINE vec == SubSeq(run, 1, n)
<1>2. vec \in Seq(PluginNames) /\ Len(vec) = n /\ \A i \in 1 .. n : vec[i] = run[i]
  BY <1>1
<1>3. \A i \in 1 .. n : i \in 1 .. Len(run)
  BY <1>1
<1> HIDE DEF vec
<1>4. Distinct(vec)
  BY <1>2, <1>3 DEF Distinct
<1>5. n = 0 => vec = << >>
  BY <1>2
<1>6. n = Len(run) => vec = run
  BY <1>2, SeqEqual
<1> QED
  BY <1>1, <1>2, <1>4, <1>5, <1>6 DEF FirstOnes, vec

LEMMA OneMore ==
  ASSUME NEW run \in Seq(PluginNames), Distinct(run), NEW n \in 1 .. Len(run)
  PROVE  /\ n - 1 \in 0 .. Len(run) /\ n \in 0 .. Len(run) /\ n - 1 \in Nat /\ n - 1 + 1 = n
         /\ run[n] \in PluginNames /\ run[n] \notin ToSet(FirstOnes(run, n - 1))
         /\ Append(FirstOnes(run, n - 1), run[n]) = FirstOnes(run, n)
         /\ Front(FirstOnes(run, n)) = FirstOnes(run, n - 1)
<1>1. /\ n - 1 \in 0 .. Len(run) /\ n \in 0 .. Len(run) /\ n - 1 \in Nat /\ n - 1 + 1 = n
      /\ run[n] \in PluginNames /\ Len(run) \in Nat
      /\ \A i \in 1 .. n - 1 : i \in 1 .. n /\ i \in 1 .. Len(run) /\ i # n
      /\ \A i \in 1 .. n : i # n => i \in 1 .. n - 1
  OBVIOUS
<1> DEFINE less == FirstOnes(run, n - 1)
           more == FirstOnes(run, n)
<1>2. /\ less \in Seq(PluginNames) /\ Len(less) = n - 1 /\ \A i \in 1 .. n - 1 : less[i] = run[i]
  BY <1>1, FirstOnesAre
<1>3. /\ more \in Seq(PluginNames) /\ Len(more) = n /\ \A i \in 1 .. n : more[i] = run[i]
  BY <1>1, FirstOnesAre
<1> HIDE DEF less, more
<1>4. run[n] \notin ToSet(less)
  <2>1. \A i \in 1 .. n - 1 : less[i] # run[n]
    BY <1>1, <1>2 DEF Distinct
  <2> QED
    BY <1>2, <2>1, MembersOf
<1> DEFINE vec == Append(less, run[n])
<1>5. /\ vec \in Seq(PluginNames) /\ Len(vec) = n /\ vec[n] = run[n]
      /\ \A i \in 1 .. n - 1 : vec[i] = less[i]
  <2>1. /\ vec \in Seq(PluginNames) /\ Len(vec) = Len(less) + 1 /\ vec[Len(less) + 1] = run[n]
        /\ \A i \in 1 .. Len(less) : vec[i] = less[i]
    BY <1>1, <1>2, MembersOfAppend
  <2> QED
    BY <1>1, <1>2, <2>1
<1> HIDE DEF vec
<1>6. vec = more
  <2>1. \A i \in 1 .. n : vec[i] = more[i]
    BY <1>1, <1>2, <1>3, <1>5
  <2> QED
    BY <1>3, <1>5, <2>1, SeqEqual
<1>7. Front(vec) = less
  BY <1>1, <1>2, FrontOfAppend DEF vec
<1> QED
  BY <1>1, <1>4, <1>6, <1>7 DEF less, more, vec

ListBy(t, u, end, init, list, w) ==
  /\ u[0] = t /\ end = u[Len(list)]
  /\ \A n \in 1 .. Len(list) : u[n] = IF init THEN InitWindow(u[n - 1], list[n], w)
                                      ELSE FiniWindow(u[n - 1], list[n], w)

LEMMA ListTasks ==
  ASSUME NEW t, NEW init, NEW w, NEW list \in Seq(PluginNames)
  PROVE  ListBy(t, CarriedBy(t, ForPlugins(init, list, w)), Carried(t, ForPlugins(init, list, w)),
                init, list, w)
<1> DEFINE tasks == ForPlugins(init, list, w)
           u == CarriedBy(t, tasks)
<1>1. Len(tasks) = Len(list) /\ \A n \in 1 .. Len(list) : tasks[n] = Task(init, list[n], w)
  BY PluginTasksAre
<1>2. Len(list) \in Nat
  OBVIOUS
<1> HIDE DEF tasks
<1>4. /\ u[0] = t
      /\ \A n \in 1 .. Len(tasks) :
            u[n] = IF tasks[n].init THEN InitWindow(u[n - 1], tasks[n].plugin, tasks[n].window)
                   ELSE FiniWindow(u[n - 1], tasks[n].plugin, tasks[n].window)
  BY <1>1, <1>2, CarriedSteps
<1>5. Carried(t, tasks) = u[Len(list)]
  BY <1>1, CarriedIs
<1> HIDE DEF u
<1>6. ASSUME NEW n \in 1 .. Len(list)
      PROVE  u[n] = IF init THEN InitWindow(u[n - 1], list[n], w)
                    ELSE FiniWindow(u[n - 1], list[n], w)
  <2>1. tasks[n].init = init /\ tasks[n].plugin = list[n] /\ tasks[n].window = w
    BY <1>1, TaskIs
  <2> QED
    BY <1>1, <1>4, <2>1
<1> DEFINE end == Carried(t, tasks)
<1> HIDE DEF end
<1>7. ListBy(t, u, end, init, list, w)
  BY <1>4, <1>5, <1>6 DEF ListBy, end
<1> QED
  BY <1>7 DEF tasks, u, end

(* A window whose objects are made while others have theirs.               *)
Filling(t, a, run, w, n) ==
  /\ Coherent(t, run) /\ t.stacked = a.stacked /\ DOMAIN t.slots = DOMAIN a.slots
  /\ \A x \in DOMAIN a.slots \ {w} : t.slots[x] = a.slots[x]
  /\ \A j \in 1 .. Len(run) : t.slots[w][j] = IF j <= n THEN Live(run[j]) ELSE Null

LEMMA FillingGrows ==
  ASSUME NEW t, NEW a, NEW run, NEW w \in DOMAIN a.slots, NEW n \in 1 .. Len(run),
         Filling(t, a, run, w, n - 1)
  PROVE  Filling(InitWindow(t, run[n], w), a, run, w, n)
<1> DEFINE z == InitWindow(t, run[n], w)
<1>1. /\ Coherent(t, run) /\ t.stacked = a.stacked /\ DOMAIN t.slots = DOMAIN a.slots
      /\ \A x \in DOMAIN a.slots \ {w} : t.slots[x] = a.slots[x]
      /\ \A j \in 1 .. Len(run) : t.slots[w][j] = IF j <= n - 1 THEN Live(run[j]) ELSE Null
  BY DEF Filling
<1>2. Len(run) \in Nat /\ Len(t.slots[w]) \in Nat /\ Len(run) <= Len(t.slots[w])
  BY <1>1, CoherentTypes
<1>3. t.slots[w][n] = Null
  BY <1>1, <1>2
<1>4. SlotFilled(z, t, run, w, n, Live(run[n]))
  BY <1>1, <1>3, InitKnown
<1> HIDE DEF z
<1>5. Coherent(z, run) /\ z.stacked = t.stacked /\ SlotSet(z.slots, t.slots, w, n, Live(run[n]))
  BY <1>4 DEF SlotFilled
<1>6. /\ DOMAIN z.slots = DOMAIN a.slots /\ \A x \in DOMAIN a.slots \ {w} : z.slots[x] = a.slots[x]
      /\ \A j \in 1 .. Len(t.slots[w]) :
            z.slots[w][j] = IF j = n THEN Live(run[n]) ELSE t.slots[w][j]
  BY <1>1, <1>5 DEF SlotSet
<1>7. ASSUME NEW j \in 1 .. Len(run)
      PROVE  z.slots[w][j] = IF j <= n THEN Live(run[j]) ELSE Null
  <2>1. j \in 1 .. Len(t.slots[w])
    BY <1>2
  <2>2. CASE j = n
    <3>1. j <= n
      BY <1>2, <2>2
    <3> QED
      BY <1>6, <2>1, <2>2, <3>1
  <2>3. CASE j # n
    <3>1. j <= n <=> j <= n - 1
      BY <1>2, <2>3
    <3>2. z.slots[w][j] = t.slots[w][j]
      BY <1>6, <2>1, <2>3
    <3> QED
      BY <1>1, <3>1, <3>2
  <2> QED
    BY <2>2, <2>3
<1> QED
  BY <1>1, <1>5, <1>6, <1>7 DEF Filling, z

(* The objects of the only window: they give the plugins their indices.    *)
Founding(t, W, run, w, n) ==
  /\ Coherent(t, FirstOnes(run, n)) /\ t.stacked = W /\ DOMAIN t.slots = {w}
  /\ \A j \in 1 .. n : t.slots[w][j] = Live(run[j])

LEMMA FoundingGrows ==
  ASSUME NEW run \in Seq(PluginNames), Distinct(run), NEW w, NEW n \in 1 .. Len(run), NEW t,
         Founding(t, {w}, run, w, n - 1)
  PROVE  Founding(InitWindow(t, run[n], w), {w}, run, w, n)
<1> DEFINE z == InitWindow(t, run[n], w)
           less == FirstOnes(run, n - 1)
           more == FirstOnes(run, n)
           q == run[n]
<1>1. /\ Coherent(t, less) /\ DOMAIN t.slots = {w} /\ t.stacked = {w}
      /\ \A j \in 1 .. n - 1 : t.slots[w][j] = Live(run[j])
  BY DEF Founding
<1>2. /\ n - 1 \in 0 .. Len(run) /\ n - 1 + 1 = n /\ q \in PluginNames
      /\ q \notin ToSet(less) /\ Append(less, q) = more
  BY OneMore
<1>3. Len(less) = n - 1
  BY <1>2, FirstOnesAre
<1> HIDE DEF less, more, q, z
<1>4. w \in DOMAIN t.slots /\ DOMAIN t.slots = t.stacked
  BY <1>1
<1>8. /\ ColumnBegun(Construct(Located(t, q), q, w), t, less, q, w)
      /\ InitWindow(t, q, w) = Construct(Located(t, q), q, w)
  BY <1>1, <1>2, <1>4, ConstructedFirst
<1>5. ColumnBegun(InitWindow(t, q, w), t, less, q, w)
  BY <1>8
<1>6. /\ Coherent(InitWindow(t, q, w), more) /\ InitWindow(t, q, w).stacked = t.stacked
      /\ DOMAIN InitWindow(t, q, w).slots = DOMAIN t.slots
      /\ \A j \in 1 .. n - 1 : InitWindow(t, q, w).slots[w][j] = t.slots[w][j]
      /\ InitWindow(t, q, w).slots[w][n] = Live(q)
  BY <1>2, <1>3, <1>4, <1>5 DEF ColumnBegun
<1>7. ASSUME NEW j \in 1 .. n
      PROVE  InitWindow(t, q, w).slots[w][j] = Live(run[j])
  <2>1. CASE j = n
    BY <1>6, <2>1 DEF q
  <2>2. CASE j # n
    <3>1. j \in 1 .. n - 1
      BY <2>2
    <3> QED
      BY <1>1, <1>6, <3>1
  <2> QED
    BY <2>1, <2>2
<1> QED
  BY <1>1, <1>6, <1>7 DEF Founding, more, q, z

LEMMA RegularAdded ==
  ASSUME NEW st, NEW run, Regular(st, run), NEW w \in Windows \ DOMAIN st.slots,
         st.stacked \subseteq DOMAIN st.slots
  PROVE  Regular(InitPlugins(AddWindow(st, w), run, w), run)
<1> DEFINE a == AddWindow(st, w)
           u == CarriedBy(a, ForPlugins(TRUE, run, w))
           z == InitPlugins(a, run, w)
<1>1. Typed(st) /\ run \in Seq(PluginNames) /\ Distinct(run) /\ Len(run) \in Nat
  BY RegularTypes
<1>2. VectorAdded(a, st, w)
  BY <1>1, AddWindowIs
<1> HIDE DEF a
<1>3. /\ DOMAIN a.slots = DOMAIN st.slots \cup {w} /\ a.stacked = st.stacked \cup {w}
      /\ \A x \in DOMAIN st.slots : a.slots[x] = st.slots[x]
  BY <1>2 DEF VectorAdded
<1>8. ListBy(a, u, Carried(a, ForPlugins(TRUE, run, w)), TRUE, run, w)
  BY <1>1, ListTasks
<1>9. ListBy(a, u, z, TRUE, run, w)
  BY <1>8 DEF InitPlugins
<1> HIDE DEF u, z
<1>5. z = u[Len(run)]
  BY <1>9 DEF ListBy
<1>4. u[0] = a /\ \A n \in 1 .. Len(run) : u[n] = InitWindow(u[n - 1], run[n], w)
  BY <1>9 DEF ListBy
<1>6. CASE DOMAIN st.slots # {}
  <2> DEFINE J == {n \in 0 .. Len(run) : Filling(u[n], a, run, w, n)}
  <2>1. Coherent(st, run) /\ w \notin DOMAIN st.slots
    BY <1>6 DEF Regular
  <2>2. Coherent(a, run) /\ \A i \in 1 .. Len(run) : a.slots[w][i] = Null
    BY <1>2, <2>1, AddedCoherent
  <2>3. 0 \in J
    <3>1. \A j \in 1 .. Len(run) : ~ (j <= 0)
      BY <1>1
    <3>2. Filling(a, a, run, w, 0)
      BY <2>2, <3>1 DEF Filling
    <3>3. 0 \in 0 .. Len(run)
      BY <1>1
    <3> QED
      BY <1>4, <3>2, <3>3
  <2>4. ASSUME NEW n \in 1 .. Len(run), n - 1 \in J
        PROVE  n \in J
    <3>1. Filling(u[n - 1], a, run, w, n - 1) /\ n \in 0 .. Len(run) /\ w \in DOMAIN a.slots
      BY <1>3, <2>4
    <3>2. Filling(InitWindow(u[n - 1], run[n], w), a, run, w, n)
      BY <3>1, FillingGrows
    <3> QED
      BY <1>4, <3>1, <3>2
  <2> HIDE DEF J
  <2>5. Len(run) \in J
    <3>1. \A n \in 0 .. Len(run) : n \in J
      BY <1>1, <2>3, <2>4, CountingUp
    <3> QED
      BY <1>1, <3>1
  <2>6. Filling(z, a, run, w, Len(run))
    BY <1>5, <2>5 DEF J
  <2>7. /\ Coherent(z, run) /\ DOMAIN z.slots = DOMAIN st.slots \cup {w}
        /\ \A x \in DOMAIN st.slots : z.slots[x] = st.slots[x]
        /\ \A j \in 1 .. Len(run) : z.slots[w][j] = IF j <= Len(run) THEN Live(run[j]) ELSE Null
    BY <1>3, <2>6 DEF Filling
  <2>8. \A j \in 1 .. Len(run) : z.slots[w][j] = Live(run[j])
    <3>1. \A j \in 1 .. Len(run) : j <= Len(run)
      BY <1>1
    <3> QED
      BY <2>7, <3>1
  <2>9. Regular(z, run)
    BY <1>1, <2>7, <2>8 DEF Regular
  <2> QED
    BY <2>9 DEF z, a
<1>7. CASE DOMAIN st.slots = {}
  <2> DEFINE J == {n \in 0 .. Len(run) : Founding(u[n], {w}, run, w, n)}
  <2>1. Coherent(st, << >>) /\ w \notin DOMAIN st.slots
    BY <1>7 DEF Regular
  <2>2. Coherent(a, << >>) /\ DOMAIN a.slots = {w} /\ a.stacked = {w}
    BY <1>2, <1>3, <1>7, <2>1, AddedCoherent
  <2>3. 0 \in J
    <3>1. 0 \in 0 .. Len(run)
      BY <1>1
    <3>2. FirstOnes(run, 0) = << >>
      BY <1>1, <3>1, FirstOnesAre
    <3>3. Founding(a, {w}, run, w, 0)
      BY <2>2, <3>2 DEF Founding
    <3> QED
      BY <1>4, <3>1, <3>3
  <2>4. ASSUME NEW n \in 1 .. Len(run), n - 1 \in J
        PROVE  n \in J
    <3>1. Founding(u[n - 1], {w}, run, w, n - 1) /\ n \in 0 .. Len(run)
      BY <2>4
    <3>2. Founding(InitWindow(u[n - 1], run[n], w), {w}, run, w, n)
      BY <1>1, <3>1, FoundingGrows
    <3> QED
      BY <1>4, <3>1, <3>2
  <2> HIDE DEF J
  <2>5. Len(run) \in J
    <3>1. \A n \in 0 .. Len(run) : n \in J
      BY <1>1, <2>3, <2>4, CountingUp
    <3> QED
      BY <1>1, <3>1
  <2>6. Founding(z, {w}, run, w, Len(run))
    BY <1>5, <2>5 DEF J
  <2>7. FirstOnes(run, Len(run)) = run
    BY <1>1, FirstOnesAre
  <2>8. Regular(z, run)
    BY <1>1, <2>6, <2>7 DEF Regular, Founding
  <2> QED
    BY <2>8 DEF z, a
<1> QED
  BY <1>6, <1>7

LEMMA ReverseIs ==
  ASSUME NEW run \in Seq(PluginNames)
  PROVE  /\ Reverse(run) \in Seq(PluginNames) /\ Len(Reverse(run)) = Len(run)
         /\ \A n \in 1 .. Len(run) : Reverse(run)[n] = run[Len(run) - n + 1]
<1>1. Len(run) \in Nat /\ \A n \in 1 .. Len(run) : Len(run) - n + 1 \in 1 .. Len(run)
  OBVIOUS
<1>2. Reverse(run) = [n \in 1 .. Len(run) |-> run[Len(run) - n + 1]]
  BY DEF Reverse
<1>3. \A n \in 1 .. Len(run) : run[Len(run) - n + 1] \in PluginNames
  BY <1>1
<1>4. Reverse(run) \in Seq(PluginNames) /\ Len(Reverse(run)) = Len(run)
  BY <1>1, <1>2, <1>3
<1> QED
  BY <1>2, <1>4

(* A window whose objects are deleted, the last first, while others have   *)
(* theirs: those of the first n plugins are left.                          *)
Emptying(t, st, run, w, n) ==
  /\ Coherent(t, run) /\ t.stacked = st.stacked /\ DOMAIN t.slots = DOMAIN st.slots
  /\ \A x \in DOMAIN st.slots \ {w} : t.slots[x] = st.slots[x]
  /\ \A j \in 1 .. Len(run) : t.slots[w][j] = IF j <= n THEN Live(run[j]) ELSE Dead(run[j])

LEMMA EmptyingGoes ==
  ASSUME NEW st, NEW run, Regular(st, run), NEW t, NEW w \in DOMAIN st.slots,
         NEW n \in 1 .. Len(run), Emptying(t, st, run, w, n), NEW other \in DOMAIN st.slots \ {w}
  PROVE  Emptying(FiniWindow(t, run[n], w), st, run, w, n - 1)
<1> DEFINE z == FiniWindow(t, run[n], w)
<1>1. /\ Coherent(t, run) /\ t.stacked = st.stacked /\ DOMAIN t.slots = DOMAIN st.slots
      /\ \A x \in DOMAIN st.slots \ {w} : t.slots[x] = st.slots[x]
      /\ \A j \in 1 .. Len(run) : t.slots[w][j] = IF j <= n THEN Live(run[j]) ELSE Dead(run[j])
  BY DEF Emptying
<1>2. Len(run) \in Nat /\ Len(t.slots[w]) \in Nat /\ Len(run) <= Len(t.slots[w])
  BY <1>1, CoherentTypes
<1>3. n <= n
  BY <1>2
<1>4. t.slots[w][n] = Live(run[n]) /\ w \in DOMAIN t.slots
  BY <1>1, <1>3
<1>5. \E x \in DOMAIN t.slots \ {w} : t.slots[x][n] = Live(run[n])
  <2>1. t.slots[other] = st.slots[other] /\ st.slots[other][n] = Live(run[n])
        /\ other \in DOMAIN t.slots \ {w}
    BY <1>1 DEF Regular
  <2> QED
    BY <2>1
<1>6. SlotFilled(z, t, run, w, n, Dead(run[n]))
  BY <1>1, <1>4, <1>5, FiniKnown
<1> HIDE DEF z
<1>7. Coherent(z, run) /\ z.stacked = t.stacked /\ SlotSet(z.slots, t.slots, w, n, Dead(run[n]))
  BY <1>6 DEF SlotFilled
<1>8. /\ DOMAIN z.slots = DOMAIN st.slots
      /\ \A x \in DOMAIN st.slots \ {w} : z.slots[x] = st.slots[x]
      /\ \A j \in 1 .. Len(t.slots[w]) :
            z.slots[w][j] = IF j = n THEN Dead(run[n]) ELSE t.slots[w][j]
  BY <1>1, <1>7 DEF SlotSet
<1>9. ASSUME NEW j \in 1 .. Len(run)
      PROVE  z.slots[w][j] = IF j <= n - 1 THEN Live(run[j]) ELSE Dead(run[j])
  <2>1. j \in 1 .. Len(t.slots[w])
    BY <1>2
  <2>2. CASE j = n
    <3>1. ~ (j <= n - 1)
      BY <1>2, <2>2
    <3> QED
      BY <1>8, <2>1, <2>2, <3>1
  <2>3. CASE j # n
    <3>1. j <= n <=> j <= n - 1
      BY <1>2, <2>3
    <3>2. z.slots[w][j] = t.slots[w][j]
      BY <1>8, <2>1, <2>3
    <3> QED
      BY <1>1, <3>1, <3>2
  <2> QED
    BY <2>2, <2>3
<1> QED
  BY <1>1, <1>7, <1>8, <1>9 DEF Emptying, z

LEMMA FoundingGoes ==
  ASSUME NEW run \in Seq(PluginNames), Distinct(run), NEW w, NEW n \in 1 .. Len(run), NEW t,
         NEW W, Founding(t, W, run, w, n)
  PROVE  Founding(FiniWindow(t, run[n], w), W, run, w, n - 1)
<1> DEFINE z == FiniWindow(t, run[n], w)
           less == FirstOnes(run, n - 1)
           more == FirstOnes(run, n)
<1>1. /\ Coherent(t, more) /\ DOMAIN t.slots = {w} /\ t.stacked = W
      /\ \A j \in 1 .. n : t.slots[w][j] = Live(run[j])
  BY DEF Founding
<1>2. n - 1 \in 0 .. Len(run) /\ n \in 0 .. Len(run) /\ Front(more) = less
  BY OneMore
<1>3. Len(more) = n /\ \A j \in 1 .. n : more[j] = run[j]
  BY <1>2, FirstOnesAre
<1> HIDE DEF less, more
<1>4. n \in 1 .. n /\ \A j \in 1 .. n - 1 : j \in 1 .. n
  OBVIOUS
<1>5. /\ w \in DOMAIN t.slots /\ t.slots[w][n] = Live(more[n]) /\ more[n] = run[n]
      /\ n \in 1 .. Len(more) /\ n = Len(more)
      /\ ~ \E x \in DOMAIN t.slots \ {w} : t.slots[x][n] = Live(more[n])
  BY <1>1, <1>3, <1>4
<1>6. ListShrunk(FiniWindow(t, more[n], w), t, more)
  BY <1>1, <1>5, FiniKnown
<1>7. ListShrunk(z, t, more)
  BY <1>5, <1>6
<1> HIDE DEF z
<1>8. /\ Coherent(z, less) /\ z.stacked = W /\ DOMAIN z.slots = {w}
      /\ \A j \in 1 .. n - 1 : z.slots[w][j] = t.slots[w][j]
  BY <1>1, <1>2, <1>3, <1>7 DEF ListShrunk
<1>9. \A j \in 1 .. n - 1 : z.slots[w][j] = Live(run[j])
  BY <1>1, <1>4, <1>8
<1> QED
  BY <1>8, <1>9 DEF Founding, less, z

LEMMA RegularDropped ==
  ASSUME NEW st, NEW run, Regular(st, run), NEW w \in DOMAIN st.slots, w \notin st.stacked
  PROVE  Regular(DropWindow(FiniPlugins(st, Reverse(run), w), w), run)
<1> DEFINE back == Reverse(run)
           u == CarriedBy(st, ForPlugins(FALSE, back, w))
           z == FiniPlugins(st, back, w)
           d == DropWindow(z, w)
<1>1. Typed(st) /\ run \in Seq(PluginNames) /\ Distinct(run) /\ Len(run) \in Nat
  BY RegularTypes
<1>2. /\ back \in Seq(PluginNames) /\ Len(back) = Len(run)
      /\ \A n \in 1 .. Len(run) : back[n] = run[Len(run) - n + 1]
  BY <1>1, ReverseIs
<1> HIDE DEF back
<1>3. ListBy(st, u, Carried(st, ForPlugins(FALSE, back, w)), FALSE, back, w)
  BY <1>2, ListTasks
<1>4. ListBy(st, u, z, FALSE, back, w)
  BY <1>3 DEF FiniPlugins
<1> HIDE DEF u, z
<1>5. z = u[Len(run)]
  BY <1>2, <1>4 DEF ListBy
<1>6. /\ u[0] = st
      /\ \A n \in 1 .. Len(run) : u[n] = FiniWindow(u[n - 1], run[Len(run) - n + 1], w)
  BY <1>2, <1>4 DEF ListBy
<1>7. ASSUME Typed(z), z.stacked = st.stacked
      PROVE  VectorDropped(d, z, w)
  BY <1>7, DropWindowIs
<1> HIDE DEF d
<1>8. \A n \in 1 .. Len(run) : /\ Len(run) - n + 1 \in 1 .. Len(run) /\ n \in 0 .. Len(run)
                               /\ Len(run) - n + 1 - 1 = Len(run) - n
                               /\ Len(run) - (n - 1) = Len(run) - n + 1
  BY <1>1
<1>9. CASE DOMAIN st.slots # {w}
  <2> DEFINE J == {n \in 0 .. Len(run) : Emptying(u[n], st, run, w, Len(run) - n)}
  <2>1. PICK other \in DOMAIN st.slots \ {w} : TRUE
    BY <1>9
  <2>2. Coherent(st, run) /\ \A j \in 1 .. Len(run) : st.slots[w][j] = Live(run[j])
    BY DEF Regular
  <2>3. 0 \in J
    <3>1. /\ \A j \in 1 .. Len(run) : j <= Len(run) - 0
          /\ 0 \in 0 .. Len(run)
      BY <1>1
    <3>2. Emptying(st, st, run, w, Len(run) - 0)
      BY <2>2, <3>1 DEF Emptying
    <3> QED
      BY <1>6, <3>1, <3>2
  <2>4. ASSUME NEW n \in 1 .. Len(run), n - 1 \in J
        PROVE  n \in J
    <3> DEFINE k == Len(run) - n + 1
    <3>1. Emptying(u[n - 1], st, run, w, k) /\ k \in 1 .. Len(run) /\ n \in 0 .. Len(run)
          /\ k - 1 = Len(run) - n
      BY <1>8, <2>4
    <3>2. u[n] = FiniWindow(u[n - 1], run[k], w)
      BY <1>6
    <3> HIDE DEF k
    <3>3. Emptying(FiniWindow(u[n - 1], run[k], w), st, run, w, k - 1)
      BY <3>1, EmptyingGoes
    <3> QED
      BY <3>1, <3>2, <3>3
  <2> HIDE DEF J
  <2>5. Len(run) \in J
    <3>1. \A n \in 0 .. Len(run) : n \in J
      BY <1>1, <2>3, <2>4, CountingUp
    <3> QED
      BY <1>1, <3>1
  <2>6. Emptying(z, st, run, w, Len(run) - Len(run)) /\ Len(run) - Len(run) = 0
    BY <1>1, <1>5, <2>5 DEF J
  <2>7. /\ Coherent(z, run) /\ z.stacked = st.stacked /\ DOMAIN z.slots = DOMAIN st.slots
        /\ \A x \in DOMAIN st.slots \ {w} : z.slots[x] = st.slots[x]
        /\ \A j \in 1 .. Len(run) : z.slots[w][j] = IF j <= 0 THEN Live(run[j]) ELSE Dead(run[j])
    BY <2>6 DEF Emptying
  <2>8. \A j \in 1 .. Len(run) : \A q \in PluginNames : z.slots[w][j] # Live(q)
    <3>1. \A j \in 1 .. Len(run) : ~ (j <= 0)
      BY <1>1
    <3>2. \A j \in 1 .. Len(run) : z.slots[w][j] = Dead(run[j])
      BY <2>7, <3>1
    <3>3. \A x, q : Dead(x) # Live(q)
      BY DEF Dead, Live
    <3> QED
      BY <3>2, <3>3
  <2>9. VectorDropped(d, z, w)
    BY <1>7, <2>7, CoherentTypes
  <2>10. Coherent(d, run)
    BY <2>7, <2>8, <2>9, DroppedCoherent
  <2>11. /\ DOMAIN d.slots = DOMAIN st.slots \ {w}
         /\ \A x \in DOMAIN st.slots \ {w} : d.slots[x] = st.slots[x]
    BY <2>7, <2>9 DEF VectorDropped
  <2>12. \A x \in DOMAIN d.slots : \A j \in 1 .. Len(run) : d.slots[x][j] = Live(run[j])
    BY <2>11 DEF Regular
  <2>13. DOMAIN d.slots # {}
    BY <2>1, <2>11
  <2>14. Regular(d, run)
    BY <1>1, <2>10, <2>12, <2>13 DEF Regular
  <2> QED
    BY <2>14 DEF d, z, back
<1>10. CASE DOMAIN st.slots = {w}
  <2> DEFINE J == {n \in 0 .. Len(run) : Founding(u[n], st.stacked, run, w, Len(run) - n)}
  <2>1. Coherent(st, run) /\ \A j \in 1 .. Len(run) : st.slots[w][j] = Live(run[j])
    BY DEF Regular
  <2>2. 0 \in J
    <3>1. 0 \in 0 .. Len(run) /\ Len(run) - 0 = Len(run) /\ Len(run) \in 0 .. Len(run)
      BY <1>1
    <3>2. FirstOnes(run, Len(run)) = run
      BY <1>1, <3>1, FirstOnesAre
    <3>3. Founding(st, st.stacked, run, w, Len(run))
      BY <1>10, <2>1, <3>2 DEF Founding
    <3> QED
      BY <1>6, <3>1, <3>3
  <2>3. ASSUME NEW n \in 1 .. Len(run), n - 1 \in J
        PROVE  n \in J
    <3> DEFINE k == Len(run) - n + 1
    <3>1. Founding(u[n - 1], st.stacked, run, w, k) /\ k \in 1 .. Len(run) /\ n \in 0 .. Len(run)
          /\ k - 1 = Len(run) - n
      BY <1>8, <2>3
    <3>2. u[n] = FiniWindow(u[n - 1], run[k], w)
      BY <1>6
    <3> HIDE DEF k
    <3>3. Founding(FiniWindow(u[n - 1], run[k], w), st.stacked, run, w, k - 1)
      BY <1>1, <3>1, FoundingGoes
    <3> QED
      BY <3>1, <3>2, <3>3
  <2> HIDE DEF J
  <2>4. Len(run) \in J
    <3>1. \A n \in 0 .. Len(run) : n \in J
      BY <1>1, <2>2, <2>3, CountingUp
    <3> QED
      BY <1>1, <3>1
  <2>5. Founding(z, st.stacked, run, w, 0)
    <3>1. Len(run) - Len(run) = 0
      BY <1>1
    <3> QED
      BY <1>5, <2>4, <3>1 DEF J
  <2>6. FirstOnes(run, 0) = << >>
    <3>1. 0 \in 0 .. Len(run)
      BY <1>1
    <3> QED
      BY <1>1, <3>1, FirstOnesAre
  <2>7. Coherent(z, << >>) /\ z.stacked = st.stacked /\ DOMAIN z.slots = {w} /\ w \in DOMAIN z.slots
    BY <2>5, <2>6 DEF Founding
  <2>8. VectorDropped(d, z, w)
    BY <1>7, <2>7, CoherentTypes
  <2>9. \A j \in 1 .. Len(<< >>) : \A q \in PluginNames : z.slots[w][j] # Live(q)
    <3>1. Len(<< >>) = 0
      OBVIOUS
    <3> QED
      BY <3>1
  <2>10. Coherent(d, << >>)
    BY <2>7, <2>8, <2>9, DroppedCoherent
  <2>11. DOMAIN d.slots = {}
    BY <2>7, <2>8 DEF VectorDropped
  <2>12. Regular(d, run)
    BY <1>1, <2>10, <2>11 DEF Regular
  <2> QED
    BY <2>12 DEF d, z, back
<1> QED
  BY <1>9, <1>10

-----------------------------------------------------------------------------
(* As long as no plugin comes or goes while a destroyed window waits, all  *)
(* is regular, unless a plugin that runs was pushed again.                 *)
PluginsCalm ==
  crossings = 0 =>
    /\ ~ storage.broken => Regular(storage, plugins)
    /\ storage.broken => ToSet(plugins) \cap blacklist # {}

LEMMA CalmStart ==
  PluginsInit => PluginsCalm
<1> SUFFICES ASSUME PluginsInit
             PROVE  PluginsCalm
  OBVIOUS
<1> DEFINE t == StorageOf(PluginNames)
<1>1. storage = t /\ plugins = << >>
  BY DEF PluginsInit
<1>2. /\ Typed(t) /\ DOMAIN t.slots = {} /\ t.stacked = {} /\ t.broken = FALSE
      /\ t.indices = << >> /\ DOMAIN t.holder = {}
      /\ \A p \in PluginNames : t.class[p] = Unready
  BY FirstStorage
<1> HIDE DEF t
<1>3. << >> \in Seq(PluginNames) /\ Len(<< >>) = 0 /\ Distinct(<< >>)
  BY EmptyHasNone DEF Distinct
<1>4. IndexedBy(t, << >>)
  BY <1>2, <1>3 DEF IndexedBy
<1>5. FilledBy(t, << >>)
  BY <1>2 DEF FilledBy
<1>6. CountsMatch(t)
  <2> SUFFICES ASSUME NEW q \in PluginNames
               PROVE  t.class[q].refs = Cardinality(LiveAt(t.slots, q))
    BY DEF CountsMatch
  <2>1. LiveAt(t.slots, q) = {}
    BY <1>2 DEF LiveAt
  <2>2. t.class[q].refs = 0
    BY <1>2 DEF Unready
  <2> QED
    BY <2>1, <2>2, FS_EmptySet
<1>7. Coherent(t, << >>)
  BY <1>2, <1>3, <1>4, <1>5, <1>6 DEF Coherent
<1>8. Regular(t, << >>)
  BY <1>2, <1>3, <1>7 DEF Regular
<1>9. ~ storage.broken
  BY <1>1, <1>2
<1> QED
  BY <1>1, <1>8, <1>9 DEF PluginsCalm

LEMMA NothingToUpdate ==
  ASSUME PluginsShape, plugins = Wanted, NEW fails
  PROVE  Updated(fails) = Manager
<1>1. plugins \in Seq(PluginNames) /\ option \in Seq(PluginNames) /\ Len(plugins) \in Nat
  BY DEF PluginsShape
<1>2. CommonStart(Kept, plugins, Wanted) /\ UpdateSteps \in Nat
      /\ UpdateSteps - (Len(plugins) - Kept) = Len(Wanted) - Kept
  BY <1>1, KeptIs
<1>3. Kept = Len(plugins) /\ Len(Wanted) = Len(plugins)
  BY <1>2 DEF CommonStart
<1>4. UpdateSteps = 0
  BY <1>1, <1>2, <1>3
<1>5. UpdatedBy(fails)[0] = Manager
  BY <1>2, UpdatedSteps
<1> QED
  BY <1>4, <1>5 DEF Updated

LEMMA CalmUpdate ==
  ASSUME PluginsInv, PluginsCalm, ~ storage.broken, NEW fails, UpdatePlugins(fails)
  PROVE  PluginsCalm'
<1> DEFINE m == Updated(fails)
<1>1. PluginsShape /\ PluginsRight /\ crossings \in Nat
  BY DEF PluginsInv, PluginsShape
<1>2. /\ plugins' = m.plugins /\ blacklist' = m.blacklist /\ storage' = m.storage
      /\ crossings' = (IF destroyedWindows # {} /\ plugins # Wanted
                       THEN crossings + 1 ELSE crossings)
  BY DEF UpdatePlugins
<1>3. /\ Manager.plugins = plugins /\ Manager.blacklist = blacklist
      /\ Manager.storage = storage
  BY <1>1, ManagerStarts
<1> SUFFICES ASSUME crossings' = 0
             PROVE  /\ ~ storage'.broken => Regular(storage', plugins')
                    /\ storage'.broken => ToSet(plugins') \cap blacklist' # {}
  BY DEF PluginsCalm, Regular, Coherent, Typed, IndexedBy, FilledBy, CountsMatch
<1>4. crossings = 0 /\ (destroyedWindows = {} \/ plugins = Wanted)
  BY <1>1, <1>2
<1>5. Regular(storage, plugins)
  BY <1>4 DEF PluginsCalm
<1>6. CASE plugins = Wanted
  <2>1. m = Manager
    BY <1>1, <1>6, NothingToUpdate
  <2> HIDE DEF m
  <2>2. storage' = storage /\ plugins' = plugins
    BY <1>2, <1>3, <2>1
  <2> QED
    BY <1>5, <2>2
<1>7. CASE destroyedWindows = {}
  <2>1. DOMAIN storage.slots = storage.stacked
    BY <1>1, <1>7 DEF PluginsShape
  <2>2. CalmManager(Manager)
    BY <1>3, <1>5, <2>1 DEF CalmManager
  <2>3. CalmManager(m)
    BY <1>1, <2>2, CalmUpdated
  <2> HIDE DEF m
  <2> QED
    BY <1>2, <2>3 DEF CalmManager
<1> QED
  BY <1>4, <1>6, <1>7

LEMMA CalmWindows ==
  ASSUME PluginsInv, PluginsCalm, ~ storage.broken, NEW w \in Windows,
         CreateWindow(w) \/ DestroyWindow(w) \/ DeleteWindow(w)
  PROVE  PluginsCalm'
<1>1. /\ DOMAIN storage.slots = storage.stacked \cup destroyedWindows
      /\ storage.stacked \cap destroyedWindows = {} /\ Typed(storage)
  BY DEF PluginsInv, PluginsShape
<1>2. plugins' = plugins /\ blacklist' = blacklist /\ crossings' = crossings
  BY DEF CreateWindow, DestroyWindow, DeleteWindow
<1>7. ASSUME crossings = 0 => Regular(storage', plugins)
      PROVE  PluginsCalm'
  <2>1. ASSUME crossings = 0
        PROVE  Regular(storage', plugins) /\ storage'.broken = FALSE
    <3>1. Regular(storage', plugins)
      BY <1>7, <2>1
    <3> QED
      BY <3>1, RegularTypes
  <2>2. Regular(storage, plugins)' <=> Regular(storage', plugins)
    BY <1>2 DEF Regular, Coherent, Typed, IndexedBy, FilledBy, CountsMatch
  <2> QED
    BY <1>2, <2>1, <2>2 DEF PluginsCalm
<1> SUFFICES ASSUME crossings = 0
             PROVE  Regular(storage', plugins)
  BY <1>7
<1>3. Regular(storage, plugins)
  BY DEF PluginsCalm
<1>4. CASE CreateWindow(w)
  <2>1. w \in Windows \ DOMAIN storage.slots /\ storage.stacked \subseteq DOMAIN storage.slots
        /\ storage' = InitPlugins(AddWindow(storage, w), plugins, w)
    BY <1>1, <1>4 DEF CreateWindow
  <2>2. Regular(InitPlugins(AddWindow(storage, w), plugins, w), plugins)
    BY <1>3, <2>1, RegularAdded
  <2> QED
    BY <2>1, <2>2
<1>5. CASE DestroyWindow(w)
  <2>1. storage' = Unstack(storage, w)
    BY <1>5 DEF DestroyWindow
  <2>2. Unstacked(Unstack(storage, w), storage, w)
    BY <1>1, UnstackIs
  <2>3. Regular(Unstack(storage, w), plugins)
    BY <1>3, <2>2, RegularUnstacked
  <2> QED
    BY <2>1, <2>3
<1>6. CASE DeleteWindow(w)
  <2>1. w \in DOMAIN storage.slots /\ w \notin storage.stacked
        /\ storage' = DropWindow(FiniPlugins(storage, Reverse(plugins), w), w)
    BY <1>1, <1>6 DEF DeleteWindow
  <2>2. Regular(DropWindow(FiniPlugins(storage, Reverse(plugins), w), w), plugins)
    BY <1>3, <2>1, RegularDropped
  <2> QED
    BY <2>1, <2>2
<1> QED
  BY <1>4, <1>5, <1>6

LEMMA CalmUnchanged ==
  ASSUME PluginsCalm, UNCHANGED <<plugins, blacklist, storage, crossings>>
  PROVE  PluginsCalm'
BY DEF PluginsCalm, Regular, Coherent, Typed, IndexedBy, FilledBy, CountsMatch

LEMMA CalmKept ==
  PluginsInv /\ PluginsCalm /\ [PluginsNext]_pluginVars => PluginsCalm'
<1> SUFFICES ASSUME PluginsInv, PluginsCalm, [PluginsNext]_pluginVars
             PROVE  PluginsCalm'
  OBVIOUS
<1>1. CASE ~ storage.broken /\ \E list \in OptionLists : SetOption(list)
  BY <1>1, CalmUnchanged DEF SetOption
<1>2. CASE ~ storage.broken
           /\ \E fails \in SUBSET (NeverStarts \union NotForWindows) : UpdatePlugins(fails)
  BY <1>2, CalmUpdate
<1>3. CASE ~ storage.broken
           /\ \E w \in Windows : CreateWindow(w) \/ DestroyWindow(w) \/ DeleteWindow(w)
  BY <1>3, CalmWindows
<1>4. CASE UNCHANGED pluginVars
  BY <1>4, CalmUnchanged DEF pluginVars
<1> QED
  BY <1>1, <1>2, <1>3, <1>4 DEF PluginsNext, Undefined

LEMMA OneOnEveryWindow ==
  ASSUME NEW st, NEW run, Regular(st, run), DOMAIN st.slots # {}, NEW i \in 1 .. Len(run)
  PROVE  st.class[run[i]].refs = Cardinality(DOMAIN st.slots)
<1> DEFINE q == run[i]
           W == DOMAIN st.slots
           L == LiveAt(st.slots, q)
           f == [w \in W |-> <<w, i>>]
<1>1. Coherent(st, run) /\ q \in PluginNames /\ IsFiniteSet(W)
  BY RegularTypes, CoherentTypes DEF Regular
<1>2. \A w \in W : i \in 1 .. Len(st.slots[w]) /\ st.slots[w][i] = Live(q)
  <2>1. Len(run) \in Nat /\ \A w \in W : Len(st.slots[w]) \in Nat /\ Len(run) <= Len(st.slots[w])
    BY <1>1, CoherentTypes
  <2> QED
    BY <2>1 DEF Regular
<1>6. q = run[i]
  OBVIOUS
<1> HIDE DEF q
<1>3. \A w \in W : \A j : <<w, j>> \in L <=> j = i
  <2>1. ASSUME NEW w \in W, NEW j, <<w, j>> \in L
        PROVE  j = i
    <3>1. j \in 1 .. Len(st.slots[w]) /\ st.slots[w][j] = Live(q)
      BY <2>1, InLive
    <3>2. j <= Len(run) /\ run[j] = q
      BY <1>1, <3>1 DEF Coherent, FilledBy
    <3>3. j \in 1 .. Len(run)
      <4>1. Len(run) \in Nat /\ Len(st.slots[w]) \in Nat
        BY <1>1, CoherentTypes
      <4> QED
        BY <3>1, <3>2, <4>1
    <3> QED
      BY <1>1, <1>6, <3>2, <3>3 DEF Coherent, Distinct
  <2>2. \A w \in W : <<w, i>> \in L
    BY <1>2, InLive
  <2> QED
    BY <2>1, <2>2
<1>4. \A y \in L : \E w \in W : y = <<w, i>>
  <2>1. \A y \in L : \E w \in W : \E j : y = <<w, j>>
    BY InLive
  <2> QED
    BY <1>3, <2>1
<1> HIDE DEF W, L
<1>5. f \in [W -> L]
  BY <1>3
<1>7. \A a, b \in W : f[a] = f[b] => a = b
  OBVIOUS
<1>8. \A y \in L : \E w \in W : f[w] = y
  BY <1>4
<1> HIDE DEF f
<1>11. f \in Injection(W, L)
  BY <1>5, <1>7 DEF Injection, IsInjective
<1>12. f \in Surjection(W, L)
  BY <1>5, <1>8 DEF Surjection
<1>9. ExistsBijection(W, L)
  BY <1>11, <1>12 DEF ExistsBijection, Bijection
<1>10. Cardinality(L) = Cardinality(W)
  BY <1>1, <1>9, FS_Bijection
<1> QED
  BY <1>1, <1>6, <1>10 DEF Coherent, CountsMatch, L, W

LEMMA NoneOfOthers ==
  ASSUME NEW st, NEW list, Coherent(st, list), NEW q \in PluginNames, q \notin ToSet(list)
  PROVE  st.class[q].refs = 0
<1>1. LiveAt(st.slots, q) = {}
  <2>1. SUFFICES ASSUME NEW y \in LiveAt(st.slots, q)
                 PROVE  FALSE
    OBVIOUS
  <2>2. PICK w \in DOMAIN st.slots : \E j \in 1 .. Len(st.slots[w]) : y = <<w, j>>
    BY InLive
  <2>3. PICK j \in 1 .. Len(st.slots[w]) : y = <<w, j>>
    BY <2>2
  <2>4. st.slots[w][j] = Live(q)
    BY <2>1, <2>3, InLive
  <2>5. j <= Len(list) /\ list[j] = q
    BY <2>4 DEF Coherent, FilledBy
  <2>6. list \in Seq(PluginNames) /\ Len(list) \in Nat /\ Len(st.slots[w]) \in Nat
    BY CoherentTypes
  <2>7. j \in 1 .. Len(list)
    BY <2>3, <2>5, <2>6
  <2> QED
    BY <2>5, <2>6, <2>7, MembersOf
<1> QED
  BY <1>1, FS_EmptySet DEF Coherent, CountsMatch

LEMMA CalmIsLive ==
  ASSUME PluginsInv, PluginsCalm
  PROVE  ObjectsLiveWhenCalm
<1> SUFFICES ASSUME crossings = 0
             PROVE  /\ ObjectsLive
                    /\ storage.broken => ToSet(plugins) \intersect blacklist # {}
                    /\ ~ storage.broken => \A p \in PluginNames :
                           storage.class[p].refs = IF p \in ToSet(plugins)
                                                   THEN Cardinality(DOMAIN storage.slots) ELSE 0
  BY DEF ObjectsLiveWhenCalm
<1>1. storage.broken => ToSet(plugins) \intersect blacklist # {}
  BY DEF PluginsCalm
<1>2. ASSUME ~ storage.broken
      PROVE  Regular(storage, plugins) /\ plugins \in Seq(PluginNames)
  BY <1>2, RegularTypes DEF PluginsCalm
<1>3. ObjectsLive
  <2> SUFFICES ASSUME NEW p \in ToSet(plugins), NEW w \in storage.stacked, ~ storage.broken
               PROVE  HasObject(p, w)
    BY DEF ObjectsLive
  <2>1. Regular(storage, plugins) /\ plugins \in Seq(PluginNames) /\ w \in DOMAIN storage.slots
    BY <1>2, RegularTypes
  <2>2. PICK i \in 1 .. Len(plugins) : plugins[i] = p
    BY <2>1, MembersOf
  <2>3. Coherent(storage, plugins) /\ storage.slots[w][i] = Live(p)
    BY <2>1, <2>2 DEF Regular
  <2> DEFINE u == Located(storage, plugins[i])
  <2>4. FoundOld(u, storage, plugins, i)
    BY <2>3, FoundOldIs
  <2> HIDE DEF u
  <2>5. Coherent(u, plugins) /\ u.slots = storage.slots /\ u.class[plugins[i]].index = i
    BY <2>4 DEF FoundOld
  <2>6. InRange(u, plugins[i], w) /\ SlotOf(u, plugins[i], w) = u.slots[w][i]
    BY <2>1, <2>5, InRangeOf
  <2> QED
    BY <2>2, <2>3, <2>5, <2>6 DEF HasObject, u, Live
<1>4. ASSUME ~ storage.broken, NEW p \in PluginNames
      PROVE  storage.class[p].refs = IF p \in ToSet(plugins)
                                     THEN Cardinality(DOMAIN storage.slots) ELSE 0
  <2>1. Regular(storage, plugins) /\ plugins \in Seq(PluginNames)
    BY <1>2, <1>4
  <2>2. CASE DOMAIN storage.slots = {}
    <3>1. Coherent(storage, << >>) /\ p \notin ToSet(<< >>)
      BY <2>1, <2>2, EmptyHasNone DEF Regular
    <3>2. storage.class[p].refs = 0
      BY <3>1, NoneOfOthers
    <3> QED
      BY <2>2, <3>2, FS_EmptySet
  <2>3. CASE DOMAIN storage.slots # {} /\ p \in ToSet(plugins)
    <3>1. PICK i \in 1 .. Len(plugins) : plugins[i] = p
      BY <2>1, <2>3, MembersOf
    <3>2. storage.class[plugins[i]].refs = Cardinality(DOMAIN storage.slots)
      BY <2>1, <2>3, OneOnEveryWindow
    <3> QED
      BY <2>3, <3>1, <3>2
  <2>4. CASE DOMAIN storage.slots # {} /\ p \notin ToSet(plugins)
    <3>1. Coherent(storage, plugins)
      BY <2>1, <2>4 DEF Regular
    <3>2. storage.class[p].refs = 0
      BY <2>4, <3>1, NoneOfOthers
    <3> QED
      BY <2>4, <3>2
  <2> QED
    BY <2>2, <2>3, <2>4
<1> QED
  BY <1>1, <1>3, <1>4

(* Every running plugin has its own living object on every window of the   *)
(* stack, and a class counts one reference for every window, as long as no *)
(* plugin comes or goes while a destroyed window waits to be deleted.      *)
THEOREM ObjectsStayLive == PluginsSpec => []ObjectsLiveWhenCalm
<1> DEFINE Inv == PluginsInv /\ PluginsCalm
<1>1. PluginsInit => Inv
  BY PluginsStart, CalmStart
<1>2. Inv /\ [PluginsNext]_pluginVars => Inv'
  BY PluginsKept, CalmKept
<1>3. Inv => ObjectsLiveWhenCalm
  BY CalmIsLive
<1> HIDE DEF Inv
<1> QED
  BY <1>1, <1>2, <1>3, PTL DEF PluginsSpec
=============================================================================
