--------------------------- MODULE WindowStackProofs ---------------------------
(***************************************************************************)
(* Theorems about WindowStack for any clients, frames and bounds: types    *)
(* (no list names a window twice), that frames go with their clients, that *)
(* the neighbours of kept windows exist, and that the order of windows and *)
(* the order compiz plans with are the server's when no event is left to   *)
(* read.  The first three rest on one invariant of the windows' lives: the *)
(* events that name a window come after the CreateNotify that introduces   *)
(* it (Births), a client is framed and unmapped once (Server, OneUnmap),   *)
(* and the links between kept windows only lead to windows that were       *)
(* destroyed later (Kept).  The others add a story (Told): there are       *)
(* orders, one before and one after each event under way, that start with  *)
(* what compiz has and end with what the server has, and each event tells  *)
(* the difference.  Which events are under way for frames that come and go *)
(* is said by Orderly.  The plan has a story of its own (Planned), whose   *)
(* orders have been through the requests already.                          *)
(***************************************************************************)
EXTENDS WindowStack, ListLemmas, TLAPS

KeptWins == {kept[i].win : i \in DOMAIN kept}

(* What compiz knows of, or still has to forget                            *)
Listed == ToSet(windows) \cup ToSet(serverWindows) \cup KeptWins

Names(e, w) == e.win = w \/ (e.type = "Configure" /\ e.above = w)

Pending(type, w) == \E i \in DOMAIN events : events[i].type = type /\ events[i].win = w

Unheard(w) ==
    /\ w \notin Listed /\ w \notin ToSet(root) /\ w \notin wrapped
    /\ \A i \in DOMAIN events : ~ Names(events[i], w)

(* Windows that do not exist yet                                           *)
NotBorn ==
    /\ \A c \in Clients \ born : Unheard(c)
    /\ \A c \in Managed \ asked : Unheard(FrameOf[c])

(* A client's only request to be mapped, which may give it its frame       *)
OneRequest ==
    /\ \A i \in DOMAIN events : events[i].type = "MapRequest" => events[i].win \in asked
    /\ \A c \in asked : \A i \in DOMAIN events :
          events[i].type = "MapRequest" /\ events[i].win = c =>
              /\ c \notin framed /\ Unheard(FrameOf[c])
              /\ \A j \in DOMAIN events :
                    events[j].type = "MapRequest" /\ events[j].win = c => j = i

(* A CreateNotify comes before anything else that is said of the window.   *)
Introduced ==
    \A i \in DOMAIN events : events[i].type = "Create" =>
        /\ events[i].win \notin Listed
        /\ \A j \in DOMAIN events : j < i => ~ Names(events[j], events[i].win)

(* A client's frame is no window of compiz while it is the client's.       *)
FramesApart ==
    \A c \in framed :
        /\ c \in asked /\ FrameOf[c] \notin Listed
        /\ c \in known <=> ~ Pending("Create", FrameOf[c])

Births == NotBorn /\ OneRequest /\ Introduced /\ FramesApart

FramesStand ==
    /\ wrapped \cap ToSet(root) = {} /\ wrapped \subseteq framed
    /\ \A c \in framed : FrameOf[c] \in ToSet(root)

(* Nothing is heard of a client after its DestroyNotify ...                *)
DestroyIsLast ==
    \A i \in DOMAIN events :
        events[i].type = "Destroy" /\ events[i].win \in Managed =>
            /\ events[i].win \notin ToSet(root) /\ events[i].win \notin wrapped
            /\ \A j \in DOMAIN events :
                  i < j /\ events[j].type = "Unmap" => events[j].win # events[i].win

(* ... so that compiz heard of the unmapping before, and only a plugin can *)
(* have kept it from taking the frame away.                                *)
UnmapComes ==
    \A c \in framed : c \in unmapHeld \/ c \in shown \/ Pending("Unmap", c)

FramesOwned ==
    \A c \in Managed : FrameOf[c] \in ToSet(root) => c \in framed \cup forgotten

Server == FramesStand /\ DestroyIsLast /\ UnmapComes /\ FramesOwned

(* A client is unmapped once, before a plugin can hold a reference of it.  *)
OneUnmap ==
    /\ unmapHeld \cap shown = {}
    /\ \A i \in DOMAIN events : events[i].type = "Unmap" /\ events[i].win \in Managed =>
          /\ events[i].win \in framed \ (unmapHeld \cup shown)
          /\ \A j \in DOMAIN events :
                events[j].type = "Unmap" /\ events[j].win = events[i].win => j = i

(* The neighbours a kept window remembers are live or were destroyed after *)
(* it, so that the repairs never lead back to a window that is gone.       *)
Kept ==
    /\ ToSet(windows) \cap KeptWins = {}
    /\ \A i, j \in DOMAIN kept : kept[i].win = kept[j].win => i = j
    /\ \A i \in DOMAIN kept : \A n \in {kept[i].prev, kept[i].next} :
          \/ n = Nothing \/ n \in ToSet(windows)
          \/ \E j \in DOMAIN kept : i < j /\ kept[j].win = n

Restacks    == [serial : 1 .. MaxRequests, sibling : Ids \cup {Nothing}]
KeptWindows == [win : Ids, prev : Ids \cup {Nothing}, next : Ids \cup {Nothing},
                released : BOOLEAN]

Shaped == pendings \in [Managed -> SUBSET Restacks] /\ kept \in Seq(KeptWindows)

StackInv == StackTypeOK /\ Shaped /\ Births /\ Server /\ OneUnmap /\ Kept

-----------------------------------------------------------------------------
(* Orders                                                                  *)

LEMMA FrameIds ==
  ASSUME NEW c \in Managed
  PROVE  /\ FrameOf[c] \in Ids /\ FrameOf[c] \in Frames /\ FrameOf[c] \notin Clients
         /\ FrameOf[c] # Nothing /\ c \in Ids /\ c \in Clients
         /\ \A e \in Managed : FrameOf[c] = FrameOf[e] => c = e
<1>1. FrameOf[c] \in Frames /\ c \in Clients
  BY DEF Frames, Clients
<1>2. FrameOf[c] \in Ids /\ c \in Ids
  BY <1>1 DEF Ids
<1> QED
  BY <1>1, <1>2, IdsAssumption

LEMMA ContainsMember ==
  ASSUME NEW s \in Seq(Ids), NEW e
  PROVE  Contains(s, e) <=> e \in ToSet(s)
BY DEF Contains, ToSet

LEMMA IndexIs ==
  ASSUME NEW s \in Seq(Ids), NEW e \in ToSet(s)
  PROVE  IndexIn(s, e) \in 1 .. Len(s) /\ s[IndexIn(s, e)] = e
<1>1. \E i \in DOMAIN s : s[i] = e
  BY DEF ToSet
<1>2. IndexIn(s, e) \in DOMAIN s /\ s[IndexIn(s, e)] = e
  BY <1>1 DEF IndexIn
<1>3. DOMAIN s = 1 .. Len(s)
  OBVIOUS
<1> QED
  BY <1>2, <1>3

LEMMA NeighboursAreMembers ==
  ASSUME NEW s \in Seq(Ids), NEW e \in ToSet(s), Distinct(s)
  PROVE  /\ PrevIn(s, e) \in ToSet(s) \cup {Nothing} /\ PrevIn(s, e) # e
         /\ NextIn(s, e) \in ToSet(s) \cup {Nothing} /\ NextIn(s, e) # e
<1> DEFINE p == IndexIn(s, e)
<1>1. p \in 1 .. Len(s) /\ s[p] = e
  BY IndexIs
<1>2. e \in Ids /\ e # Nothing
  BY IdsAssumption DEF ToSet
<1> HIDE DEF p
<1>3. DOMAIN s = 1 .. Len(s)
  OBVIOUS
<1>4. ASSUME NEW q \in 1 .. Len(s), q # p
      PROVE  s[q] \in ToSet(s) /\ s[q] # e
  BY <1>1, <1>3, <1>4 DEF ToSet, Distinct
<1>5. p # 1 => p - 1 \in 1 .. Len(s) /\ p - 1 # p
  BY <1>1
<1>6. p # Len(s) => p + 1 \in 1 .. Len(s) /\ p + 1 # p
  BY <1>1
<1>7. PrevIn(s, e) = IF p = 1 THEN Nothing ELSE s[p - 1]
  BY DEF PrevIn, p
<1>8. NextIn(s, e) = IF p = Len(s) THEN Nothing ELSE s[p + 1]
  BY DEF NextIn, p
<1> QED
  BY <1>2, <1>4, <1>5, <1>6, <1>7, <1>8

LEMMA ErasedMembers ==
  ASSUME NEW s \in Seq(Ids), Distinct(s), NEW p \in 1 .. Len(s)
  PROVE  /\ RemoveAt(s, p) \in Seq(Ids) /\ Distinct(RemoveAt(s, p))
         /\ ToSet(RemoveAt(s, p)) = ToSet(s) \ {s[p]}
<1> DEFINE rest == RemoveAt(s, p)
<1>1. /\ rest \in Seq(Ids) /\ Len(rest) = Len(s) - 1
      /\ \A i \in 1 .. Len(s) - 1 : rest[i] = s[Opened(i, p)]
  BY ErasedPlaces
<1> HIDE DEF rest
<1>2. DOMAIN rest = 1 .. Len(s) - 1 /\ DOMAIN s = 1 .. Len(s)
  BY <1>1
<1>3. \A i \in 1 .. Len(s) - 1 : Opened(i, p) \in 1 .. Len(s) /\ Opened(i, p) # p
  BY DEF Opened
<1>4. \A i, j \in 1 .. Len(s) - 1 : Opened(i, p) = Opened(j, p) => i = j
  BY DEF Opened
<1>5. \A k \in 1 .. Len(s) : k # p =>
         Closed(k, p) \in 1 .. Len(s) - 1 /\ Opened(Closed(k, p), p) = k
  BY DEF Opened, Closed
<1>6. Distinct(rest)
  BY <1>1, <1>2, <1>3, <1>4 DEF Distinct
<1>7. ToSet(rest) \subseteq ToSet(s) \ {s[p]}
  BY <1>1, <1>2, <1>3 DEF Distinct, ToSet
<1>8. ToSet(s) \ {s[p]} \subseteq ToSet(rest)
  <2> SUFFICES ASSUME NEW k \in 1 .. Len(s), s[k] # s[p]
               PROVE  s[k] \in ToSet(rest)
    BY <1>2 DEF ToSet
  <2>1. Closed(k, p) \in DOMAIN rest /\ rest[Closed(k, p)] = s[k]
    BY <1>1, <1>2, <1>5
  <2> QED
    BY <2>1 DEF ToSet
<1> QED
  BY <1>1, <1>6, <1>7, <1>8 DEF rest

LEMMA WithoutMembers ==
  ASSUME NEW s \in Seq(Ids), Distinct(s), NEW e
  PROVE  /\ Unhooked(s, e) \in Seq(Ids) /\ Distinct(Unhooked(s, e))
         /\ ToSet(Unhooked(s, e)) = ToSet(s) \ {e}
<1>1. CASE e \in ToSet(s)
  <2>1. IndexIn(s, e) \in 1 .. Len(s) /\ s[IndexIn(s, e)] = e
    BY <1>1, IndexIs
  <2> QED
    BY <1>1, <2>1, ContainsMember, ErasedMembers DEF Unhooked
<1>2. CASE e \notin ToSet(s)
  BY <1>2, ContainsMember DEF Unhooked
<1> QED
  BY <1>1, <1>2

LEMMA InsertedMembers ==
  ASSUME NEW s \in Seq(Ids), Distinct(s), NEW p \in 1 .. Len(s) + 1,
         NEW x \in Ids, x \notin ToSet(s)
  PROVE  /\ InsertAt(s, p, x) \in Seq(Ids) /\ Distinct(InsertAt(s, p, x))
         /\ ToSet(InsertAt(s, p, x)) = ToSet(s) \cup {x}
<1> DEFINE all == InsertAt(s, p, x)
<1>1. /\ all \in Seq(Ids) /\ Len(all) = Len(s) + 1 /\ all[p] = x
      /\ \A i \in 1 .. Len(s) : all[Opened(i, p)] = s[i]
  BY InsertedPlaces
<1> HIDE DEF all
<1>2. DOMAIN all = 1 .. Len(s) + 1 /\ DOMAIN s = 1 .. Len(s)
  BY <1>1
<1>3. \A i \in 1 .. Len(s) : Opened(i, p) \in 1 .. Len(s) + 1
  BY DEF Opened
<1>4. \A k \in 1 .. Len(s) + 1 : k # p =>
         /\ Closed(k, p) \in 1 .. Len(s) /\ all[k] = s[Closed(k, p)]
  <2>1. \A k \in 1 .. Len(s) + 1 : k # p =>
           Closed(k, p) \in 1 .. Len(s) /\ Opened(Closed(k, p), p) = k
    BY DEF Opened, Closed
  <2> QED
    BY <1>1, <2>1
<1>5. \A k, l \in 1 .. Len(s) + 1 :
         k # p /\ l # p /\ Closed(k, p) = Closed(l, p) => k = l
  BY DEF Closed
<1>6. \A k \in 1 .. Len(s) + 1 : k # p => all[k] \in ToSet(s)
  BY <1>2, <1>4 DEF ToSet
<1>7. Distinct(all)
  <2> SUFFICES ASSUME NEW k \in 1 .. Len(s) + 1, NEW l \in 1 .. Len(s) + 1,
                      all[k] = all[l]
               PROVE  k = l
    BY <1>2 DEF Distinct
  <2>1. CASE k = p \/ l = p
    BY <1>1, <1>6, <2>1
  <2>2. CASE k # p /\ l # p
    <3>1. s[Closed(k, p)] = s[Closed(l, p)]
      BY <1>4, <2>2
    <3>2. Closed(k, p) = Closed(l, p)
      BY <1>2, <1>4, <2>2, <3>1 DEF Distinct
    <3> QED
      BY <1>5, <2>2, <3>2
  <2> QED
    BY <2>1, <2>2
<1>8. ToSet(all) \subseteq ToSet(s) \cup {x}
  BY <1>1, <1>2, <1>6 DEF ToSet
<1>9. ToSet(s) \cup {x} \subseteq ToSet(all)
  <2>1. x \in ToSet(all)
    BY <1>1, <1>2 DEF ToSet
  <2>2. \A i \in 1 .. Len(s) : s[i] \in ToSet(all)
    BY <1>1, <1>2, <1>3 DEF ToSet
  <2> QED
    BY <1>2, <2>1, <2>2 DEF ToSet
<1> QED
  BY <1>1, <1>7, <1>8, <1>9 DEF all

LEMMA ReplacedMembers ==
  ASSUME NEW s \in Seq(Ids), Distinct(s), NEW old \in ToSet(s),
         NEW new \in Ids, new \notin ToSet(s)
  PROVE  /\ ReplaceAll(s, old, new) \in Seq(Ids) /\ Distinct(ReplaceAll(s, old, new))
         /\ ToSet(ReplaceAll(s, old, new)) = (ToSet(s) \ {old}) \cup {new}
<1> DEFINE r == ReplaceAll(s, old, new)
<1>1. r = [i \in 1 .. Len(s) |-> IF s[i] = old THEN new ELSE s[i]]
  BY DEF ReplaceAll
<1>2. /\ DOMAIN s = 1 .. Len(s) /\ DOMAIN r = 1 .. Len(s)
      /\ \A i \in 1 .. Len(s) : r[i] = (IF s[i] = old THEN new ELSE s[i]) /\ s[i] \in Ids
  BY <1>1
<1>3. r \in Seq(Ids)
  BY <1>1
<1> HIDE DEF r
<1>4. Distinct(r)
  BY <1>2 DEF Distinct, ToSet
<1>5. ToSet(r) = (ToSet(s) \ {old}) \cup {new}
  BY <1>2 DEF ToSet
<1> QED
  BY <1>3, <1>4, <1>5 DEF r

LEMMA AppendedMembers ==
  ASSUME NEW s \in Seq(Ids), Distinct(s), NEW x \in Ids, x \notin ToSet(s)
  PROVE  /\ Append(s, x) \in Seq(Ids) /\ Distinct(Append(s, x))
         /\ ToSet(Append(s, x)) = ToSet(s) \cup {x}
<1> DEFINE all == Append(s, x)
<1>1. /\ all \in Seq(Ids) /\ DOMAIN all = 1 .. Len(s) + 1 /\ DOMAIN s = 1 .. Len(s)
      /\ all[Len(s) + 1] = x /\ Len(s) \in Nat
      /\ \A i \in 1 .. Len(s) : all[i] = s[i]
  OBVIOUS
<1>2. \A i \in 1 .. Len(s) + 1 : i = Len(s) + 1 \/ i \in 1 .. Len(s)
  BY <1>1
<1>3. \A i \in 1 .. Len(s) : i \in 1 .. Len(s) + 1
  BY <1>1
<1>4. Len(s) + 1 \in 1 .. Len(s) + 1
  BY <1>1
<1> HIDE DEF all
<1>5. Distinct(all)
  BY <1>1, <1>2 DEF Distinct, ToSet
<1>6. ToSet(all) = ToSet(s) \cup {x}
  BY <1>1, <1>2, <1>3, <1>4 DEF ToSet
<1> QED
  BY <1>1, <1>5, <1>6 DEF all

LEMMA FrontMembers ==
  ASSUME NEW s \in Seq(Ids), Distinct(s), NEW x \in Ids, x \notin ToSet(s)
  PROVE  /\ <<x>> \o s \in Seq(Ids) /\ Distinct(<<x>> \o s)
         /\ ToSet(<<x>> \o s) = ToSet(s) \cup {x}
<1> DEFINE all == <<x>> \o s
<1>1. /\ all \in Seq(Ids) /\ Len(all) = Len(s) + 1 /\ all[1] = x
      /\ \A i \in 2 .. Len(s) + 1 : all[i] = s[i - 1]
  BY PutInFront
<1> HIDE DEF all
<1>2. DOMAIN all = 1 .. Len(s) + 1 /\ DOMAIN s = 1 .. Len(s) /\ Len(s) \in Nat
  BY <1>1
<1>3. \A k \in 1 .. Len(s) + 1 :
         k = 1 \/ (k - 1 \in 1 .. Len(s) /\ all[k] = s[k - 1])
  BY <1>1, <1>2
<1>4. \A i \in 1 .. Len(s) : i + 1 \in 1 .. Len(s) + 1 /\ all[i + 1] = s[i]
  <2> SUFFICES ASSUME NEW i \in 1 .. Len(s)
               PROVE  i + 1 \in 1 .. Len(s) + 1 /\ all[i + 1] = s[i]
    OBVIOUS
  <2>1. i + 1 \in 2 .. Len(s) + 1 /\ i + 1 \in 1 .. Len(s) + 1 /\ (i + 1) - 1 = i
    BY <1>2
  <2>2. all[i + 1] = s[(i + 1) - 1]
    BY <1>1, <2>1
  <2> QED
    BY <2>1, <2>2
<1>5. Distinct(all)
  <2> SUFFICES ASSUME NEW k \in 1 .. Len(s) + 1, NEW l \in 1 .. Len(s) + 1,
                      all[k] = all[l]
               PROVE  k = l
    BY <1>2 DEF Distinct
  <2>1. CASE k = 1 \/ l = 1
    BY <1>1, <1>2, <1>3, <2>1 DEF ToSet
  <2>2. CASE k # 1 /\ l # 1
    <3>1. k - 1 = l - 1
      BY <1>2, <1>3, <2>2 DEF Distinct
    <3> QED
      BY <3>1
  <2> QED
    BY <2>1, <2>2
<1>6. ToSet(all) \subseteq ToSet(s) \cup {x}
  BY <1>1, <1>2, <1>3 DEF ToSet
<1>7. ToSet(s) \cup {x} \subseteq ToSet(all)
  <2>1. 1 \in 1 .. Len(s) + 1
    BY <1>2
  <2> QED
    BY <1>1, <1>2, <1>4, <2>1 DEF ToSet
<1> QED
  BY <1>1, <1>5, <1>6, <1>7 DEF all

(* insertWindow adds the window, or leaves it out if the neighbour is not  *)
(* there.                                                                  *)
LEMMA InsertedList ==
  ASSUME NEW s \in Seq(Ids), Distinct(s), NEW w \in Ids, w \notin ToSet(s),
         NEW above, NEW withFrame
  PROVE  /\ Inserted(s, w, above, withFrame) \in Seq(Ids)
         /\ Distinct(Inserted(s, w, above, withFrame))
         /\ ToSet(s) \subseteq ToSet(Inserted(s, w, above, withFrame))
         /\ ToSet(Inserted(s, w, above, withFrame)) \subseteq ToSet(s) \cup {w}
         /\ \/ above = Nothing \/ above \in ToSet(s)
            \/ \E c \in ToSet(s) \cap withFrame : FrameOf[c] = above
            => ToSet(Inserted(s, w, above, withFrame)) = ToSet(s) \cup {w}
<1> DEFINE Found(i) == \/ s[i] = above
                       \/ s[i] \in withFrame /\ FrameOf[s[i]] = above
           place == CHOOSE i \in DOMAIN s : Found(i)
           r == Inserted(s, w, above, withFrame)
<1>1. r = IF above = Nothing \/ s = << >> THEN <<w>> \o s
          ELSE IF \E i \in DOMAIN s : Found(i) THEN InsertAt(s, 1 + place, w) ELSE s
  BY DEF Inserted
<1>2. CASE above = Nothing \/ s = << >>
  BY <1>1, <1>2, FrontMembers
<1>3. CASE ~ (above = Nothing \/ s = << >>) /\ \E i \in DOMAIN s : Found(i)
  <2>1. place \in DOMAIN s
    BY <1>3
  <2> HIDE DEF place
  <2>2. 1 + place \in 1 .. Len(s) + 1
    BY <2>1
  <2>3. r = InsertAt(s, 1 + place, w)
    BY <1>1, <1>3
  <2> QED
    BY <2>2, <2>3, InsertedMembers
<1>4. CASE ~ (above = Nothing \/ s = << >>) /\ ~ \E i \in DOMAIN s : Found(i)
  <2>1. r = s
    BY <1>1, <1>4
  <2>2. above \notin ToSet(s) /\ ~ \E c \in ToSet(s) \cap withFrame : FrameOf[c] = above
    BY <1>4 DEF ToSet
  <2> QED
    BY <1>4, <2>1, <2>2
<1> QED
  BY <1>2, <1>3, <1>4

LEMMA MovedMembers ==
  ASSUME NEW s \in Seq(Ids), Distinct(s), NEW e \in ToSet(s), NEW above,
         above # e, above = Nothing \/ above \in ToSet(s)
  PROVE  /\ MovedAbove(s, e, above) \in Seq(Ids) /\ Distinct(MovedAbove(s, e, above))
         /\ ToSet(MovedAbove(s, e, above)) = ToSet(s)
<1> DEFINE rest == Unhooked(s, e)
           p == IF above = Nothing THEN 1 ELSE IndexIn(rest, above) + 1
<1>1. e \in Ids
  BY DEF ToSet
<1>2. rest \in Seq(Ids) /\ Distinct(rest) /\ ToSet(rest) = ToSet(s) \ {e}
  BY WithoutMembers
<1>3. MovedAbove(s, e, above) = InsertAt(rest, p, e)
  BY DEF MovedAbove
<1> HIDE DEF rest
<1>4. p \in 1 .. Len(rest) + 1
  <2>1. CASE above = Nothing
    BY <1>2, <2>1
  <2>2. CASE above # Nothing
    <3>1. IndexIn(rest, above) \in 1 .. Len(rest)
      BY <1>2, <2>2, IndexIs
    <3> QED
      BY <1>2, <2>2, <3>1
  <2> QED
    BY <2>1, <2>2
<1> HIDE DEF p
<1>5. /\ InsertAt(rest, p, e) \in Seq(Ids) /\ Distinct(InsertAt(rest, p, e))
      /\ ToSet(InsertAt(rest, p, e)) = ToSet(rest) \cup {e}
  BY <1>1, <1>2, <1>4, InsertedMembers
<1> QED
  BY <1>2, <1>3, <1>5

(* Moving a window of a list to another place in it                        *)
LEMMA ReinsertedList ==
  ASSUME NEW s \in Seq(Ids), Distinct(s), NEW w \in Ids, NEW above, NEW withFrame
  PROVE  LET r == Inserted(Unhooked(s, w), w, above, withFrame)
         IN  /\ r \in Seq(Ids) /\ Distinct(r)
             /\ ToSet(s) \ {w} \subseteq ToSet(r) /\ ToSet(r) \subseteq ToSet(s) \cup {w}
             /\ \/ above = Nothing \/ above \in ToSet(s) \ {w}
                \/ \E c \in (ToSet(s) \ {w}) \cap withFrame : FrameOf[c] = above
                => w \in ToSet(r)
<1> DEFINE rest == Unhooked(s, w)
           r == Inserted(rest, w, above, withFrame)
<1>1. rest \in Seq(Ids) /\ Distinct(rest) /\ ToSet(rest) = ToSet(s) \ {w}
  BY WithoutMembers
<1>2. w \notin ToSet(rest)
  BY <1>1
<1> HIDE DEF rest
<1>3. /\ r \in Seq(Ids) /\ Distinct(r)
      /\ ToSet(rest) \subseteq ToSet(r) /\ ToSet(r) \subseteq ToSet(rest) \cup {w}
      /\ \/ above = Nothing \/ above \in ToSet(rest)
         \/ \E c \in ToSet(rest) \cap withFrame : FrameOf[c] = above
         => ToSet(r) = ToSet(rest) \cup {w}
  BY <1>1, <1>2, InsertedList
<1> HIDE DEF r
<1>4. /\ r \in Seq(Ids) /\ Distinct(r)
      /\ ToSet(s) \ {w} \subseteq ToSet(r) /\ ToSet(r) \subseteq ToSet(s) \cup {w}
      /\ \/ above = Nothing \/ above \in ToSet(s) \ {w}
         \/ \E c \in (ToSet(s) \ {w}) \cap withFrame : FrameOf[c] = above
         => w \in ToSet(r)
  BY <1>1, <1>3
<1> QED
  BY <1>4 DEF r, rest

-----------------------------------------------------------------------------
(* The queue: each step reads at most one event, d, and adds some at the   *)
(* end.                                                                    *)

EventsFollow(d) ==
    /\ d \in {0, 1} /\ d <= Len(events)
    /\ events' \in Seq(Event) /\ Len(events) - d <= Len(events')
    /\ \A i \in 1 .. Len(events) - d : events'[i] = events[i + d]

News(d) == {i \in DOMAIN events' : i > Len(events) - d}

Rest(d) == IF d = 0 THEN events ELSE Tail(events)

LEMMA QueueFollows ==
  ASSUME events \in Seq(Event), NEW d \in {0, 1}, d <= Len(events),
         NEW new \in Seq(Event), events' = Rest(d) \o new
  PROVE  /\ EventsFollow(d)
         /\ Len(events') = Len(events) - d + Len(new)
         /\ \A i \in News(d) : \E k \in 1 .. Len(new) :
               i = Len(events) - d + k /\ events'[i] = new[k]
         /\ \A k \in 1 .. Len(new) :
               Len(events) - d + k \in News(d) /\ events'[Len(events) - d + k] = new[k]
<1>1. Len(events) \in Nat /\ Len(new) \in Nat
  OBVIOUS
<1>2. /\ Rest(d) \in Seq(Event) /\ Len(Rest(d)) = Len(events) - d
      /\ \A i \in 1 .. Len(events) - d : Rest(d)[i] = events[i + d]
  <2>1. CASE d = 0
    BY <2>1 DEF Rest
  <2>2. CASE d = 1
    <3>1. events # << >>
      BY <2>2
    <3> QED
      BY <2>2, <3>1 DEF Rest
  <2> QED
    BY <2>1, <2>2
<1> DEFINE q == Rest(d)
           m == Len(events) - d
<1>3. m \in Nat
  BY <1>1
<1>4. q \in Seq(Event) /\ Len(q) = m /\ \A i \in 1 .. m : q[i] = events[i + d]
  BY <1>2
<1>5. events' = q \o new
  OBVIOUS
<1> HIDE DEF q, m
<1>6. /\ events' \in Seq(Event) /\ Len(events') = m + Len(new)
      /\ \A i \in 1 .. m + Len(new) :
            events'[i] = IF i <= m THEN q[i] ELSE new[i - m]
  BY <1>1, <1>3, <1>4, <1>5, ConcatProperties
<1>7. DOMAIN events' = 1 .. m + Len(new)
  BY <1>6
<1>8. \A i \in 1 .. m : i \in 1 .. m + Len(new) /\ i <= m
  BY <1>1, <1>3
<1>9. \A i \in 1 .. m : events'[i] = events[i + d]
  BY <1>4, <1>6, <1>8
<1>10. EventsFollow(d)
  BY <1>1, <1>3, <1>6, <1>9 DEF EventsFollow, m
<1>11. ASSUME NEW i \in News(d)
       PROVE  \E k \in 1 .. Len(new) : i = m + k /\ events'[i] = new[k]
  <2>1. i \in 1 .. m + Len(new) /\ i > m
    BY <1>7 DEF News, m
  <2>2. i - m \in 1 .. Len(new) /\ i = m + (i - m) /\ ~ (i <= m)
    BY <1>1, <1>3, <2>1
  <2>3. events'[i] = new[i - m]
    BY <1>6, <2>1, <2>2
  <2> QED
    BY <2>2, <2>3
<1>12. ASSUME NEW k \in 1 .. Len(new)
       PROVE  m + k \in News(d) /\ events'[m + k] = new[k]
  <2>1. m + k \in 1 .. m + Len(new) /\ ~ (m + k <= m) /\ (m + k) - m = k /\ m + k > m
    BY <1>1, <1>3
  <2>2. events'[m + k] = new[(m + k) - m]
    BY <1>6, <2>1
  <2> QED
    BY <1>7, <2>1, <2>2 DEF News, m
<1> QED
  BY <1>6, <1>10, <1>11, <1>12 DEF m

LEMMA FollowPlaces ==
  ASSUME events \in Seq(Event), NEW d, EventsFollow(d)
  PROVE  /\ \A i \in DOMAIN events' : i \in News(d) \/
               (i + d \in DOMAIN events /\ events'[i] = events[i + d])
         /\ \A i \in DOMAIN events : (d = 1 /\ i = 1) \/
               (i - d \in DOMAIN events' /\ i - d \notin News(d)
                /\ events'[i - d] = events[i])
         /\ \A i \in DOMAIN events' : \A j \in News(d) : i \notin News(d) => i < j
         /\ \A i, j \in DOMAIN events' : (i < j => i + d < j + d) /\ (i + d = j + d => i = j)
<1>1. /\ d \in {0, 1} /\ Len(events) \in Nat /\ Len(events') \in Nat
      /\ DOMAIN events = 1 .. Len(events) /\ DOMAIN events' = 1 .. Len(events')
      /\ d <= Len(events) /\ Len(events) - d <= Len(events')
  BY DEF EventsFollow
<1>2. \A i \in 1 .. Len(events) - d : events'[i] = events[i + d]
  BY DEF EventsFollow
<1>3. ASSUME NEW i \in DOMAIN events'
      PROVE  i \in News(d) \/ (i + d \in DOMAIN events /\ events'[i] = events[i + d])
  <2>1. i \notin News(d) => i \in 1 .. Len(events) - d /\ i + d \in 1 .. Len(events)
    BY <1>1 DEF News
  <2> QED
    BY <1>1, <1>2, <2>1
<1>4. ASSUME NEW i \in DOMAIN events, ~ (d = 1 /\ i = 1)
      PROVE  /\ i - d \in DOMAIN events' /\ i - d \notin News(d)
             /\ events'[i - d] = events[i]
  <2>1. i - d \in 1 .. Len(events) - d /\ (i - d) + d = i
    BY <1>1, <1>4
  <2>2. i - d \in 1 .. Len(events') /\ ~ (i - d > Len(events) - d)
    BY <1>1, <2>1
  <2>3. events'[i - d] = events[(i - d) + d]
    BY <1>2, <2>1
  <2> QED
    BY <1>1, <2>1, <2>2, <2>3 DEF News
<1>5. \A i \in DOMAIN events' : \A j \in News(d) : i \notin News(d) => i < j
  BY <1>1 DEF News
<1>6. \A i, j \in DOMAIN events' : (i < j => i + d < j + d) /\ (i + d = j + d => i = j)
  BY <1>1
<1> QED
  BY <1>3, <1>4, <1>5, <1>6

-----------------------------------------------------------------------------
(* Births                                                                  *)

(* A step that introduces no window and gives no frame                     *)
Ordinary(d) ==
    /\ EventsFollow(d) /\ (d = 1 => events[1].type # "Create")
    /\ \A i \in News(d) :
          /\ events'[i].type \notin {"Create", "MapRequest"}
          /\ \A w \in Ids : Names(events'[i], w) => w \in ToSet(root) \cup wrapped
    /\ born' = born /\ asked' = asked
    /\ framed' \subseteq framed /\ known' = known \cap framed'
    /\ Listed' \subseteq Listed \cup {FrameOf[c] : c \in known \ framed'}
    /\ wrapped' \subseteq wrapped
    /\ ToSet(root)' \subseteq ToSet(root) \cup wrapped

LEMMA OrdinaryKeepsBirths ==
  ASSUME StackInv, NEW d, Ordinary(d)
  PROVE  Births'
<1> USE DEF Ordinary
<1>1. /\ events \in Seq(Event) /\ known \subseteq framed /\ framed \subseteq Managed
      /\ asked \subseteq Managed
  BY DEF StackInv, StackTypeOK
<1>2. EventsFollow(d)
  OBVIOUS
<1>3. /\ \A i \in DOMAIN events' : i \in News(d) \/
            (i + d \in DOMAIN events /\ events'[i] = events[i + d])
      /\ \A i \in DOMAIN events : (d = 1 /\ i = 1) \/
            (i - d \in DOMAIN events' /\ events'[i - d] = events[i])
      /\ \A i \in DOMAIN events' : \A j \in News(d) : i \notin News(d) => i < j
      /\ \A i, j \in DOMAIN events' : (i < j => i + d < j + d) /\ (i + d = j + d => i = j)
  BY <1>1, <1>2, FollowPlaces
<1>4. NotBorn /\ OneRequest /\ Introduced /\ FramesApart /\ FramesStand
  BY DEF StackInv, Births, Server
<1>5. \A c, e \in Managed : FrameOf[c] = FrameOf[e] => c = e
  BY IdsAssumption
<1>6. ASSUME NEW w \in Ids, Unheard(w)
      PROVE  Unheard(w)'
  <2>1. w \notin {FrameOf[c] : c \in known \ framed'}
    BY <1>1, <1>4, <1>6 DEF Unheard, FramesStand
  <2>2. w \notin Listed' /\ w \notin ToSet(root)' /\ w \notin wrapped'
    BY <1>6, <2>1 DEF Unheard
  <2>3. ASSUME NEW i \in DOMAIN events'
        PROVE  ~ Names(events'[i], w)
    BY <1>3, <1>6 DEF Unheard
  <2> QED
    BY <2>2, <2>3 DEF Unheard
<1>7. NotBorn'
  <2>1. \A c \in Clients \ born : Unheard(c)'
    BY <1>4, <1>6 DEF NotBorn, Ids
  <2>2. \A c \in Managed \ asked : Unheard(FrameOf[c])'
    BY <1>4, <1>6 DEF NotBorn, Ids, Frames
  <2> QED
    BY <2>1, <2>2 DEF NotBorn
<1>8. OneRequest'
  <2>1. ASSUME NEW i \in DOMAIN events', events'[i].type = "MapRequest"
        PROVE  i + d \in DOMAIN events /\ events'[i] = events[i + d]
    BY <1>3, <2>1
  <2>2. \A i \in DOMAIN events' :
           events'[i].type = "MapRequest" => events'[i].win \in asked'
    BY <1>4, <2>1 DEF OneRequest
  <2>3. ASSUME NEW c \in asked', NEW i \in DOMAIN events',
               events'[i].type = "MapRequest", events'[i].win = c
        PROVE  /\ c \notin framed' /\ Unheard(FrameOf[c])'
               /\ \A j \in DOMAIN events' :
                     events'[j].type = "MapRequest" /\ events'[j].win = c => j = i
    <3>1. c \in asked /\ i + d \in DOMAIN events /\ events'[i] = events[i + d]
      BY <2>1, <2>3
    <3>2. /\ c \notin framed /\ Unheard(FrameOf[c])
          /\ \A j \in DOMAIN events :
                events[j].type = "MapRequest" /\ events[j].win = c => j = i + d
      BY <1>4, <2>3, <3>1 DEF OneRequest
    <3>3. FrameOf[c] \in Ids
      BY <1>1, <3>1 DEF Ids, Frames
    <3>4. ASSUME NEW j \in DOMAIN events', events'[j].type = "MapRequest", events'[j].win = c
          PROVE  j = i
      <4>1. j + d \in DOMAIN events /\ events'[j] = events[j + d]
        BY <2>1, <3>4
      <4>2. j + d = i + d
        BY <3>2, <3>4, <4>1
      <4> QED
        BY <1>3, <4>2
    <3> QED
      BY <1>6, <3>2, <3>3, <3>4
  <2> QED
    BY <2>2, <2>3 DEF OneRequest
<1>9. Introduced'
  <2> SUFFICES ASSUME NEW i \in DOMAIN events', events'[i].type = "Create"
               PROVE  /\ events'[i].win \notin Listed'
                      /\ \A j \in DOMAIN events' :
                            j < i => ~ Names(events'[j], events'[i].win)
    BY DEF Introduced
  <2>1. i \notin News(d) /\ i + d \in DOMAIN events /\ events'[i] = events[i + d]
    BY <1>3
  <2>2. /\ events'[i].win \notin Listed
        /\ \A j \in DOMAIN events : j < i + d => ~ Names(events[j], events'[i].win)
    BY <1>4, <2>1 DEF Introduced
  <2>3. Pending("Create", events'[i].win)
    BY <2>1 DEF Pending
  <2>4. events'[i].win \notin {FrameOf[c] : c \in known \ framed'}
    BY <1>1, <1>4, <2>3 DEF FramesApart
  <2>5. ASSUME NEW j \in DOMAIN events', j < i
        PROVE  ~ Names(events'[j], events'[i].win)
    <3>1. j \notin News(d)
      BY <2>1, <2>5 DEF News, EventsFollow
    <3>2. j + d \in DOMAIN events /\ events'[j] = events[j + d] /\ j + d < i + d
      BY <1>3, <2>5, <3>1
    <3> QED
      BY <2>2, <3>2
  <2> QED
    BY <2>2, <2>4, <2>5
<1>10. FramesApart'
  <2> SUFFICES ASSUME NEW c \in framed'
               PROVE  /\ c \in asked' /\ FrameOf[c] \notin Listed'
                      /\ c \in known' <=> ~ Pending("Create", FrameOf[c])'
    BY DEF FramesApart
  <2>1. /\ c \in framed /\ c \in asked /\ FrameOf[c] \notin Listed
        /\ c \in known <=> ~ Pending("Create", FrameOf[c])
    BY <1>4 DEF FramesApart
  <2>2. FrameOf[c] \notin {FrameOf[e] : e \in known \ framed'}
    BY <1>1, <1>5, <2>1
  <2>3. Pending("Create", FrameOf[c])' <=> Pending("Create", FrameOf[c])
    <3>1. ASSUME NEW i \in DOMAIN events', events'[i].type = "Create"
          PROVE  i + d \in DOMAIN events /\ events'[i] = events[i + d]
      BY <1>3, <3>1
    <3>2. ASSUME NEW i \in DOMAIN events, events[i].type = "Create"
          PROVE  i - d \in DOMAIN events' /\ events'[i - d] = events[i]
      BY <1>3, <3>2
    <3> QED
      BY <3>1, <3>2 DEF Pending
  <2> QED
    BY <2>1, <2>2, <2>3
<1> QED
  BY <1>7, <1>8, <1>9, <1>10 DEF Births

-----------------------------------------------------------------------------
(* What a step must do to the server's windows                             *)

ServerStep(d) ==
    /\ EventsFollow(d)
    /\ wrapped' \subseteq framed' /\ wrapped' \cap ToSet(root)' = {}
    /\ \A c \in framed' : FrameOf[c] \in ToSet(root)'
    /\ \A c \in Managed : FrameOf[c] \in ToSet(root)' =>
          c \in framed' \cup forgotten' \/ (FrameOf[c] \in ToSet(root) /\ c \notin framed)
    /\ forgotten \subseteq forgotten'
    /\ \A c \in Managed : c \in ToSet(root)' \cup wrapped' =>
          c \in ToSet(root) \cup wrapped \/ Unheard(c)
    /\ \A i \in News(d) :
          /\ events'[i].type = "Unmap" => events'[i].win \in wrapped
          /\ events'[i].type = "Destroy" /\ events'[i].win \in Managed =>
                /\ events'[i].win \notin ToSet(root)' \cup wrapped'
                /\ i = Len(events')
    /\ \A c \in framed' :
          \/ c \in unmapHeld' \cup shown'
          \/ \E i \in News(d) : events'[i].type = "Unmap" /\ events'[i].win = c
          \/ /\ c \in framed /\ c \notin unmapHeld \cup shown
             /\ d = 1 => events[1].type # "Unmap" \/ events[1].win # c

LEMMA ServerStepKeepsServer ==
  ASSUME StackInv, NEW d, ServerStep(d)
  PROVE  Server'
<1> USE DEF ServerStep
<1>1. events \in Seq(Event) /\ FramesStand /\ DestroyIsLast /\ UnmapComes /\ FramesOwned
  BY DEF StackInv, StackTypeOK, Server
<1>2. EventsFollow(d)
  OBVIOUS
<1>3. /\ \A i \in DOMAIN events' : i \in News(d) \/
            (i + d \in DOMAIN events /\ events'[i] = events[i + d])
      /\ \A i \in DOMAIN events : (d = 1 /\ i = 1) \/
            (i - d \in DOMAIN events' /\ events'[i - d] = events[i])
      /\ \A i, j \in DOMAIN events' : (i < j => i + d < j + d) /\ (i + d = j + d => i = j)
  BY <1>1, <1>2, FollowPlaces
<1>4. FramesStand'
  BY DEF FramesStand
<1>5. DestroyIsLast'
  <2> SUFFICES ASSUME NEW i \in DOMAIN events', NEW c \in Managed,
                      events'[i].type = "Destroy", events'[i].win = c
               PROVE  /\ c \notin ToSet(root)' /\ c \notin wrapped'
                      /\ \A j \in DOMAIN events' :
                            i < j /\ events'[j].type = "Unmap" => events'[j].win # c
    BY DEF DestroyIsLast
  <2>1. CASE i \in News(d)
    <3>1. c \notin ToSet(root)' \cup wrapped' /\ i = Len(events')
      BY <2>1
    <3>2. \A j \in DOMAIN events' : ~ (Len(events') < j)
      BY <1>2 DEF EventsFollow
    <3> QED
      BY <3>1, <3>2
  <2>2. CASE i \notin News(d)
    <3>1. i + d \in DOMAIN events /\ events'[i] = events[i + d]
      BY <1>3, <2>2
    <3>2. /\ c \notin ToSet(root) /\ c \notin wrapped
          /\ \A j \in DOMAIN events :
                i + d < j /\ events[j].type = "Unmap" => events[j].win # c
      BY <1>1, <3>1 DEF DestroyIsLast
    <3>3. ~ Unheard(c)
      BY <3>1 DEF Unheard, Names
    <3>4. ASSUME NEW j \in DOMAIN events', i < j, events'[j].type = "Unmap"
          PROVE  events'[j].win # c
      <4>1. CASE j \in News(d)
        BY <3>2, <3>4, <4>1
      <4>2. CASE j \notin News(d)
        <5>1. j + d \in DOMAIN events /\ events'[j] = events[j + d] /\ i + d < j + d
          BY <1>3, <3>4, <4>2
        <5> QED
          BY <3>2, <3>4, <5>1
      <4> QED
        BY <4>1, <4>2
    <3> QED
      BY <3>2, <3>3, <3>4
  <2> QED
    BY <2>1, <2>2
<1>6. UnmapComes'
  <2> SUFFICES ASSUME NEW c \in framed', c \notin unmapHeld', c \notin shown'
               PROVE  Pending("Unmap", c)'
    BY DEF UnmapComes
  <2>1. CASE \E i \in News(d) : events'[i].type = "Unmap" /\ events'[i].win = c
    BY <2>1 DEF Pending, News
  <2>2. CASE /\ c \in framed /\ c \notin unmapHeld \cup shown
             /\ d = 1 => events[1].type # "Unmap" \/ events[1].win # c
    <3>1. PICK i \in DOMAIN events : events[i].type = "Unmap" /\ events[i].win = c
      BY <1>1, <2>2 DEF UnmapComes, Pending
    <3>2. i - d \in DOMAIN events' /\ events'[i - d] = events[i]
      BY <1>3, <2>2, <3>1
    <3> QED
      BY <3>1, <3>2 DEF Pending
  <2> QED
    BY <2>1, <2>2
<1>7. FramesOwned'
  BY <1>1 DEF FramesOwned
<1> QED
  BY <1>4, <1>5, <1>6, <1>7 DEF Server

(* What a step must do to keep the unmappings apart                        *)
UnmapStep(d) ==
    /\ EventsFollow(d)
    /\ \A i \in News(d) : events'[i].type = "Unmap" =>
          /\ events'[i].win \in (shown \ shown') \cap framed'
          /\ \A j \in News(d) : events'[j].type = "Unmap" => j = i
    /\ \A c \in framed \ framed' : \A i \in DOMAIN events :
          events[i].type = "Unmap" /\ events[i].win = c => d = 1 /\ i = 1
    /\ shown' \cap framed \subseteq shown
    /\ \A c \in unmapHeld' : c \in unmapHeld \/
          (c \in framed /\ d = 1 /\ events[1].type = "Unmap" /\ events[1].win = c)

LEMMA UnmapStepKeepsOneUnmap ==
  ASSUME StackInv, NEW d, UnmapStep(d)
  PROVE  OneUnmap'
<1> USE DEF UnmapStep
<1>1. /\ events \in Seq(Event) /\ OneUnmap /\ FramesStand /\ shown \subseteq wrapped
      /\ unmapHeld \subseteq framed /\ framed \subseteq Managed
  BY DEF StackInv, StackTypeOK, Server
<1>2. EventsFollow(d)
  OBVIOUS
<1>3. /\ \A i \in DOMAIN events' : i \in News(d) \/
            (i + d \in DOMAIN events /\ events'[i] = events[i + d])
      /\ \A i, j \in DOMAIN events' : (i < j => i + d < j + d) /\ (i + d = j + d => i = j)
  BY <1>1, <1>2, FollowPlaces
<1>4. d = 1 => 1 \in DOMAIN events /\ \A i \in DOMAIN events' : i + d # 1
  BY <1>1, <1>2 DEF EventsFollow
<1>5. \A i \in DOMAIN events : events[i].type = "Unmap" /\ events[i].win \in framed =>
         /\ events[i].win \notin unmapHeld \cup shown
         /\ \A j \in DOMAIN events :
               events[j].type = "Unmap" /\ events[j].win = events[i].win => j = i
  BY <1>1 DEF OneUnmap
<1>6. unmapHeld' \cap shown' = {}
  BY <1>1, <1>4, <1>5 DEF OneUnmap
<1>7. ASSUME NEW i \in DOMAIN events', NEW c \in Managed,
             events'[i].type = "Unmap", events'[i].win = c
      PROVE  /\ c \in framed' \ (unmapHeld' \cup shown')
             /\ \A j \in DOMAIN events' :
                   events'[j].type = "Unmap" /\ events'[j].win = c => j = i
  <2>1. CASE i \in News(d)
    <3>1. c \in shown /\ c \in framed /\ c \notin shown' /\ c \in framed' /\ c \notin unmapHeld
      BY <1>1, <1>7, <2>1 DEF FramesStand, OneUnmap
    <3>2. \A j \in DOMAIN events : events[j].type = "Unmap" => events[j].win # c
      BY <1>5, <3>1
    <3>3. c \notin unmapHeld'
      BY <1>4, <3>1, <3>2
    <3>4. \A j \in DOMAIN events' :
             events'[j].type = "Unmap" /\ events'[j].win = c => j = i
      BY <1>3, <1>7, <2>1, <3>2
    <3> QED
      BY <3>1, <3>3, <3>4
  <2>2. CASE i \notin News(d)
    <3>1. i + d \in DOMAIN events /\ events'[i] = events[i + d]
      BY <1>3, <2>2
    <3>2. /\ c \in framed /\ c \notin unmapHeld /\ c \notin shown
          /\ \A j \in DOMAIN events :
                events[j].type = "Unmap" /\ events[j].win = c => j = i + d
      BY <1>1, <1>7, <3>1 DEF OneUnmap
    <3>3. c \in framed'
      BY <1>4, <1>7, <3>1, <3>2
    <3>4. c \notin unmapHeld' /\ c \notin shown'
      BY <1>4, <3>2
    <3>5. ASSUME NEW j \in DOMAIN events', events'[j].type = "Unmap", events'[j].win = c
          PROVE  j = i
      <4>1. j \notin News(d)
        BY <3>2, <3>5
      <4>2. j + d \in DOMAIN events /\ events'[j] = events[j + d]
        BY <1>3, <4>1
      <4>3. j + d = i + d
        BY <3>2, <3>5, <4>2
      <4> QED
        BY <1>3, <4>3
    <3> QED
      BY <3>3, <3>4, <3>5
  <2> QED
    BY <2>1, <2>2
<1> QED
  BY <1>6, <1>7 DEF OneUnmap

LEMMA NoUnmaps ==
  ASSUME StackInv, NEW d, EventsFollow(d), framed' = framed, unmapHeld' = unmapHeld,
         shown' \subseteq shown, \A i \in News(d) : events'[i].type # "Unmap"
  PROVE  OneUnmap'
<1>1. UnmapStep(d)
  BY DEF UnmapStep
<1> QED
  BY <1>1, UnmapStepKeepsOneUnmap

LEMMA KeptStays ==
  ASSUME StackInv, kept' = kept,
         ToSet(windows) \subseteq ToSet(windows)', ToSet(windows)' \cap KeptWins = {}
  PROVE  Kept'
<1>1. Kept
  BY DEF StackInv
<1>2. KeptWins' = KeptWins
  BY DEF KeptWins
<1> QED
  BY <1>1, <1>2 DEF Kept

(* StackTypeOK in parts: each list, and what is said of the others.        *)
ListOK(s) == s \in Seq(Ids) /\ Distinct(s)

OthersOK ==
    /\ shown \subseteq wrapped /\ wrapped \subseteq asked
    /\ asked \subseteq Managed /\ born \subseteq Clients
    /\ events \in Seq(Event)
    /\ known \subseteq framed /\ framed \subseteq Managed
    /\ unmapHeld \subseteq framed /\ forgotten \subseteq Managed
    /\ serial \in 0 .. MaxRequests /\ moves \in 0 .. MaxMoves
    /\ raced \in BOOLEAN

Typed == ListOK(root) /\ ListOK(windows) /\ ListOK(serverWindows) /\ OthersOK /\ Shaped

LEMMA TypesApart == StackTypeOK /\ Shaped <=> Typed
<1>1. Shaped => /\ \A w \in Managed : pendings[w] \subseteq Restacks
                /\ \A i \in DOMAIN kept : kept[i] \in KeptWindows
  BY DEF Shaped
<1> QED
  BY <1>1 DEF StackTypeOK, Typed, ListOK, OthersOK, Restacks, KeptWindows

LEMMA InvFromParts ==
  ASSUME StackInv, Typed', Births', Server', OneUnmap', Kept'
  PROVE  StackInv'
<1>1. (StackTypeOK /\ Shaped <=> Typed)'
  BY TypesApart, PTL
<1> QED
  BY <1>1 DEF StackInv

-----------------------------------------------------------------------------
(* Events                                                                  *)

LEMMA EventShapes ==
  ASSUME NEW w \in Ids
  PROVE  /\ [type |-> "Create", win |-> w] \in Event
         /\ [type |-> "MapRequest", win |-> w] \in Event
         /\ [type |-> "Unmap", win |-> w] \in Event
         /\ [type |-> "Destroy", win |-> w] \in Event
BY DEF Event

LEMMA EventFields ==
  ASSUME NEW e \in Event
  PROVE  /\ e.win \in Ids
         /\ e.type \in {"Create", "MapRequest", "Unmap", "Destroy", "Configure"}
         /\ e.type = "Configure" =>
               e.above \in Ids \cup {Nothing} /\ e.serial \in 0 .. MaxRequests
BY DEF Event

LEMMA ConfigureShape ==
  ASSUME NEW s \in Seq(Ids), Distinct(s), NEW x \in ToSet(s), NEW n \in 0 .. MaxRequests
  PROVE  /\ Configure(s, x, n) \in Event
         /\ Configure(s, x, n).type = "Configure" /\ Configure(s, x, n).win = x
         /\ \A w \in Ids : Names(Configure(s, x, n), w) => w \in ToSet(s)
<1>1. x \in Ids /\ ToSet(s) \subseteq Ids
  BY DEF ToSet
<1>2. PrevIn(s, x) \in ToSet(s) \cup {Nothing}
  BY NeighboursAreMembers
<1>3. Nothing \notin Ids
  BY IdsAssumption
<1> QED
  BY <1>1, <1>2, <1>3 DEF Configure, Event, Names

LEMMA NoneMore ==
  ASSUME events \in Seq(Event), NEW d \in {0, 1}, d <= Len(events), events' = Rest(d)
  PROVE  EventsFollow(d) /\ News(d) = {}
<1>1. << >> \in Seq(Event) /\ Len(<< >>) = 0
  OBVIOUS
<1>2. Rest(d) \in Seq(Event)
  <2>1. d = 1 => events # << >>
    OBVIOUS
  <2> QED
    BY <2>1 DEF Rest
<1>3. Rest(d) \o << >> = Rest(d)
  BY <1>2
<1>4. /\ EventsFollow(d)
      /\ \A i \in News(d) : \E k \in 1 .. Len(<< >>) :
            i = Len(events) - d + k /\ events'[i] = << >>[k]
  BY <1>1, <1>3, QueueFollows
<1> QED
  BY <1>1, <1>4

LEMMA OneMore ==
  ASSUME events \in Seq(Event), NEW d \in {0, 1}, d <= Len(events),
         NEW e \in Event, events' = Append(Rest(d), e)
  PROVE  /\ EventsFollow(d) /\ News(d) = {Len(events')}
         /\ events'[Len(events')] = e
<1> DEFINE new == <<e>>
<1>1. new \in Seq(Event) /\ Len(new) = 1 /\ new[1] = e
  OBVIOUS
<1>2. Rest(d) \in Seq(Event)
  <2>1. d = 1 => events # << >>
    OBVIOUS
  <2> QED
    BY <2>1 DEF Rest
<1>3. Rest(d) \o new = Append(Rest(d), e)
  BY <1>2
<1> HIDE DEF new
<1>4. /\ EventsFollow(d) /\ Len(events') = Len(events) - d + Len(new)
      /\ \A i \in News(d) : \E k \in 1 .. Len(new) :
            i = Len(events) - d + k /\ events'[i] = new[k]
      /\ \A k \in 1 .. Len(new) :
            Len(events) - d + k \in News(d) /\ events'[Len(events) - d + k] = new[k]
  BY <1>1, <1>3, QueueFollows
<1>5. \A k \in 1 .. Len(new) : k = 1
  BY <1>1
<1> QED
  BY <1>1, <1>4, <1>5

LEMMA TwoMore ==
  ASSUME events \in Seq(Event), NEW d \in {0, 1}, d <= Len(events),
         NEW e \in Event, NEW f \in Event, events' = Rest(d) \o <<e>> \o <<f>>
  PROVE  /\ EventsFollow(d)
         /\ \A i \in News(d) : \/ events'[i] = e /\ i = Len(events) - d + 1
                               \/ events'[i] = f /\ i = Len(events')
         /\ \E i, j \in News(d) : events'[i] = e /\ events'[j] = f
         /\ Len(events) - d + 2 \in News(d) /\ events'[Len(events) - d + 2] = f
<1> DEFINE first == <<e>>
           last  == <<f>>
           new   == first \o last
<1>0. /\ first \in Seq(Event) /\ Len(first) = 1 /\ first[1] = e
      /\ last \in Seq(Event) /\ Len(last) = 1 /\ last[1] = f
  OBVIOUS
<1>a. Rest(d) \in Seq(Event)
  <2>1. d = 1 => events # << >>
    OBVIOUS
  <2> QED
    BY <2>1 DEF Rest
<1>b. events' = (Rest(d) \o first) \o last
  OBVIOUS
<1> HIDE DEF first, last
<1>c. events' = Rest(d) \o new
  <2>1. first \in Seq(Event) /\ last \in Seq(Event)
    BY <1>0
  <2>2. (Rest(d) \o first) \o last = Rest(d) \o (first \o last)
    BY <1>a, <2>1, ConcatAssociative
  <2> QED
    BY <1>b, <2>2
<1>1. new \in Seq(Event) /\ Len(new) = 2 /\ new[1] = e /\ new[2] = f
  <2>1. /\ new \in Seq(Event) /\ Len(new) = Len(first) + Len(last)
        /\ \A i \in 1 .. Len(first) + Len(last) :
              new[i] = IF i <= Len(first) THEN first[i] ELSE last[i - Len(first)]
    BY <1>0, ConcatProperties
  <2>2. 1 \in 1 .. 1 + 1 /\ 2 \in 1 .. 1 + 1 /\ 1 <= 1 /\ ~ (2 <= 1) /\ 2 - 1 = 1
    OBVIOUS
  <2>3. new[1] = first[1] /\ new[2] = last[2 - 1]
    BY <1>0, <2>1, <2>2
  <2> QED
    BY <1>0, <2>1, <2>2, <2>3
<1> HIDE DEF new
<1>2. /\ EventsFollow(d) /\ Len(events') = Len(events) - d + Len(new)
      /\ \A i \in News(d) : \E k \in 1 .. Len(new) :
            i = Len(events) - d + k /\ events'[i] = new[k]
      /\ \A k \in 1 .. Len(new) :
            Len(events) - d + k \in News(d) /\ events'[Len(events) - d + k] = new[k]
  BY <1>1, <1>c, QueueFollows
<1>3. \A k \in 1 .. Len(new) : k = 1 \/ k = 2
  BY <1>1
<1>4. 1 \in 1 .. Len(new) /\ 2 \in 1 .. Len(new)
  BY <1>1
<1>5. ASSUME NEW i \in News(d)
      PROVE  \/ events'[i] = e /\ i = Len(events) - d + 1
             \/ events'[i] = f /\ i = Len(events')
  BY <1>1, <1>2, <1>3
<1>6. \E i, j \in News(d) : events'[i] = e /\ events'[j] = f
  BY <1>1, <1>2, <1>4
<1>7. Len(events) - d + 2 \in News(d) /\ events'[Len(events) - d + 2] = f
  BY <1>1, <1>2, <1>4
<1> QED
  BY <1>2, <1>5, <1>6, <1>7

-----------------------------------------------------------------------------
(* The clients                                                             *)

LEMMA InvFacts ==
  ASSUME StackInv
  PROVE  /\ root \in Seq(Ids) /\ Distinct(root) /\ windows \in Seq(Ids) /\ Distinct(windows)
         /\ serverWindows \in Seq(Ids) /\ Distinct(serverWindows)
         /\ OthersOK /\ Shaped /\ NotBorn /\ OneRequest /\ Introduced /\ FramesApart
         /\ FramesStand /\ DestroyIsLast /\ UnmapComes /\ FramesOwned /\ OneUnmap /\ Kept
         /\ events \in Seq(Event) /\ Rest(0) = events
BY TypesApart DEF StackInv, Typed, ListOK, OthersOK, Births, Server, Rest

LEMMA ClientUnmapsKeepsInv ==
  ASSUME StackInv, NEW c \in Clients, ClientUnmaps(c)
  PROVE  StackInv'
<1> DEFINE e == [type |-> "Unmap", win |-> c]
<1>1. /\ c \in shown /\ shown' = shown \ {c} /\ events' = Append(events, e)
      /\ UNCHANGED <<root, wrapped, born, asked, moves, listVars, kept,
                     unmapHeld, forgotten, serial, raced>>
  BY DEF ClientUnmaps
<1>2. e \in Event /\ e.type = "Unmap" /\ e.win = c /\ \A w : Names(e, w) => w = c
  BY EventShapes DEF Ids, Names
<1> HIDE DEF e
<1>3. /\ EventsFollow(0) /\ News(0) = {Len(events')} /\ events'[Len(events')] = e
  BY <1>1, <1>2, InvFacts, OneMore DEF EventsFollow
<1>4. c \in wrapped /\ wrapped \subseteq framed
  BY <1>1, InvFacts DEF OthersOK, FramesStand
<1>5. Listed' = Listed
  BY <1>1 DEF Listed, KeptWins, listVars
<1>6. Births'
  <2>1. Ordinary(0)
    BY <1>1, <1>2, <1>3, <1>4, <1>5, InvFacts DEF Ordinary, listVars, OthersOK
  <2> QED
    BY <2>1, OrdinaryKeepsBirths
<1>7. Server'
  <2>1. ServerStep(0)
    BY <1>1, <1>2, <1>3, <1>4, InvFacts DEF ServerStep, listVars, FramesStand, FramesOwned
  <2> QED
    BY <2>1, ServerStepKeepsServer
<1>8. Kept'
  BY <1>1, InvFacts, KeptStays DEF Kept, listVars
<1>9. Typed'
  BY <1>1, <1>3, InvFacts DEF Typed, ListOK, OthersOK, Shaped, listVars, EventsFollow
<1>10. OneUnmap'
  <2>1. UnmapStep(0)
    BY <1>1, <1>2, <1>3, <1>4, InvFacts DEF UnmapStep, listVars
  <2> QED
    BY <2>1, UnmapStepKeepsOneUnmap
<1> QED
  BY <1>6, <1>7, <1>8, <1>9, <1>10, InvFromParts

LEMMA OverrideMovesKeepsInv ==
  ASSUME StackInv, NEW o \in Overrides, NEW above \in Ids \cup {Nothing},
         OverrideMoves(o, above)
  PROVE  StackInv'
<1>1. /\ Contains(root, o) /\ above # o /\ (above = Nothing \/ Contains(root, above))
      /\ moves < MaxMoves /\ moves' = moves + 1
      /\ root' = MovedAbove(root, o, above)
      /\ events' = Append(events, Configure(root', o, 0))
      /\ UNCHANGED <<wrapped, shown, born, asked, listVars, kept, unmapHeld,
                     forgotten, serial, raced>>
  BY DEF OverrideMoves
<1>2. root' \in Seq(Ids) /\ Distinct(root)' /\ ToSet(root)' = ToSet(root) /\ o \in ToSet(root)'
  <2>1. o \in ToSet(root) /\ (above = Nothing \/ above \in ToSet(root))
    BY <1>1, InvFacts, ContainsMember
  <2>2. /\ MovedAbove(root, o, above) \in Seq(Ids) /\ Distinct(MovedAbove(root, o, above))
        /\ ToSet(MovedAbove(root, o, above)) = ToSet(root)
    BY <1>1, <2>1, InvFacts, MovedMembers
  <2> QED
    BY <1>1, <2>1, <2>2
<1> DEFINE e == Configure(root', o, 0)
<1>3. /\ e \in Event /\ e.type = "Configure" /\ e.win = o
      /\ \A w \in Ids : Names(e, w) => w \in ToSet(root)
  <2>1. 0 \in 0 .. MaxRequests
    BY IdsAssumption
  <2>2. ASSUME NEW s \in Seq(Ids), Distinct(s), ToSet(s) = ToSet(root), o \in ToSet(s)
        PROVE  /\ Configure(s, o, 0) \in Event /\ Configure(s, o, 0).type = "Configure"
               /\ Configure(s, o, 0).win = o
               /\ \A w \in Ids : Names(Configure(s, o, 0), w) => w \in ToSet(root)
    BY <2>1, <2>2, ConfigureShape
  <2> QED
    BY <1>2, <2>2
<1>4. events' = Append(events, e)
  BY <1>1
<1> HIDE DEF e
<1>5. /\ EventsFollow(0) /\ News(0) = {Len(events')} /\ events'[Len(events')] = e
  BY <1>3, <1>4, InvFacts, OneMore DEF EventsFollow
<1>6. Listed' = Listed
  BY <1>1 DEF Listed, KeptWins, listVars
<1>7. Births'
  <2>1. Ordinary(0)
    BY <1>1, <1>2, <1>3, <1>5, <1>6, InvFacts DEF Ordinary, listVars, OthersOK
  <2> QED
    BY <2>1, OrdinaryKeepsBirths
<1>8. Server'
  <2>1. ServerStep(0)
    BY <1>1, <1>2, <1>3, <1>5, InvFacts DEF ServerStep, listVars, FramesStand, FramesOwned
  <2> QED
    BY <2>1, ServerStepKeepsServer
<1>9. Kept'
  BY <1>1, InvFacts, KeptStays DEF Kept, listVars
<1>10. Typed'
  <2>1. moves' \in 0 .. MaxMoves
    BY <1>1, InvFacts, IdsAssumption DEF OthersOK
  <2> QED
    BY <1>1, <1>2, <1>5, <2>1, InvFacts DEF Typed, ListOK, OthersOK, Shaped, listVars, EventsFollow
<1>11. OneUnmap'
  BY <1>1, <1>3, <1>5, NoUnmaps DEF listVars
<1> QED
  BY <1>7, <1>8, <1>9, <1>10, <1>11, InvFromParts

LEMMA ClientDestroysKeepsInv ==
  ASSUME StackInv, NEW c \in Clients, ClientDestroys(c)
  PROVE  StackInv'
<1> DEFINE e == [type |-> "Unmap", win |-> c]
           f == [type |-> "Destroy", win |-> c]
<1>1. /\ Contains(root, c) \/ c \in wrapped
      /\ root' = Unhooked(root, c) /\ wrapped' = wrapped \ {c} /\ shown' = shown \ {c}
      /\ events' = events \o (IF c \in shown THEN <<e>> ELSE << >>) \o <<f>>
      /\ UNCHANGED <<born, asked, moves, listVars, kept, unmapHeld, forgotten,
                     serial, raced>>
  BY DEF ClientDestroys
<1>2. /\ e \in Event /\ e.type = "Unmap" /\ e.win = c /\ \A w : Names(e, w) => w = c
      /\ f \in Event /\ f.type = "Destroy" /\ f.win = c /\ \A w : Names(f, w) => w = c
  BY EventShapes DEF Ids, Names
<1> HIDE DEF e, f
<1>3. /\ EventsFollow(0)
      /\ \A i \in News(0) : \/ c \in shown /\ events'[i] = e /\ i = Len(events) + 1
                            \/ events'[i] = f /\ i = Len(events')
      /\ c \in shown => \E i \in News(0) : events'[i] = e
  <2>1. CASE c \in shown
    <3>1. events' = Rest(0) \o <<e>> \o <<f>> /\ events \in Seq(Event)
      BY <1>1, <2>1, InvFacts
    <3>2. 0 <= Len(events) /\ e \in Event /\ f \in Event
      BY <1>2, <3>1
    <3>3. /\ EventsFollow(0)
          /\ \A i \in News(0) : \/ events'[i] = e /\ i = Len(events) - 0 + 1
                                \/ events'[i] = f /\ i = Len(events')
          /\ \E i, j \in News(0) : events'[i] = e /\ events'[j] = f
          /\ Len(events) - 0 + 2 \in News(0) /\ events'[Len(events) - 0 + 2] = f
      BY <3>1, <3>2, TwoMore
    <3>4. Len(events) - 0 + 1 = Len(events) + 1
      BY <3>1
    <3> QED
      BY <2>1, <3>3, <3>4
  <2>2. CASE c \notin shown
    <3>1. events' = Append(events, f)
      BY <1>1, <1>2, <2>2, InvFacts
    <3> QED
      BY <1>2, <2>2, <3>1, InvFacts, OneMore DEF EventsFollow
  <2> QED
    BY <2>1, <2>2
<1>4. /\ c \in ToSet(root) \cup wrapped /\ c \in Ids
      /\ root' \in Seq(Ids) /\ Distinct(root)' /\ ToSet(root)' = ToSet(root) \ {c}
  <2>1. c \in ToSet(root) \cup wrapped
    BY <1>1, InvFacts, ContainsMember
  <2>2. /\ Unhooked(root, c) \in Seq(Ids) /\ Distinct(Unhooked(root, c))
        /\ ToSet(Unhooked(root, c)) = ToSet(root) \ {c}
    BY InvFacts, WithoutMembers
  <2> QED
    BY <1>1, <2>1, <2>2 DEF Ids
<1>5. Listed' = Listed
  BY <1>1 DEF Listed, KeptWins, listVars
<1>6. shown \subseteq wrapped /\ \A x \in Managed : FrameOf[x] # c
  BY InvFacts, IdsAssumption DEF OthersOK, Frames
<1>7. Births'
  <2>1. \A i \in News(0) :
           /\ events'[i].type \notin {"Create", "MapRequest"}
           /\ \A w \in Ids : Names(events'[i], w) => w \in ToSet(root) \cup wrapped
    BY <1>2, <1>3, <1>4
  <2>2. /\ born' = born /\ asked' = asked /\ framed' = framed /\ known' = known
        /\ wrapped' \subseteq wrapped /\ ToSet(root)' \subseteq ToSet(root) \cup wrapped
        /\ known \subseteq framed
    BY <1>1, <1>4, InvFacts DEF listVars, OthersOK
  <2>3. Ordinary(0)
    BY <1>3, <1>5, <2>1, <2>2 DEF Ordinary
  <2> QED
    BY <2>3, OrdinaryKeepsBirths
<1>8. Server'
  <2>1. framed \subseteq Managed /\ framed' = framed /\ unmapHeld' = unmapHeld
    BY <1>1, InvFacts DEF OthersOK, listVars
  <2>2. \A i \in News(0) :
           /\ events'[i].type = "Unmap" => events'[i].win \in wrapped
           /\ events'[i].type = "Destroy" /\ events'[i].win \in Managed =>
                 /\ events'[i].win \notin ToSet(root)' \cup wrapped'
                 /\ i = Len(events')
    BY <1>1, <1>2, <1>3, <1>4, <1>6
  <2>3. \A x \in framed' :
           \/ x \in unmapHeld' \cup shown'
           \/ \E i \in News(0) : events'[i].type = "Unmap" /\ events'[i].win = x
           \/ x \in framed /\ x \notin unmapHeld \cup shown
    BY <1>1, <1>2, <1>3, <2>1
  <2>4. \A x \in framed : FrameOf[x] \in ToSet(root)'
    BY <1>4, <1>6, <2>1, InvFacts DEF FramesStand
  <2>5. /\ wrapped' \subseteq framed /\ wrapped' \cap ToSet(root)' = {}
        /\ \A x \in Managed : FrameOf[x] \in ToSet(root)' => x \in framed \cup forgotten
        /\ \A x \in Managed : x \in ToSet(root)' \cup wrapped' => x \in ToSet(root) \cup wrapped
        /\ forgotten' = forgotten
    BY <1>1, <1>4, InvFacts DEF FramesStand, FramesOwned
  <2>6. ServerStep(0)
    BY <1>3, <2>1, <2>2, <2>3, <2>4, <2>5 DEF ServerStep
  <2> QED
    BY <2>6, ServerStepKeepsServer
<1>9. Kept'
  BY <1>1, InvFacts, KeptStays DEF Kept, listVars
<1>10. Typed'
  BY <1>1, <1>3, <1>4, InvFacts DEF Typed, ListOK, OthersOK, Shaped, listVars, EventsFollow
<1>11. OneUnmap'
  <2>1. framed' = framed /\ unmapHeld' = unmapHeld /\ shown' = shown \ {c}
    BY <1>1 DEF listVars
  <2>2. \A i \in News(0) : events'[i].type = "Unmap" =>
           events'[i].win = c /\ c \in shown /\ i = Len(events) + 1
    BY <1>2, <1>3
  <2>3. UnmapStep(0)
    BY <1>3, <1>6, <2>1, <2>2, InvFacts DEF UnmapStep, FramesStand
  <2> QED
    BY <2>3, UnmapStepKeepsOneUnmap
<1> QED
  BY <1>7, <1>8, <1>9, <1>10, <1>11, InvFromParts

-----------------------------------------------------------------------------
(* compiz restacks a window                                                *)

LEMMA RequestKeepsInv ==
  ASSUME StackInv, NEW c \in framed, c \in ToSet(serverWindows), NEW sibling,
         \/ sibling = Nothing
         \/ \E s \in framed : s # c /\ sibling = FrameOf[s],
         Request(c, sibling)
  PROVE  StackInv'
<1> DEFINE f == FrameOf[c]
           n == serial + 1
           e == Configure(root', f, n)
<1>1. /\ serial < MaxRequests /\ serial' = n
      /\ root' = MovedAbove(root, f, sibling)
      /\ events' = IF root' = root THEN events ELSE Append(events, e)
      /\ pendings' = [pendings EXCEPT ![c] = @ \cup {[serial |-> n, sibling |-> sibling]}]
      /\ serverWindows' = Inserted(Unhooked(serverWindows, c), c, sibling, framed)
      /\ raced' = (raced \/ Stale)
      /\ UNCHANGED <<wrapped, shown, born, asked, moves, windows, framed,
                     known, kept, unmapHeld, forgotten>>
  BY DEF Request
<1>2. /\ c \in Managed /\ framed \subseteq Managed /\ c \in Ids /\ f \in Ids
      /\ f \in ToSet(root) /\ sibling # f
      /\ sibling = Nothing \/ sibling \in ToSet(root)
  <2>1. framed \subseteq Managed /\ c \in Managed /\ \A s \in framed : FrameOf[s] \in ToSet(root)
    BY InvFacts DEF OthersOK, FramesStand
  <2>2. f \in Ids /\ c \in Ids /\ f # Nothing
    BY <2>1, FrameIds
  <2>3. \A s \in framed : s # c => FrameOf[s] # f
    BY <2>1, IdsAssumption
  <2> QED
    BY <2>1, <2>2, <2>3
<1>3. sibling \in Ids \cup {Nothing}
  BY <1>2, InvFacts DEF ToSet
<1> HIDE DEF f
<1>4. root' \in Seq(Ids) /\ Distinct(root)' /\ ToSet(root)' = ToSet(root)
  <2>1. /\ MovedAbove(root, f, sibling) \in Seq(Ids) /\ Distinct(MovedAbove(root, f, sibling))
        /\ ToSet(MovedAbove(root, f, sibling)) = ToSet(root)
    BY <1>2, InvFacts, MovedMembers
  <2> QED
    BY <1>1, <2>1
<1>5. n \in 1 .. MaxRequests /\ n \in 0 .. MaxRequests
  BY <1>1, InvFacts, IdsAssumption DEF OthersOK
<1> HIDE DEF n
<1>6. /\ e \in Event /\ e.type = "Configure" /\ e.win = f
      /\ \A w \in Ids : Names(e, w) => w \in ToSet(root)
  <2>1. ASSUME NEW s \in Seq(Ids), Distinct(s), ToSet(s) = ToSet(root)
        PROVE  /\ Configure(s, f, n) \in Event /\ Configure(s, f, n).type = "Configure"
               /\ Configure(s, f, n).win = f
               /\ \A w \in Ids : Names(Configure(s, f, n), w) => w \in ToSet(root)
    BY <1>2, <1>5, <2>1, ConfigureShape
  <2> QED
    BY <1>4, <2>1
<1> HIDE DEF e
<1>7. EventsFollow(0) /\ \A i \in News(0) : events'[i] = e
  <2>1. events \in Seq(Event) /\ Rest(0) = events /\ 0 <= Len(events)
    BY InvFacts
  <2>2. CASE root' = root
    <3>1. events' = Rest(0)
      BY <1>1, <2>1, <2>2
    <3>2. EventsFollow(0) /\ News(0) = {}
      BY <2>1, <3>1, NoneMore
    <3> QED
      BY <3>2
  <2>3. CASE root' # root
    <3>1. events' = Append(Rest(0), e)
      BY <1>1, <2>1, <2>3
    <3>2. /\ EventsFollow(0) /\ News(0) = {Len(events')} /\ events'[Len(events')] = e
      BY <1>6, <2>1, <3>1, OneMore
    <3> QED
      BY <3>2
  <2> QED
    BY <2>2, <2>3
<1>8. serverWindows' \in Seq(Ids) /\ Distinct(serverWindows)'
      /\ ToSet(serverWindows)' \subseteq ToSet(serverWindows)
  <2> DEFINE r == Inserted(Unhooked(serverWindows, c), c, sibling, framed)
  <2>1. r \in Seq(Ids) /\ Distinct(r) /\ ToSet(r) \subseteq ToSet(serverWindows) \cup {c}
    BY <1>2, InvFacts, ReinsertedList
  <2>2. serverWindows' = r
    BY <1>1
  <2> QED
    BY <2>1, <2>2
<1>9. Listed' \subseteq Listed
  BY <1>1, <1>8 DEF Listed, KeptWins
<1>10. Births'
  <2>1. known \subseteq framed
    BY InvFacts DEF OthersOK
  <2>2. \A i \in News(0) :
           /\ events'[i].type \notin {"Create", "MapRequest"}
           /\ \A w \in Ids : Names(events'[i], w) => w \in ToSet(root) \cup wrapped
    BY <1>6, <1>7
  <2>3. /\ born' = born /\ asked' = asked /\ framed' = framed /\ known' = known
        /\ wrapped' = wrapped
    BY <1>1
  <2>4. Ordinary(0)
    BY <1>4, <1>7, <1>9, <2>1, <2>2, <2>3 DEF Ordinary
  <2> QED
    BY <2>4, OrdinaryKeepsBirths
<1>11. Server'
  <2>1. \A i \in News(0) : events'[i].type \notin {"Unmap", "Destroy"}
    BY <1>6, <1>7
  <2>2. /\ wrapped' = wrapped /\ framed' = framed /\ forgotten' = forgotten
        /\ unmapHeld' = unmapHeld /\ shown' = shown
    BY <1>1
  <2>3. ServerStep(0)
    BY <1>4, <1>7, <2>1, <2>2, InvFacts DEF ServerStep, FramesStand, FramesOwned
  <2> QED
    BY <2>3, ServerStepKeepsServer
<1>12. Kept'
  BY <1>1, InvFacts, KeptStays DEF Kept
<1>13. Typed'
  <2>1. raced' \in BOOLEAN
    BY <1>1
  <2>2. [serial |-> n, sibling |-> sibling] \in Restacks
    BY <1>3, <1>5 DEF Restacks
  <2>3. pendings' \in [Managed -> SUBSET Restacks]
    BY <1>1, <1>2, <2>2, InvFacts DEF Shaped
  <2>4. Shaped'
    BY <1>1, <2>3, InvFacts DEF Shaped
  <2>5. OthersOK'
    BY <1>1, <1>5, <1>7, <2>1, InvFacts DEF OthersOK, EventsFollow
  <2> QED
    BY <1>1, <1>4, <1>8, <2>4, <2>5, InvFacts DEF Typed, ListOK
<1>14. OneUnmap'
  <2>1. \A i \in News(0) : events'[i].type # "Unmap"
    BY <1>6, <1>7
  <2> QED
    BY <1>1, <1>7, <2>1, NoUnmaps
<1> QED
  BY <1>10, <1>11, <1>12, <1>13, <1>14, InvFromParts

LEMMA RestackKeepsInv ==
  ASSUME StackInv, NEW c \in Managed,
         Lower(c) \/ \E s \in Managed : RestackAbove(c, s)
  PROVE  StackInv'
<1>1. CASE Lower(c)
  <2>1. c \in framed /\ c \in ToSet(serverWindows) /\ Request(c, Nothing)
    BY <1>1, InvFacts, ContainsMember DEF Lower, CanRestack
  <2> QED
    BY <2>1, RequestKeepsInv
<1>2. ASSUME NEW s \in Managed, RestackAbove(c, s)
      PROVE  StackInv'
  <2>1. /\ c \in framed /\ c \in ToSet(serverWindows)
        /\ s \in framed /\ s # c /\ Request(c, FrameOf[s])
    BY <1>2, InvFacts, ContainsMember DEF RestackAbove, CanRestack, RootParent
  <2> QED
    BY <2>1, RequestKeepsInv
<1> QED
  BY <1>1, <1>2

-----------------------------------------------------------------------------
(* The steps that introduce windows                                        *)

LEMMA StaysUnheard ==
  ASSUME events \in Seq(Event), NEW d, EventsFollow(d), NEW w, Unheard(w),
         w \notin Listed', w \notin ToSet(root)', w \notin wrapped',
         \A i \in News(d) : ~ Names(events'[i], w)
  PROVE  Unheard(w)'
<1>1. \A i \in DOMAIN events' :
         i \in News(d) \/ (i + d \in DOMAIN events /\ events'[i] = events[i + d])
  BY FollowPlaces
<1>2. \A i \in DOMAIN events' : ~ Names(events'[i], w)
  BY <1>1 DEF Unheard
<1> QED
  BY <1>2 DEF Unheard

(* The requests to be mapped that were there are still the only ones.      *)
LEMMA SameRequests ==
  ASSUME StackInv, NEW d, EventsFollow(d), asked \subseteq asked', framed' = framed,
         \A i \in News(d) : events'[i].type # "MapRequest",
         \A w \in Ids : Unheard(w) /\ w \in Frames => Unheard(w)'
  PROVE  OneRequest'
<1>1. events \in Seq(Event) /\ OneRequest /\ asked \subseteq Managed
  BY InvFacts DEF OthersOK
<1>2. /\ \A i \in DOMAIN events' :
            i \in News(d) \/ (i + d \in DOMAIN events /\ events'[i] = events[i + d])
      /\ \A i, j \in DOMAIN events' : i + d = j + d => i = j
  BY <1>1, FollowPlaces
<1>3. ASSUME NEW i \in DOMAIN events', events'[i].type = "MapRequest"
      PROVE  i + d \in DOMAIN events /\ events'[i] = events[i + d]
  BY <1>2, <1>3
<1>4. \A i \in DOMAIN events' : events'[i].type = "MapRequest" => events'[i].win \in asked'
  BY <1>1, <1>3 DEF OneRequest
<1>5. ASSUME NEW c \in asked', NEW i \in DOMAIN events',
             events'[i].type = "MapRequest", events'[i].win = c
      PROVE  /\ c \notin framed' /\ Unheard(FrameOf[c])'
             /\ \A j \in DOMAIN events' :
                   events'[j].type = "MapRequest" /\ events'[j].win = c => j = i
  <2>1. i + d \in DOMAIN events /\ events'[i] = events[i + d]
    BY <1>3, <1>5
  <2>2. /\ c \in asked /\ c \notin framed /\ Unheard(FrameOf[c])
        /\ \A j \in DOMAIN events :
              events[j].type = "MapRequest" /\ events[j].win = c => j = i + d
    BY <1>1, <1>5, <2>1 DEF OneRequest
  <2>3. FrameOf[c] \in Ids /\ FrameOf[c] \in Frames
    BY <1>1, <2>2, FrameIds
  <2>4. ASSUME NEW j \in DOMAIN events', events'[j].type = "MapRequest", events'[j].win = c
        PROVE  j = i
    <3>1. j + d \in DOMAIN events /\ events'[j] = events[j + d]
      BY <1>3, <2>4
    <3>2. j + d = i + d
      BY <2>2, <2>4, <3>1
    <3> QED
      BY <1>2, <3>2
  <2> QED
    BY <2>2, <2>3, <2>4
<1> QED
  BY <1>4, <1>5 DEF OneRequest

LEMMA ClientCreatesKeepsInv ==
  ASSUME StackInv, NEW c \in Clients, ClientCreates(c)
  PROVE  StackInv'
<1> DEFINE e == [type |-> "Create", win |-> c]
<1>1. /\ c \notin born /\ born' = born \cup {c} /\ root' = Append(root, c)
      /\ events' = Append(events, e)
      /\ UNCHANGED <<wrapped, shown, asked, moves, listVars, kept, unmapHeld,
                     forgotten, serial, raced>>
  BY DEF ClientCreates
<1>2. /\ e \in Event /\ e.type = "Create" /\ e.win = c
      /\ c \in Ids /\ \A w : Names(e, w) => w = c
  BY EventShapes DEF Ids, Names
<1> HIDE DEF e
<1>3. EventsFollow(0) /\ News(0) = {Len(events')} /\ events'[Len(events')] = e
  BY <1>1, <1>2, InvFacts, OneMore DEF EventsFollow
<1>4. Listed' = Listed /\ framed' = framed /\ known' = known /\ wrapped' = wrapped
      /\ asked' = asked
  BY <1>1 DEF Listed, KeptWins, listVars
<1>5. Unheard(c) /\ \A x \in Managed : FrameOf[x] # c
  BY <1>1, InvFacts, FrameIds DEF NotBorn
<1>6. root' \in Seq(Ids) /\ Distinct(root)' /\ ToSet(root)' = ToSet(root) \cup {c}
  <2>1. /\ Append(root, c) \in Seq(Ids) /\ Distinct(Append(root, c))
        /\ ToSet(Append(root, c)) = ToSet(root) \cup {c}
    BY <1>2, <1>5, InvFacts, AppendedMembers DEF Unheard
  <2> QED
    BY <1>1, <2>1
<1>7. ASSUME NEW w \in Ids, w # c, Unheard(w)
      PROVE  Unheard(w)'
  <2>1. w \notin Listed' /\ w \notin ToSet(root)' /\ w \notin wrapped'
    BY <1>4, <1>6, <1>7 DEF Unheard
  <2>2. \A i \in News(0) : ~ Names(events'[i], w)
    BY <1>2, <1>3, <1>7
  <2>3. events \in Seq(Event) /\ EventsFollow(0)
    BY <1>3, InvFacts
  <2> QED
    BY <1>7, <2>1, <2>2, <2>3, StaysUnheard
<1>8. /\ events \in Seq(Event)
      /\ \A i \in DOMAIN events' :
            i \in News(0) \/ (i \in DOMAIN events /\ events'[i] = events[i])
      /\ \A i \in DOMAIN events : i \in DOMAIN events' /\ i \notin News(0) /\ events'[i] = events[i]
      /\ \A i \in DOMAIN events' : \A j \in News(0) : i \notin News(0) => i < j
  <2>1. \A i \in DOMAIN events' : i + 0 = i
    BY <1>3 DEF EventsFollow
  <2>2. \A i \in DOMAIN events : i - 0 = i
    BY InvFacts
  <2> QED
    BY <1>3, <2>1, <2>2, InvFacts, FollowPlaces
<1>9. Births'
  <2>1. NotBorn'
    <3>1. \A x \in Clients \ born' : x \in Ids /\ x # c /\ Unheard(x)
      BY <1>1, InvFacts DEF NotBorn, Ids
    <3>2. \A x \in Managed \ asked : FrameOf[x] \in Ids /\ FrameOf[x] # c /\ Unheard(FrameOf[x])
      BY <1>5, InvFacts, FrameIds DEF NotBorn
    <3> QED
      BY <1>4, <1>7, <3>1, <3>2 DEF NotBorn
  <2>2. OneRequest'
    <3>1. \A i \in News(0) : events'[i].type # "MapRequest"
      BY <1>2, <1>3
    <3>2. \A w \in Ids : Unheard(w) /\ w \in Frames => Unheard(w)'
      BY <1>5, <1>7 DEF Frames
    <3> QED
      BY <1>3, <1>4, <3>1, <3>2, SameRequests
  <2>3. Introduced'
    <3> SUFFICES ASSUME NEW i \in DOMAIN events', events'[i].type = "Create"
                 PROVE  /\ events'[i].win \notin Listed'
                        /\ \A j \in DOMAIN events' :
                              j < i => ~ Names(events'[j], events'[i].win)
      BY DEF Introduced
    <3>1. CASE i \in News(0)
      <4>1. events'[i] = e /\ \A j \in DOMAIN events' : j < i => j \notin News(0)
        BY <1>3, <3>1 DEF EventsFollow
      <4> QED
        BY <1>2, <1>4, <1>5, <1>8, <4>1 DEF Unheard
    <3>2. CASE i \notin News(0)
      <4>1. i \in DOMAIN events /\ events'[i] = events[i]
        BY <1>8, <3>2
      <4>2. \A j \in DOMAIN events' : j < i => j \in DOMAIN events /\ events'[j] = events[j]
        BY <1>3, <1>8, <3>2 DEF News, EventsFollow
      <4>3. /\ events[i].win \notin Listed
            /\ \A j \in DOMAIN events : j < i => ~ Names(events[j], events[i].win)
        BY <4>1, InvFacts DEF Introduced
      <4> QED
        BY <1>4, <4>1, <4>2, <4>3
    <3> QED
      BY <3>1, <3>2
  <2>4. FramesApart'
    <3>1. ASSUME NEW x \in Managed
          PROVE  Pending("Create", FrameOf[x])' <=> Pending("Create", FrameOf[x])
      BY <1>2, <1>3, <1>5, <1>8 DEF Pending
    <3> QED
      BY <1>4, <3>1, InvFacts DEF FramesApart, OthersOK
  <2> QED
    BY <2>1, <2>2, <2>3, <2>4 DEF Births
<1>10. Server'
  <2>1. /\ \A i \in News(0) : events'[i].type \notin {"Unmap", "Destroy"}
        /\ forgotten' = forgotten /\ unmapHeld' = unmapHeld /\ shown' = shown
    BY <1>1, <1>2, <1>3
  <2>2. ServerStep(0)
    BY <1>3, <1>4, <1>5, <1>6, <2>1, InvFacts
       DEF ServerStep, FramesStand, FramesOwned, Unheard, OthersOK
  <2> QED
    BY <2>2, ServerStepKeepsServer
<1>11. Kept'
  BY <1>1, InvFacts, KeptStays DEF Kept, listVars
<1>12. Typed'
  <2>1. born' \subseteq Clients
    BY <1>1, InvFacts DEF OthersOK
  <2> QED
    BY <1>1, <1>3, <1>6, <2>1, InvFacts DEF Typed, ListOK, OthersOK, Shaped, listVars, EventsFollow
<1>13. OneUnmap'
  BY <1>1, <1>2, <1>3, NoUnmaps DEF listVars
<1> QED
  BY <1>9, <1>10, <1>11, <1>12, <1>13, InvFromParts

(* Steps that tell of no new window: the CreateNotifys that were there     *)
(* still come first.                                                       *)
LEMMA SameCreates ==
  ASSUME StackInv, NEW d, EventsFollow(d), Listed' \subseteq Listed,
         \A i \in News(d) : events'[i].type # "Create"
  PROVE  Introduced'
<1>1. events \in Seq(Event) /\ Introduced
  BY InvFacts
<1>2. /\ \A i \in DOMAIN events' :
            i \in News(d) \/ (i + d \in DOMAIN events /\ events'[i] = events[i + d])
      /\ \A i \in DOMAIN events' : \A j \in News(d) : i \notin News(d) => i < j
      /\ \A i, j \in DOMAIN events' : (i < j => i + d < j + d)
  BY <1>1, FollowPlaces
<1> SUFFICES ASSUME NEW i \in DOMAIN events', events'[i].type = "Create"
             PROVE  /\ events'[i].win \notin Listed'
                    /\ \A j \in DOMAIN events' :
                          j < i => ~ Names(events'[j], events'[i].win)
  BY DEF Introduced
<1>3. i \notin News(d) /\ i + d \in DOMAIN events /\ events'[i] = events[i + d]
  BY <1>2
<1>4. /\ events'[i].win \notin Listed
      /\ \A j \in DOMAIN events : j < i + d => ~ Names(events[j], events'[i].win)
  BY <1>1, <1>3 DEF Introduced
<1>5. ASSUME NEW j \in DOMAIN events', j < i
      PROVE  ~ Names(events'[j], events'[i].win)
  <2>1. j \notin News(d)
    BY <1>3, <1>5 DEF News, EventsFollow
  <2>2. j + d \in DOMAIN events /\ events'[j] = events[j + d] /\ j + d < i + d
    BY <1>2, <1>5, <2>1
  <2> QED
    BY <1>4, <2>2
<1> QED
  BY <1>4, <1>5

LEMMA ClientMapsKeepsInv ==
  ASSUME StackInv, NEW c \in Clients, ClientMaps(c)
  PROVE  StackInv'
<1> DEFINE e == [type |-> "MapRequest", win |-> c]
<1>1. /\ c \in Managed /\ c \notin asked /\ Contains(root, c) /\ asked' = asked \cup {c}
      /\ events' = Append(events, e)
      /\ UNCHANGED <<root, wrapped, shown, born, moves, listVars, kept,
                     unmapHeld, forgotten, serial, raced>>
  BY DEF ClientMaps
<1>2. /\ e \in Event /\ e.type = "MapRequest" /\ e.win = c
      /\ c \in Ids /\ \A w : Names(e, w) => w = c
  BY EventShapes DEF Ids, Names
<1> HIDE DEF e
<1>3. EventsFollow(0) /\ News(0) = {Len(events')} /\ events'[Len(events')] = e
  BY <1>1, <1>2, InvFacts, OneMore DEF EventsFollow
<1>4. Listed' = Listed /\ framed' = framed /\ known' = known /\ wrapped' = wrapped
      /\ born' = born /\ root' = root
  BY <1>1 DEF Listed, KeptWins, listVars
<1>5. /\ c \in ToSet(root) /\ c \notin framed /\ Unheard(FrameOf[c])
      /\ \A x \in Managed : FrameOf[x] # c
  BY <1>1, InvFacts, ContainsMember, FrameIds DEF NotBorn, FramesApart
<1>6. ASSUME NEW w \in Ids, w # c, Unheard(w)
      PROVE  Unheard(w)'
  <2>1. w \notin Listed' /\ w \notin ToSet(root)' /\ w \notin wrapped'
    BY <1>4, <1>6 DEF Unheard
  <2>2. \A i \in News(0) : ~ Names(events'[i], w)
    BY <1>2, <1>3, <1>6
  <2>3. events \in Seq(Event) /\ EventsFollow(0)
    BY <1>3, InvFacts
  <2> QED
    BY <1>6, <2>1, <2>2, <2>3, StaysUnheard
<1>7. /\ events \in Seq(Event)
      /\ \A i \in DOMAIN events' :
            i \in News(0) \/ (i \in DOMAIN events /\ events'[i] = events[i])
      /\ \A i \in DOMAIN events : i \in DOMAIN events' /\ i \notin News(0) /\ events'[i] = events[i]
  <2>1. \A i \in DOMAIN events' : i + 0 = i
    BY <1>3 DEF EventsFollow
  <2>2. \A i \in DOMAIN events : i - 0 = i
    BY InvFacts
  <2> QED
    BY <1>3, <2>1, <2>2, InvFacts, FollowPlaces
<1>8. Births'
  <2>1. NotBorn'
    <3>1. \A x \in Clients \ born : x \in Ids /\ x # c /\ Unheard(x)
      BY <1>5, InvFacts DEF NotBorn, Ids, Unheard
    <3>2. \A x \in Managed \ asked : FrameOf[x] \in Ids /\ FrameOf[x] # c /\ Unheard(FrameOf[x])
      BY <1>5, InvFacts, FrameIds DEF NotBorn
    <3> QED
      BY <1>1, <1>4, <1>6, <3>1, <3>2 DEF NotBorn
  <2>2. OneRequest'
    <3>1. \A i \in DOMAIN events : events[i].type = "MapRequest" => events[i].win \in asked
      BY InvFacts DEF OneRequest
    <3>2. \A i \in DOMAIN events' : events'[i].type = "MapRequest" => events'[i].win \in asked'
      BY <1>1, <1>2, <1>3, <1>7, <3>1
    <3>3. ASSUME NEW x \in asked', NEW i \in DOMAIN events',
                 events'[i].type = "MapRequest", events'[i].win = x
          PROVE  /\ x \notin framed' /\ Unheard(FrameOf[x])'
                 /\ \A j \in DOMAIN events' :
                       events'[j].type = "MapRequest" /\ events'[j].win = x => j = i
      <4>1. CASE x = c
        <5>1. \A j \in DOMAIN events' :
                 events'[j].type = "MapRequest" /\ events'[j].win = x => j = Len(events')
          BY <1>1, <1>3, <1>7, <3>1, <4>1
        <5>2. Unheard(FrameOf[c])'
          BY <1>1, <1>5, <1>6, FrameIds
        <5> QED
          BY <1>4, <1>5, <3>3, <4>1, <5>1, <5>2
      <4>2. CASE x # c
        <5>1. x \in asked /\ x \in Managed
          BY <1>1, <4>2, InvFacts DEF OthersOK
        <5>2. \A j \in DOMAIN events' : events'[j].win = x =>
                 j \in DOMAIN events /\ events'[j] = events[j]
          BY <1>2, <1>3, <1>7, <4>2
        <5>3. /\ x \notin framed /\ Unheard(FrameOf[x])
              /\ \A j \in DOMAIN events :
                    events[j].type = "MapRequest" /\ events[j].win = x => j = i
          BY <3>3, <5>1, <5>2, InvFacts DEF OneRequest
        <5>4. Unheard(FrameOf[x])'
          BY <1>5, <1>6, <5>1, <5>3, FrameIds
        <5> QED
          BY <1>4, <5>2, <5>3, <5>4
      <4> QED
        BY <4>1, <4>2
    <3> QED
      BY <3>2, <3>3 DEF OneRequest
  <2>3. Introduced'
    <3>1. \A i \in News(0) : events'[i].type # "Create"
      BY <1>2, <1>3
    <3> QED
      BY <1>3, <1>4, <3>1, SameCreates
  <2>4. FramesApart'
    <3>1. ASSUME NEW x \in Managed
          PROVE  Pending("Create", FrameOf[x])' <=> Pending("Create", FrameOf[x])
      BY <1>2, <1>3, <1>7 DEF Pending
    <3> QED
      BY <1>1, <1>4, <3>1, InvFacts DEF FramesApart, OthersOK
  <2> QED
    BY <2>1, <2>2, <2>3, <2>4 DEF Births
<1>9. Server'
  <2>1. /\ \A i \in News(0) : events'[i].type \notin {"Unmap", "Destroy"}
        /\ forgotten' = forgotten /\ unmapHeld' = unmapHeld /\ shown' = shown
    BY <1>1, <1>2, <1>3
  <2>2. ServerStep(0)
    BY <1>3, <1>4, <2>1, InvFacts DEF ServerStep, FramesStand, FramesOwned
  <2> QED
    BY <2>2, ServerStepKeepsServer
<1>10. Kept'
  BY <1>1, InvFacts, KeptStays DEF Kept, listVars
<1>11. Typed'
  <2>1. asked' \subseteq Managed /\ wrapped \subseteq asked'
    BY <1>1, InvFacts DEF OthersOK
  <2> QED
    BY <1>1, <1>3, <2>1, InvFacts DEF Typed, ListOK, OthersOK, Shaped, listVars, EventsFollow
<1>12. OneUnmap'
  BY <1>1, <1>2, <1>3, NoUnmaps DEF listVars
<1> QED
  BY <1>8, <1>9, <1>10, <1>11, <1>12, InvFromParts

-----------------------------------------------------------------------------
(* compiz reads an event                                                   *)

LEMMA ReadsFirst ==
  ASSUME events \in Seq(Event), NEW type, Reads(type)
  PROVE  /\ 1 \in DOMAIN events /\ 1 <= Len(events) /\ Rest(1) = Tail(events)
         /\ Head(events) = events[1] /\ events[1].type = type /\ events[1].win = Subject
         /\ Subject \in Ids /\ Names(events[1], Subject)
<1>1. events # << >> /\ Head(events) = events[1] /\ 1 <= Len(events) /\ 1 \in DOMAIN events
  BY DEF Reads
<1>2. events[1] \in Event
  BY <1>1
<1> QED
  BY <1>1, <1>2, EventFields DEF Reads, Subject, Names, Rest

LEMMA HandleCreateKeepsInv ==
  ASSUME StackInv, HandleCreate
  PROVE  StackInv'
<1> DEFINE w == Subject
           owners == {x \in framed : FrameOf[x] = w}
<1>1. /\ Reads("Create") /\ events' = Tail(events)
      /\ IF owners # {}
         THEN known' = known \cup owners /\ UNCHANGED <<windows, serverWindows>>
         ELSE /\ windows' = Append(windows, w)
              /\ serverWindows' = Append(serverWindows, w)
              /\ UNCHANGED known
      /\ UNCHANGED <<root, wrapped, shown, born, asked, moves, framed, pendings,
                     kept, unmapHeld, forgotten, serial, raced>>
  BY DEF HandleCreate, serverVars
<1>2. /\ 1 \in DOMAIN events /\ 1 <= Len(events) /\ events' = Rest(1)
      /\ events[1].type = "Create" /\ events[1].win = w
      /\ w \in Ids /\ Names(events[1], w)
  BY <1>1, InvFacts, ReadsFirst
<1> HIDE DEF w
<1>3. EventsFollow(1) /\ News(1) = {}
  BY <1>2, InvFacts, NoneMore
<1>4. w \notin Listed
  BY <1>2, InvFacts DEF Introduced
<1>5. owners \subseteq framed /\ framed \subseteq Managed
  BY InvFacts DEF OthersOK
<1>6. /\ ListOK(windows)' /\ ToSet(windows) \subseteq ToSet(windows)'
      /\ ToSet(windows)' \subseteq ToSet(windows) \cup {w}
      /\ ListOK(serverWindows)'
      /\ ToSet(serverWindows)' \subseteq ToSet(serverWindows) \cup {w}
      /\ owners # {} => ToSet(windows)' = ToSet(windows) /\ ToSet(serverWindows)' = ToSet(serverWindows)
  <2>1. CASE owners # {}
    BY <1>1, <2>1, InvFacts DEF ListOK
  <2>2. CASE owners = {}
    <3>1. ASSUME NEW s \in Seq(Ids), Distinct(s), ToSet(s) \subseteq Listed
          PROVE  /\ ListOK(Append(s, w)) /\ ToSet(Append(s, w)) = ToSet(s) \cup {w}
      BY <1>2, <1>4, <3>1, AppendedMembers DEF ListOK
    <3>2. windows' = Append(windows, w) /\ serverWindows' = Append(serverWindows, w)
      BY <1>1, <2>2
    <3>3. ToSet(windows) \subseteq Listed /\ ToSet(serverWindows) \subseteq Listed
      BY DEF Listed
    <3>4. ListOK(Append(windows, w)) /\ ToSet(Append(windows, w)) = ToSet(windows) \cup {w}
      BY <3>1, <3>3, InvFacts
    <3>5. /\ ListOK(Append(serverWindows, w))
          /\ ToSet(Append(serverWindows, w)) = ToSet(serverWindows) \cup {w}
      BY <3>1, <3>3, InvFacts
    <3> QED
      BY <2>2, <3>2, <3>4, <3>5 DEF ListOK
  <2> QED
    BY <2>1, <2>2
<1>7. KeptWins' = KeptWins
  BY <1>1 DEF KeptWins
<1>8. Listed' \subseteq Listed \cup {w} /\ (owners # {} => Listed' = Listed)
  BY <1>6, <1>7 DEF Listed
<1>9. /\ \A i \in DOMAIN events' : i + 1 \in DOMAIN events /\ events'[i] = events[i + 1]
      /\ \A i \in DOMAIN events : i # 1 => i - 1 \in DOMAIN events' /\ events'[i - 1] = events[i]
      /\ \A i, j \in DOMAIN events' : i < j => i + 1 < j + 1
      /\ \A i \in DOMAIN events' : 1 < i + 1
  <2>1. \A i \in DOMAIN events' : 1 < i + 1
    BY <1>3 DEF EventsFollow
  <2> QED
    BY <1>3, <2>1, InvFacts, FollowPlaces
<1>10. ASSUME NEW i \in DOMAIN events, events[i].type = "Create", i # 1
       PROVE  events[i].win # w
  <2>1. 1 < i
    BY <1>10, InvFacts
  <2> QED
    BY <1>2, <1>10, <2>1, InvFacts DEF Introduced
<1>11. \A x : Pending("Create", x)' <=> Pending("Create", x) /\ x # w
  <2> SUFFICES ASSUME NEW x
               PROVE  Pending("Create", x)' <=> Pending("Create", x) /\ x # w
    OBVIOUS
  <2>1. ASSUME NEW i \in DOMAIN events', events'[i].type = "Create", events'[i].win = x
        PROVE  Pending("Create", x) /\ x # w
    <3>1. i + 1 \in DOMAIN events /\ events'[i] = events[i + 1] /\ i + 1 # 1
      BY <1>3, <1>9 DEF EventsFollow
    <3> QED
      BY <1>10, <2>1, <3>1 DEF Pending
  <2>2. ASSUME NEW i \in DOMAIN events, events[i].type = "Create", events[i].win = x, x # w
        PROVE  Pending("Create", x)'
    BY <1>2, <1>9, <2>2 DEF Pending
  <2> QED
    BY <2>1, <2>2 DEF Pending
<1>12. ASSUME NEW x \in Ids, Unheard(x)
       PROVE  Unheard(x)'
  <2>1. x # w
    BY <1>2, <1>12 DEF Unheard
  <2>2. x \notin Listed' /\ x \notin ToSet(root)' /\ x \notin wrapped'
    BY <1>1, <1>8, <1>12, <2>1 DEF Unheard
  <2>3. events \in Seq(Event) /\ EventsFollow(1) /\ \A i \in News(1) : ~ Names(events'[i], x)
    BY <1>3, InvFacts
  <2> QED
    BY <1>12, <2>2, <2>3, StaysUnheard
<1>13. Births'
  <2>1. NotBorn'
    <3>1. \A x \in Clients \ born : x \in Ids /\ Unheard(x)
      BY InvFacts DEF NotBorn, Ids
    <3>2. \A x \in Managed \ asked : FrameOf[x] \in Ids /\ Unheard(FrameOf[x])
      BY InvFacts, FrameIds DEF NotBorn
    <3> QED
      BY <1>1, <1>12, <3>1, <3>2 DEF NotBorn
  <2>2. OneRequest'
    BY <1>1, <1>3, <1>12, SameRequests
  <2>3. Introduced'
    <3> SUFFICES ASSUME NEW i \in DOMAIN events', events'[i].type = "Create"
                 PROVE  /\ events'[i].win \notin Listed'
                        /\ \A j \in DOMAIN events' :
                              j < i => ~ Names(events'[j], events'[i].win)
      BY DEF Introduced
    <3>1. i + 1 \in DOMAIN events /\ events'[i] = events[i + 1] /\ i + 1 # 1
      BY <1>3, <1>9 DEF EventsFollow
    <3>2. events'[i].win # w
      BY <1>10, <3>1
    <3>3. /\ events'[i].win \notin Listed
          /\ \A j \in DOMAIN events : j < i + 1 => ~ Names(events[j], events'[i].win)
      BY <3>1, InvFacts DEF Introduced
    <3> QED
      BY <1>8, <1>9, <3>2, <3>3
  <2>4. FramesApart'
    <3> SUFFICES ASSUME NEW x \in framed
                 PROVE  /\ x \in asked' /\ FrameOf[x] \notin Listed'
                        /\ x \in known' <=> ~ Pending("Create", FrameOf[x])'
      BY <1>1 DEF FramesApart
    <3>1. /\ x \in asked /\ FrameOf[x] \notin Listed
          /\ x \in known <=> ~ Pending("Create", FrameOf[x])
      BY InvFacts DEF FramesApart
    <3>2. FrameOf[x] = w <=> x \in owners
      OBVIOUS
    <3>3. Pending("Create", FrameOf[x])' <=> Pending("Create", FrameOf[x]) /\ FrameOf[x] # w
      BY <1>11
    <3>4. CASE owners # {}
      <4>1. known' = known \cup owners
        BY <1>1, <3>4
      <4> QED
        BY <1>1, <1>8, <3>1, <3>2, <3>3, <3>4, <4>1
    <3>5. CASE owners = {}
      <4>1. known' = known
        BY <1>1, <3>5
      <4>2. FrameOf[x] # w
        BY <3>2, <3>5
      <4> QED
        BY <1>1, <1>8, <3>1, <3>3, <4>1, <4>2
    <3> QED
      BY <3>4, <3>5
  <2> QED
    BY <2>1, <2>2, <2>3, <2>4 DEF Births
<1>14. Server'
  <2>1. ServerStep(1)
    BY <1>1, <1>2, <1>3, InvFacts DEF ServerStep, FramesStand, FramesOwned
  <2> QED
    BY <2>1, ServerStepKeepsServer
<1>15. Kept'
  <2>1. ToSet(windows)' \cap KeptWins = {}
    BY <1>4, <1>6, InvFacts DEF Kept, Listed
  <2> QED
    BY <1>1, <1>6, <2>1, KeptStays
<1>16. Typed'
  <2>1. known' \subseteq framed
    BY <1>1, <1>5, InvFacts DEF OthersOK
  <2> QED
    BY <1>1, <1>3, <1>6, <2>1, InvFacts DEF Typed, ListOK, OthersOK, Shaped, EventsFollow
<1>17. OneUnmap'
  BY <1>1, <1>3, NoUnmaps
<1> QED
  BY <1>13, <1>14, <1>15, <1>16, <1>17, InvFromParts

LEMMA HandleMapRequestKeepsInv ==
  ASSUME StackInv, HandleMapRequest
  PROVE  StackInv'
<1> DEFINE c == Subject
           f == FrameOf[c]
           e == [type |-> "Create", win |-> f]
<1>1. /\ Reads("MapRequest")
      /\ IF Contains(windows, c) /\ Contains(root, c)
         THEN /\ root' = ReplaceAll(root, c, f)
              /\ wrapped' = wrapped \cup {c}
              /\ shown' = shown \cup {c}
              /\ framed' = framed \cup {c}
              /\ events' = Append(Tail(events), e)
         ELSE /\ events' = Tail(events)
              /\ UNCHANGED <<root, wrapped, shown, framed>>
      /\ UNCHANGED <<born, asked, moves, windows, serverWindows, known,
                     pendings, kept, unmapHeld, forgotten, serial, raced>>
  BY DEF HandleMapRequest
<1>2. /\ 1 \in DOMAIN events /\ 1 <= Len(events) /\ Rest(1) = Tail(events)
      /\ events[1].type = "MapRequest" /\ events[1].win = c
      /\ c \in Ids /\ Names(events[1], c)
  BY <1>1, InvFacts, ReadsFirst
<1> HIDE DEF c
<1>3. Listed' = Listed /\ KeptWins' = KeptWins
  BY <1>1 DEF Listed, KeptWins
<1>4. Kept'
  BY <1>1, InvFacts, KeptStays DEF Kept
<1>5. CASE ~ (Contains(windows, c) /\ Contains(root, c))
  <2>1. EventsFollow(1) /\ News(1) = {}
    BY <1>1, <1>2, <1>5, InvFacts, NoneMore
  <2>2. Births'
    <3>1. Ordinary(1)
      BY <1>1, <1>2, <1>3, <1>5, <2>1, InvFacts DEF Ordinary, OthersOK
    <3> QED
      BY <3>1, OrdinaryKeepsBirths
  <2>3. Server'
    <3>1. ServerStep(1)
      BY <1>1, <1>2, <1>5, <2>1, InvFacts DEF ServerStep, FramesStand, FramesOwned
    <3> QED
      BY <3>1, ServerStepKeepsServer
  <2>4. Typed'
    BY <1>1, <1>5, <2>1, InvFacts DEF Typed, ListOK, OthersOK, Shaped, EventsFollow
  <2>5. OneUnmap'
    BY <1>1, <1>5, <2>1, NoUnmaps
  <2> QED
    BY <1>4, <2>2, <2>3, <2>4, <2>5, InvFromParts
<1>6. CASE Contains(windows, c) /\ Contains(root, c)
  <2>1. /\ c \in asked /\ c \notin framed /\ Unheard(f)
        /\ \A j \in DOMAIN events :
              events[j].type = "MapRequest" /\ events[j].win = c => j = 1
    BY <1>2, InvFacts DEF OneRequest
  <2>2. /\ c \in Managed /\ c \in ToSet(root) /\ f \in Ids /\ c # f /\ f \notin Clients
        /\ \A x \in Managed : FrameOf[x] = f => x = c
        /\ \A x \in Managed : FrameOf[x] # c
    BY <1>6, <2>1, InvFacts, ContainsMember, FrameIds DEF OthersOK
  <2>3. e \in Event /\ e.type = "Create" /\ e.win = f /\ \A w : Names(e, w) => w = f
    BY <2>2, EventShapes DEF Names
  <2>4. events' = Append(Rest(1), e)
    BY <1>1, <1>2, <1>6
  <2> HIDE DEF e
  <2>5. EventsFollow(1) /\ News(1) = {Len(events')} /\ events'[Len(events')] = e
    BY <1>2, <2>3, <2>4, InvFacts, OneMore
  <2>6. /\ \A i \in DOMAIN events' :
              i \in News(1) \/ (i + 1 \in DOMAIN events /\ events'[i] = events[i + 1])
        /\ \A i \in DOMAIN events : i # 1 =>
              i - 1 \in DOMAIN events' /\ i - 1 \notin News(1) /\ events'[i - 1] = events[i]
        /\ \A i \in DOMAIN events' : \A j \in News(1) : i \notin News(1) => i < j
        /\ \A i, j \in DOMAIN events' : (i < j => i + 1 < j + 1) /\ (i + 1 = j + 1 => i = j)
    BY <2>5, InvFacts, FollowPlaces
  <2>7. \A i \in DOMAIN events' : i + 1 # 1
    BY <2>5 DEF EventsFollow
  <2>8. ListOK(root)' /\ ToSet(root)' = (ToSet(root) \ {c}) \cup {f}
    <3> DEFINE r == ReplaceAll(root, c, f)
    <3>1. r \in Seq(Ids) /\ Distinct(r) /\ ToSet(r) = (ToSet(root) \ {c}) \cup {f}
      BY <2>1, <2>2, InvFacts, ReplacedMembers DEF Unheard
    <3>2. root' = r
      BY <1>1, <1>6
    <3> QED
      BY <3>1, <3>2 DEF ListOK
  <2> HIDE DEF f
  <2>9. /\ wrapped' = wrapped \cup {c} /\ shown' = shown \cup {c} /\ framed' = framed \cup {c}
        /\ born' = born /\ asked' = asked /\ known' = known /\ forgotten' = forgotten
        /\ unmapHeld' = unmapHeld
    BY <1>1, <1>6
  <2>10. ASSUME NEW w \in Ids, w # f, Unheard(w)
         PROVE  Unheard(w)'
    <3>1. w \notin Listed' /\ w \notin ToSet(root)' /\ w \notin wrapped'
      BY <1>3, <2>2, <2>8, <2>9, <2>10 DEF Unheard
    <3>2. \A i \in News(1) : ~ Names(events'[i], w)
      BY <2>3, <2>5, <2>10
    <3>3. events \in Seq(Event) /\ EventsFollow(1)
      BY <2>5, InvFacts
    <3> QED
      BY <2>10, <3>1, <3>2, <3>3, StaysUnheard
  <2>11. Births'
    <3>1. NotBorn'
      <4>1. \A x \in Clients \ born : x \in Ids /\ x # f /\ Unheard(x)
        BY <2>2, InvFacts DEF NotBorn, Ids
      <4>2. \A x \in Managed \ asked : FrameOf[x] \in Ids /\ FrameOf[x] # f /\ Unheard(FrameOf[x])
        BY <2>1, <2>2, InvFacts, FrameIds DEF NotBorn
      <4> QED
        BY <2>9, <2>10, <4>1, <4>2 DEF NotBorn
    <3>2. OneRequest'
      <4>1. ASSUME NEW i \in DOMAIN events', events'[i].type = "MapRequest"
            PROVE  /\ i + 1 \in DOMAIN events /\ events'[i] = events[i + 1]
                   /\ events'[i].win \in asked /\ events'[i].win # c
        <5>1. i + 1 \in DOMAIN events /\ events'[i] = events[i + 1] /\ i + 1 # 1
          BY <2>3, <2>5, <2>6, <2>7, <4>1
        <5> QED
          BY <2>1, <4>1, <5>1, InvFacts DEF OneRequest
      <4>2. ASSUME NEW x \in asked, NEW i \in DOMAIN events',
                   events'[i].type = "MapRequest", events'[i].win = x
            PROVE  /\ x \notin framed' /\ Unheard(FrameOf[x])'
                   /\ \A j \in DOMAIN events' :
                         events'[j].type = "MapRequest" /\ events'[j].win = x => j = i
        <5>1. i + 1 \in DOMAIN events /\ events'[i] = events[i + 1] /\ x # c /\ x \in Managed
          BY <4>1, <4>2, InvFacts DEF OthersOK
        <5>2. /\ x \notin framed /\ Unheard(FrameOf[x])
              /\ \A j \in DOMAIN events :
                    events[j].type = "MapRequest" /\ events[j].win = x => j = i + 1
          BY <4>2, <5>1, InvFacts DEF OneRequest
        <5>3. Unheard(FrameOf[x])'
          BY <2>2, <2>10, <5>1, <5>2, FrameIds
        <5>4. ASSUME NEW j \in DOMAIN events',
                     events'[j].type = "MapRequest", events'[j].win = x
              PROVE  j = i
          <6>1. j + 1 \in DOMAIN events /\ events'[j] = events[j + 1]
            BY <4>1, <5>4
          <6>2. j + 1 = i + 1
            BY <5>2, <5>4, <6>1
          <6> QED
            BY <2>6, <6>2
        <5> QED
          BY <2>9, <5>1, <5>2, <5>3, <5>4
      <4> QED
        BY <2>9, <4>1, <4>2 DEF OneRequest
    <3>3. Introduced'
      <4> SUFFICES ASSUME NEW i \in DOMAIN events', events'[i].type = "Create"
                   PROVE  /\ events'[i].win \notin Listed
                          /\ \A j \in DOMAIN events' :
                                j < i => ~ Names(events'[j], events'[i].win)
        BY <1>3 DEF Introduced
      <4>1. \A j \in DOMAIN events' : j < i => j \notin News(1)
        BY <2>5 DEF EventsFollow
      <4>2. CASE i \in News(1)
        <5>1. events'[i].win = f
          BY <2>3, <2>5, <4>2
        <5> QED
          BY <2>1, <2>6, <4>1, <5>1 DEF Unheard
      <4>3. CASE i \notin News(1)
        <5>1. i + 1 \in DOMAIN events /\ events'[i] = events[i + 1]
          BY <2>6, <4>3
        <5>2. /\ events'[i].win \notin Listed
              /\ \A j \in DOMAIN events : j < i + 1 => ~ Names(events[j], events'[i].win)
          BY <5>1, InvFacts DEF Introduced
        <5> QED
          BY <2>6, <4>1, <5>2
      <4> QED
        BY <4>2, <4>3
    <3>4. FramesApart'
      <4> SUFFICES ASSUME NEW x \in framed'
                   PROVE  /\ x \in asked /\ FrameOf[x] \notin Listed
                          /\ x \in known <=> ~ Pending("Create", FrameOf[x])'
        BY <1>3, <2>9 DEF FramesApart
      <4>1. CASE x = c
        <5>1. x \notin known /\ FrameOf[x] = f
          BY <2>1, <4>1, InvFacts DEF OthersOK, f
        <5>2. Pending("Create", FrameOf[x])'
          BY <2>3, <2>5, <5>1 DEF Pending, News
        <5> QED
          BY <2>1, <4>1, <5>1, <5>2 DEF Unheard
      <4>2. CASE x # c
        <5>1. x \in framed /\ x \in Managed /\ FrameOf[x] # f
          BY <2>2, <2>9, <4>2, InvFacts DEF OthersOK
        <5>2. ASSUME NEW i \in DOMAIN events', events'[i].type = "Create", events'[i].win = FrameOf[x]
              PROVE  Pending("Create", FrameOf[x])
          BY <2>3, <2>5, <2>6, <5>1, <5>2 DEF Pending
        <5>3. ASSUME NEW i \in DOMAIN events, events[i].type = "Create", events[i].win = FrameOf[x]
              PROVE  Pending("Create", FrameOf[x])'
          BY <1>2, <2>6, <5>3 DEF Pending
        <5>4. Pending("Create", FrameOf[x])' <=> Pending("Create", FrameOf[x])
          BY <5>2, <5>3 DEF Pending
        <5> QED
          BY <5>1, <5>4, InvFacts DEF FramesApart
      <4> QED
        BY <4>1, <4>2
    <3> QED
      BY <3>1, <3>2, <3>3, <3>4 DEF Births
  <2>12. Server'
    <3>1. \A i \in News(1) : events'[i].type \notin {"Unmap", "Destroy"}
      BY <2>3, <2>5
    <3>2. wrapped' \subseteq framed' /\ wrapped' \cap ToSet(root)' = {}
      <4>1. wrapped \subseteq framed /\ f \notin wrapped /\ wrapped \cap ToSet(root) = {}
        BY <2>2, InvFacts DEF FramesStand, OthersOK, Clients
      <4> QED
        BY <2>2, <2>8, <2>9, <4>1
    <3>3. \A x \in framed' : FrameOf[x] \in ToSet(root)'
      BY <2>2, <2>8, <2>9, InvFacts DEF FramesStand, OthersOK, f
    <3>4. \A x \in Managed : FrameOf[x] \in ToSet(root)' => x \in framed' \cup forgotten'
      BY <2>2, <2>8, <2>9, InvFacts DEF FramesOwned
    <3>5. \A x \in Managed : x \in ToSet(root)' \cup wrapped' => x \in ToSet(root) \cup wrapped
      BY <2>2, <2>8, <2>9 DEF Clients
    <3>6. \A x \in framed' : \/ x \in unmapHeld' \cup shown'
                             \/ x \in framed /\ x \notin unmapHeld \cup shown
      BY <2>9
    <3>7. ServerStep(1)
      BY <1>2, <2>5, <2>9, <3>1, <3>2, <3>3, <3>4, <3>5, <3>6 DEF ServerStep
    <3> QED
      BY <3>7, ServerStepKeepsServer
  <2>13. Typed'
    <3>1. OthersOK'
      BY <1>1, <2>1, <2>2, <2>5, <2>9, InvFacts DEF OthersOK, EventsFollow
    <3> QED
      BY <1>1, <2>8, <3>1, InvFacts DEF Typed, ListOK, Shaped
  <2>14. OneUnmap'
    <3>1. UnmapStep(1)
      BY <2>1, <2>3, <2>5, <2>9 DEF UnmapStep
    <3> QED
      BY <3>1, UnmapStepKeepsOneUnmap
  <2> QED
    BY <1>4, <2>11, <2>12, <2>13, <2>14, InvFromParts
<1> QED
  BY <1>5, <1>6

(* manageFrameWindowSeparately loses no window.                            *)
LEMMA WithFrameList ==
  ASSUME NEW s \in Seq(Ids), Distinct(s), NEW c, c \in known => FrameOf[c] \in Ids,
         FrameOf[c] \notin ToSet(s), NEW withFrame
  PROVE  /\ ListOK(WithFrame(s, c, withFrame))
         /\ ToSet(s) \subseteq ToSet(WithFrame(s, c, withFrame))
         /\ \A w \in ToSet(WithFrame(s, c, withFrame)) :
               w \in ToSet(s) \/ (c \in known /\ w = FrameOf[c])
<1>1. CASE c \in known
  <2> DEFINE r == Inserted(s, FrameOf[c], c, withFrame)
  <2>1. /\ r \in Seq(Ids) /\ Distinct(r)
        /\ ToSet(s) \subseteq ToSet(r) /\ ToSet(r) \subseteq ToSet(s) \cup {FrameOf[c]}
    BY <1>1, InsertedList
  <2>2. WithFrame(s, c, withFrame) = r
    BY <1>1 DEF WithFrame
  <2> QED
    BY <1>1, <2>1, <2>2 DEF ListOK
<1>2. CASE c \notin known
  <2>1. WithFrame(s, c, withFrame) = s
    BY <1>2 DEF WithFrame
  <2> QED
    BY <2>1 DEF ListOK
<1> QED
  BY <1>1, <1>2

LEMMA UnreparentKeepsInv ==
  ASSUME StackInv, NEW d \in {0, 1}, d <= Len(events), NEW c \in framed,
         d = 1 => events[1].type = "Unmap" /\ events[1].win = c,
         d = 0 => c \in unmapHeld,
         Unreparent(c, Rest(d)), unmapHeld' = unmapHeld \ {c}, forgotten' = forgotten
  PROVE  StackInv'
<1> DEFINE f == FrameOf[c]
           below == InsertAt(root, IndexIn(root, f), c)
           e == Configure(below, c, 0)
           g == [type |-> "Destroy", win |-> f]
<1>1. /\ root' = IF c \in wrapped THEN ReplaceAll(root, f, c) ELSE Unhooked(root, f)
      /\ wrapped' = wrapped \ {c} /\ shown' = shown \ {c}
      /\ events' = Rest(d) \o (IF c \in wrapped THEN <<e>> ELSE << >>) \o <<g>>
      /\ windows' = WithFrame(windows, c, known)
      /\ serverWindows' = WithFrame(serverWindows, c, framed)
      /\ framed' = framed \ {c} /\ known' = known \ {c}
      /\ pendings' = [pendings EXCEPT ![c] = {}]
      /\ UNCHANGED <<born, asked, moves, kept, serial, raced>>
  BY DEF Unreparent
<1>2. /\ c \in Managed /\ framed \subseteq Managed /\ f \in Ids /\ c \in Ids /\ c # f
      /\ f \in ToSet(root) /\ f \notin Listed /\ f \notin Managed
      /\ \A x \in Managed : FrameOf[x] = f => x = c
      /\ \A x \in Managed : FrameOf[x] # c
  <2>1. c \in Managed /\ framed \subseteq Managed
    BY InvFacts DEF OthersOK
  <2> QED
    BY <2>1, InvFacts, FrameIds DEF FramesStand, FramesApart, Clients
<1> HIDE DEF f
<1>3. c \in wrapped => c \notin ToSet(root)
  BY InvFacts DEF FramesStand
<1>4. /\ ListOK(root)' /\ f \notin ToSet(root)'
      /\ ToSet(root)' = (ToSet(root) \ {f}) \cup (wrapped \cap {c})
  <2>1. CASE c \in wrapped
    <3> DEFINE r == ReplaceAll(root, f, c)
    <3>1. r \in Seq(Ids) /\ Distinct(r) /\ ToSet(r) = (ToSet(root) \ {f}) \cup {c}
      BY <1>2, <1>3, <2>1, InvFacts, ReplacedMembers
    <3>2. root' = r
      BY <1>1, <2>1
    <3> QED
      BY <1>2, <2>1, <3>1, <3>2 DEF ListOK
  <2>2. CASE c \notin wrapped
    <3> DEFINE r == Unhooked(root, f)
    <3>1. r \in Seq(Ids) /\ Distinct(r) /\ ToSet(r) = ToSet(root) \ {f}
      BY InvFacts, WithoutMembers
    <3>2. root' = r
      BY <1>1, <2>2
    <3> QED
      BY <2>2, <3>1, <3>2 DEF ListOK
  <2> QED
    BY <2>1, <2>2
<1>5. c \in wrapped => /\ e \in Event /\ e.type = "Configure" /\ e.win = c
                       /\ \A w \in Ids : Names(e, w) => w \in ToSet(root) \cup wrapped
  <2> SUFFICES ASSUME c \in wrapped
               PROVE  /\ e \in Event /\ e.type = "Configure" /\ e.win = c
                      /\ \A w \in Ids : Names(e, w) => w \in ToSet(root) \cup {c}
    OBVIOUS
  <2> DEFINE p == IndexIn(root, f)
  <2>1. p \in 1 .. Len(root)
    BY <1>2, InvFacts, IndexIs
  <2> HIDE DEF p
  <2>2. p \in 1 .. Len(root) + 1
    BY <2>1, InvFacts
  <2>3. /\ below \in Seq(Ids) /\ Distinct(below) /\ ToSet(below) = ToSet(root) \cup {c}
    BY <1>2, <1>3, <2>2, InvFacts, InsertedMembers DEF p
  <2> HIDE DEF below
  <2>4. 0 \in 0 .. MaxRequests
    BY IdsAssumption
  <2> QED
    BY <2>3, <2>4, ConfigureShape, ZenonT(60)
<1> HIDE DEF e
<1>6. g \in Event /\ g.type = "Destroy" /\ g.win = f /\ \A w : Names(g, w) => w = f
  BY <1>2, EventShapes DEF Names
<1> HIDE DEF g
<1>7. /\ EventsFollow(d)
      /\ \A i \in News(d) : \/ c \in wrapped /\ events'[i] = e
                            \/ events'[i] = g /\ i = Len(events')
  <2>1. events \in Seq(Event) /\ Rest(d) \in Seq(Event)
    BY InvFacts DEF Rest
  <2>2. CASE c \in wrapped
    <3>1. events' = Rest(d) \o <<e>> \o <<g>>
      BY <1>1, <2>2
    <3>2. e \in Event /\ g \in Event /\ events \in Seq(Event)
      BY <1>5, <1>6, <2>1, <2>2
    <3>3. /\ EventsFollow(d)
          /\ \A i \in News(d) : \/ events'[i] = e /\ i = Len(events) - d + 1
                                \/ events'[i] = g /\ i = Len(events')
      BY <3>1, <3>2, TwoMore
    <3> QED
      BY <2>2, <3>3
  <2>3. CASE c \notin wrapped
    <3>1. events' = Append(Rest(d), g)
      BY <1>1, <1>6, <2>1, <2>3
    <3>2. /\ EventsFollow(d) /\ News(d) = {Len(events')} /\ events'[Len(events')] = g
      BY <1>6, <2>1, <3>1, OneMore
    <3> QED
      BY <3>2
  <2> QED
    BY <2>2, <2>3
<1>8. /\ ListOK(windows)' /\ ToSet(windows) \subseteq ToSet(windows)'
      /\ \A w \in ToSet(windows)' : w \in ToSet(windows) \/ (c \in known /\ w = f)
      /\ ListOK(serverWindows)'
      /\ \A w \in ToSet(serverWindows)' : w \in ToSet(serverWindows) \/ (c \in known /\ w = f)
  <2>1. FrameOf[c] \in Ids /\ FrameOf[c] \notin Listed
    BY <1>2 DEF f
  <2>2. FrameOf[c] \notin ToSet(windows) /\ FrameOf[c] \notin ToSet(serverWindows)
    BY <2>1 DEF Listed
  <2>3. /\ ListOK(WithFrame(windows, c, known))
        /\ ToSet(windows) \subseteq ToSet(WithFrame(windows, c, known))
        /\ \A w \in ToSet(WithFrame(windows, c, known)) :
              w \in ToSet(windows) \/ (c \in known /\ w = FrameOf[c])
    BY <2>1, <2>2, InvFacts, WithFrameList
  <2>4. /\ ListOK(WithFrame(serverWindows, c, framed))
        /\ \A w \in ToSet(WithFrame(serverWindows, c, framed)) :
              w \in ToSet(serverWindows) \/ (c \in known /\ w = FrameOf[c])
    BY <2>1, <2>2, InvFacts, WithFrameList
  <2> QED
    BY <1>1, <2>3, <2>4 DEF f, ListOK
<1>9. KeptWins' = KeptWins
  BY <1>1 DEF KeptWins
<1>10. known \subseteq framed /\ unmapHeld \subseteq framed /\ shown \subseteq wrapped
       /\ wrapped \subseteq asked
  BY InvFacts DEF OthersOK
<1>11. Births'
  <2>1. \A i \in News(d) :
           /\ events'[i].type \notin {"Create", "MapRequest"}
           /\ \A w \in Ids : Names(events'[i], w) => w \in ToSet(root) \cup wrapped
    BY <1>2, <1>5, <1>6, <1>7
  <2>2. Listed' \subseteq Listed \cup {FrameOf[x] : x \in known \ framed'}
    BY <1>1, <1>8, <1>9 DEF Listed, f
  <2>3. Ordinary(d)
    BY <1>1, <1>4, <1>7, <1>10, <2>1, <2>2 DEF Ordinary
  <2> QED
    BY <2>3, OrdinaryKeepsBirths
<1>12. Server'
  <2>1. \A i \in News(d) :
           /\ events'[i].type # "Unmap"
           /\ events'[i].type = "Destroy" => events'[i].win = f
    BY <1>5, <1>6, <1>7
  <2>2. \A x \in framed' : x # c /\ x \in framed /\ FrameOf[x] \in ToSet(root)'
    BY <1>1, <1>2, <1>4, InvFacts DEF FramesStand
  <2>3. \A x \in framed' :
           \/ x \in unmapHeld' \cup shown'
           \/ /\ x \in framed /\ x \notin unmapHeld \cup shown
              /\ d = 1 => events[1].type # "Unmap" \/ events[1].win # x
    BY <1>1, <2>2
  <2>4. wrapped' \subseteq framed' /\ wrapped' \cap ToSet(root)' = {}
    BY <1>1, <1>4, InvFacts DEF FramesStand
  <2>5. \A x \in Managed : FrameOf[x] \in ToSet(root)' => x \in framed' \cup forgotten'
    BY <1>1, <1>2, <1>4, InvFacts DEF FramesOwned, f
  <2>6. \A x \in Managed : x \in ToSet(root)' \cup wrapped' => x \in ToSet(root) \cup wrapped
    BY <1>1, <1>4
  <2>7. \A i \in News(d) : ~ (events'[i].type = "Destroy" /\ events'[i].win \in Managed)
    BY <1>2, <2>1
  <2>8. ServerStep(d)
    BY <1>7, <2>1, <2>2, <2>3, <2>4, <2>5, <2>6, <2>7 DEF ServerStep
  <2> QED
    BY <2>8, ServerStepKeepsServer
<1>13. Kept'
  <2>1. f \notin KeptWins
    BY <1>2 DEF Listed
  <2>2. ToSet(windows)' \cap KeptWins = {}
    BY <1>8, <2>1, InvFacts DEF Kept
  <2> QED
    BY <1>1, <1>8, <2>2, KeptStays
<1>14. OneUnmap'
  <2>1. \A i \in News(d) : events'[i].type # "Unmap"
    BY <1>5, <1>6, <1>7
  <2>2. ASSUME NEW i \in DOMAIN events, events[i].type = "Unmap", events[i].win = c
        PROVE  d = 1 /\ i = 1
    <3>1. /\ c \notin unmapHeld
          /\ \A j \in DOMAIN events :
                events[j].type = "Unmap" /\ events[j].win = c => j = i
      BY <1>2, <2>2, InvFacts DEF OneUnmap
    <3>2. d = 1 /\ 1 \in DOMAIN events
      BY <3>1, InvFacts
    <3> QED
      BY <3>1, <3>2
  <2>3. UnmapStep(d)
    BY <1>1, <1>7, <2>1, <2>2 DEF UnmapStep
  <2> QED
    BY <2>3, UnmapStepKeepsOneUnmap
<1>15. Typed'
  <2>1. pendings' \in [Managed -> SUBSET Restacks]
    BY <1>1, InvFacts DEF Shaped
  <2>2. OthersOK'
    BY <1>1, <1>7, <1>10, InvFacts DEF OthersOK, EventsFollow
  <2> QED
    BY <1>1, <1>4, <1>8, <2>1, <2>2, InvFacts DEF Typed, Shaped
<1> QED
  BY <1>11, <1>12, <1>13, <1>14, <1>15, InvFromParts

LEMMA HandleUnmapKeepsInv ==
  ASSUME StackInv, NEW held \in BOOLEAN, HandleUnmap(held)
  PROVE  StackInv'
<1> DEFINE c == Subject
<1>1. /\ Reads("Unmap")
      /\ IF c \in framed /\ ~ held
         THEN Unreparent(c, Tail(events)) /\ UNCHANGED unmapHeld
         ELSE /\ unmapHeld' = IF held THEN unmapHeld \cup ({c} \cap framed) ELSE unmapHeld
              /\ events' = Tail(events)
              /\ UNCHANGED <<serverVars, listVars, kept, serial, raced>>
      /\ forgotten' = forgotten
  BY DEF HandleUnmap, LosesFrame
<1>2. /\ 1 \in DOMAIN events /\ 1 <= Len(events) /\ Rest(1) = Tail(events)
      /\ events[1].type = "Unmap" /\ events[1].win = c
  BY <1>1, InvFacts, ReadsFirst
<1> HIDE DEF c
<1>3. CASE c \in framed /\ ~ held
  <2>1. Unreparent(c, Rest(1)) /\ unmapHeld' = unmapHeld
    BY <1>1, <1>2, <1>3
  <2>2. c \notin unmapHeld
    BY <1>2, <1>3, InvFacts DEF OneUnmap, OthersOK
  <2>3. unmapHeld' = unmapHeld \ {c}
    BY <2>1, <2>2
  <2> QED
    BY <1>1, <1>2, <1>3, <2>1, <2>3, UnreparentKeepsInv
<1>4. CASE ~ (c \in framed /\ ~ held)
  <2>1. /\ unmapHeld' = IF held THEN unmapHeld \cup ({c} \cap framed) ELSE unmapHeld
        /\ events' = Rest(1)
        /\ UNCHANGED <<root, wrapped, shown, born, asked, moves, windows,
                       serverWindows, framed, known, pendings, kept, serial, raced>>
    BY <1>1, <1>2, <1>4 DEF serverVars, listVars
  <2>2. EventsFollow(1) /\ News(1) = {}
    BY <1>2, <2>1, InvFacts, NoneMore
  <2>3. Births'
    <3>1. Listed' = Listed
      BY <2>1 DEF Listed, KeptWins
    <3>2. Ordinary(1)
      BY <1>2, <2>1, <2>2, <3>1, InvFacts DEF Ordinary, OthersOK
    <3> QED
      BY <3>2, OrdinaryKeepsBirths
  <2>4. Server'
    <3>1. \A x \in framed : \/ x \in unmapHeld' \cup shown'
                            \/ x \notin unmapHeld \cup shown /\ events[1].win # x
      BY <1>2, <1>4, <2>1
    <3>2. ServerStep(1)
      BY <1>1, <2>1, <2>2, <3>1, InvFacts DEF ServerStep, FramesStand, FramesOwned
    <3> QED
      BY <3>2, ServerStepKeepsServer
  <2>5. OneUnmap'
    <3>1. UnmapStep(1)
      BY <1>2, <2>1, <2>2 DEF UnmapStep
    <3> QED
      BY <3>1, UnmapStepKeepsOneUnmap
  <2>6. Kept'
    BY <2>1, InvFacts, KeptStays DEF Kept
  <2>7. Typed'
    BY <1>1, <2>1, <2>2, InvFacts DEF Typed, ListOK, OthersOK, Shaped, EventsFollow
  <2> QED
    BY <2>3, <2>4, <2>5, <2>6, <2>7, InvFromParts
<1> QED
  BY <1>3, <1>4

LEMMA PluginUnmapsKeepsInv ==
  ASSUME StackInv, NEW c \in Managed, PluginUnmaps(c)
  PROVE  StackInv'
<1>1. /\ c \in unmapHeld /\ unmapHeld' = unmapHeld \ {c} /\ forgotten' = forgotten
      /\ Unreparent(c, Rest(0))
  BY InvFacts DEF PluginUnmaps
<1>2. c \in framed /\ 0 <= Len(events)
  BY <1>1, InvFacts DEF OthersOK
<1> QED
  BY <1>1, <1>2, UnreparentKeepsInv

LEMMA HandleDestroyKeepsInv ==
  ASSUME StackInv, NEW keep \in BOOLEAN, HandleDestroy(keep)
  PROVE  StackInv'
<1> DEFINE w == Subject
           entry == [win |-> w, prev |-> PrevIn(windows, w),
                     next |-> NextIn(windows, w), released |-> ~ keep]
<1>1. /\ Reads("Destroy") /\ events' = Tail(events)
      /\ IF Contains(windows, w)
         THEN /\ windows' = Unhooked(WithFrame(windows, w, known), w)
              /\ serverWindows' = Unhooked(WithFrame(serverWindows, w, framed), w)
              /\ framed' = framed \ {w}
              /\ known' = known \ {w}
              /\ kept' = Append(kept, entry)
              /\ pendings' = [c \in Managed |-> IF c = w THEN {} ELSE pendings[c]]
              /\ unmapHeld' = unmapHeld \ {w}
              /\ forgotten' = forgotten \cup ({w} \cap unmapHeld)
         ELSE UNCHANGED <<windows, serverWindows, framed, known, pendings, kept,
                          unmapHeld, forgotten>>
      /\ UNCHANGED <<root, wrapped, shown, born, asked, moves, serial, raced>>
  BY DEF HandleDestroy, listVars, serverVars
<1>2. /\ 1 \in DOMAIN events /\ 1 <= Len(events) /\ events' = Rest(1)
      /\ events[1].type = "Destroy" /\ events[1].win = w
  BY <1>1, InvFacts, ReadsFirst
<1> HIDE DEF w
<1>3. EventsFollow(1) /\ News(1) = {}
  BY <1>2, InvFacts, NoneMore
<1>4. CASE ~ Contains(windows, w)
  <2>1. UNCHANGED <<windows, serverWindows, framed, known, pendings, kept,
                    unmapHeld, forgotten>>
    BY <1>1, <1>4
  <2>2. Births'
    <3>1. Listed' = Listed
      BY <2>1 DEF Listed, KeptWins
    <3>2. Ordinary(1)
      BY <1>1, <1>2, <1>3, <2>1, <3>1, InvFacts DEF Ordinary, OthersOK
    <3> QED
      BY <3>2, OrdinaryKeepsBirths
  <2>3. Server'
    <3>1. ServerStep(1)
      BY <1>1, <1>2, <1>3, <2>1, InvFacts DEF ServerStep, FramesStand, FramesOwned
    <3> QED
      BY <3>1, ServerStepKeepsServer
  <2>4. OneUnmap'
    BY <1>1, <1>3, <2>1, NoUnmaps
  <2>5. Kept'
    BY <2>1, InvFacts, KeptStays DEF Kept
  <2>6. Typed'
    BY <1>1, <1>3, <2>1, InvFacts DEF Typed, ListOK, OthersOK, Shaped, EventsFollow
  <2> QED
    BY <2>2, <2>3, <2>4, <2>5, <2>6, InvFromParts
<1>5. CASE Contains(windows, w)
  <2>1. /\ windows' = Unhooked(WithFrame(windows, w, known), w)
        /\ serverWindows' = Unhooked(WithFrame(serverWindows, w, framed), w)
        /\ framed' = framed \ {w} /\ known' = known \ {w}
        /\ kept' = Append(kept, entry)
        /\ pendings' = [c \in Managed |-> IF c = w THEN {} ELSE pendings[c]]
        /\ unmapHeld' = unmapHeld \ {w}
        /\ forgotten' = forgotten \cup ({w} \cap unmapHeld)
        /\ UNCHANGED <<root, wrapped, shown, born, asked, moves, serial, raced>>
    BY <1>1, <1>5
  <2>2. /\ w \in ToSet(windows) /\ w \in Ids /\ w \notin KeptWins
        /\ framed \subseteq Managed /\ known \subseteq framed /\ unmapHeld \subseteq framed
    <3>1. w \in ToSet(windows)
      BY <1>5, InvFacts, ContainsMember
    <3> QED
      BY <3>1, InvFacts DEF ToSet, Kept, OthersOK
  <2>3. w \in framed => w \in unmapHeld
    <3> SUFFICES ASSUME w \in framed, w \notin unmapHeld
                 PROVE  FALSE
      OBVIOUS
    <3>1. w \notin wrapped /\ \A j \in DOMAIN events :
             1 < j /\ events[j].type = "Unmap" => events[j].win # w
      BY <1>2, <2>2, InvFacts DEF DestroyIsLast
    <3>2. w \notin shown
      BY <3>1, InvFacts DEF OthersOK
    <3>3. PICK j \in DOMAIN events : events[j].type = "Unmap" /\ events[j].win = w
      BY <3>2, InvFacts DEF UnmapComes, Pending
    <3>4. j # 1 /\ j \in 1 .. Len(events)
      BY <1>2, <3>3, InvFacts
    <3> QED
      BY <3>1, <3>3, <3>4
  <2>4. w \in known => /\ FrameOf[w] \in Ids /\ FrameOf[w] \notin Listed /\ FrameOf[w] # w
    BY <2>2, InvFacts, FrameIds DEF FramesApart
  <2>5. /\ ListOK(windows)' /\ ToSet(windows) \ {w} \subseteq ToSet(windows)'
        /\ \A x \in ToSet(windows)' :
              x # w /\ (x \in ToSet(windows) \/ (w \in known /\ x = FrameOf[w]))
        /\ ListOK(serverWindows)'
        /\ \A x \in ToSet(serverWindows)' :
              x \in ToSet(serverWindows) \/ (w \in known /\ x = FrameOf[w])
    <3>1. ASSUME NEW s \in Seq(Ids), Distinct(s), ToSet(s) \subseteq Listed, NEW withFrame
          PROVE  /\ ListOK(Unhooked(WithFrame(s, w, withFrame), w))
                 /\ ToSet(s) \ {w} \subseteq ToSet(Unhooked(WithFrame(s, w, withFrame), w))
                 /\ \A x \in ToSet(Unhooked(WithFrame(s, w, withFrame), w)) :
                       x # w /\ (x \in ToSet(s) \/ (w \in known /\ x = FrameOf[w]))
      <4> DEFINE r == WithFrame(s, w, withFrame)
      <4>1. /\ ListOK(r) /\ ToSet(s) \subseteq ToSet(r)
            /\ \A x \in ToSet(r) : x \in ToSet(s) \/ (w \in known /\ x = FrameOf[w])
        <5>1. CASE w \in known
          <6>1. FrameOf[w] \in Ids /\ FrameOf[w] \notin ToSet(s)
            BY <2>4, <3>1, <5>1
          <6> QED
            BY <3>1, <6>1, WithFrameList
        <5>2. CASE w \notin known
          BY <3>1, <5>2 DEF WithFrame, ListOK
        <5> QED
          BY <5>1, <5>2
      <4> HIDE DEF r
      <4>2. /\ Unhooked(r, w) \in Seq(Ids) /\ Distinct(Unhooked(r, w))
            /\ ToSet(Unhooked(r, w)) = ToSet(r) \ {w}
        BY <4>1, WithoutMembers DEF ListOK
      <4>3. /\ ListOK(Unhooked(r, w)) /\ ToSet(s) \ {w} \subseteq ToSet(Unhooked(r, w))
            /\ \A x \in ToSet(Unhooked(r, w)) :
                  x # w /\ (x \in ToSet(s) \/ (w \in known /\ x = FrameOf[w]))
        BY <4>1, <4>2 DEF ListOK
      <4> QED
        BY <4>3 DEF r
    <3>2. ToSet(windows) \subseteq Listed /\ ToSet(serverWindows) \subseteq Listed
      BY DEF Listed
    <3>3. /\ ListOK(Unhooked(WithFrame(windows, w, known), w))
          /\ ToSet(windows) \ {w} \subseteq ToSet(Unhooked(WithFrame(windows, w, known), w))
          /\ \A x \in ToSet(Unhooked(WithFrame(windows, w, known), w)) :
                x # w /\ (x \in ToSet(windows) \/ (w \in known /\ x = FrameOf[w]))
      BY <3>1, <3>2, InvFacts, SMTT(30)
    <3>4. /\ ListOK(Unhooked(WithFrame(serverWindows, w, framed), w))
          /\ \A x \in ToSet(Unhooked(WithFrame(serverWindows, w, framed), w)) :
                x \in ToSet(serverWindows) \/ (w \in known /\ x = FrameOf[w])
      BY <3>1, <3>2, InvFacts
    <3> QED
      BY <2>1, <3>3, <3>4 DEF ListOK
  <2>6. /\ PrevIn(windows, w) \in (ToSet(windows) \ {w}) \cup {Nothing}
        /\ NextIn(windows, w) \in (ToSet(windows) \ {w}) \cup {Nothing}
    BY <2>2, InvFacts, NeighboursAreMembers
  <2>7. ToSet(windows) \subseteq Ids
    BY InvFacts DEF ToSet
  <2>8. /\ entry \in KeptWindows /\ entry.win = w
        /\ entry.prev \in (ToSet(windows) \ {w}) \cup {Nothing}
        /\ entry.next \in (ToSet(windows) \ {w}) \cup {Nothing}
    BY <2>2, <2>6, <2>7 DEF KeptWindows
  <2> HIDE DEF entry
  <2>9. /\ kept \in Seq(KeptWindows) /\ kept' \in Seq(KeptWindows)
        /\ DOMAIN kept = 1 .. Len(kept) /\ DOMAIN kept' = 1 .. Len(kept) + 1
        /\ kept'[Len(kept) + 1] = entry /\ Len(kept) \in Nat
        /\ \A i \in 1 .. Len(kept) : kept'[i] = kept[i]
    BY <2>1, <2>8, InvFacts DEF Shaped
  <2>10. \A i \in DOMAIN kept' : i \in DOMAIN kept \/ (i = Len(kept) + 1 /\ i \notin DOMAIN kept)
    BY <2>9
  <2>11. Len(kept) + 1 \in DOMAIN kept' /\ \A i \in DOMAIN kept : i \in DOMAIN kept' /\ i < Len(kept) + 1
    BY <2>9
  <2>12. KeptWins' = KeptWins \cup {w}
    BY <2>8, <2>9, <2>10, <2>11 DEF KeptWins
  <2>13. Births'
    <3>1. Listed' \subseteq Listed \cup {FrameOf[c] : c \in known \ framed'}
      BY <2>1, <2>2, <2>5, <2>12 DEF Listed
    <3>2. Ordinary(1)
      BY <1>2, <1>3, <2>1, <2>2, <3>1 DEF Ordinary
    <3> QED
      BY <3>2, OrdinaryKeepsBirths
  <2>14. Server'
    <3>1. w \notin wrapped \/ w \notin Managed
      BY <1>2, InvFacts DEF DestroyIsLast
    <3>2. wrapped' \subseteq framed' /\ wrapped' \cap ToSet(root)' = {}
      BY <2>1, <2>2, <3>1, InvFacts DEF FramesStand
    <3>3. \A x \in Managed : FrameOf[x] \in ToSet(root)' => x \in framed' \cup forgotten'
      BY <2>1, <2>3, InvFacts DEF FramesOwned
    <3>4. \A x \in framed' : \/ x \in unmapHeld' \cup shown'
                             \/ x \in framed /\ x \notin unmapHeld \cup shown
      BY <2>1
    <3>5. \A x \in framed' : FrameOf[x] \in ToSet(root)'
      BY <2>1, InvFacts DEF FramesStand
    <3>6. ServerStep(1)
      BY <1>2, <1>3, <2>1, <3>2, <3>3, <3>4, <3>5 DEF ServerStep
    <3> QED
      BY <3>6, ServerStepKeepsServer
  <2>15. OneUnmap'
    <3>1. ASSUME NEW i \in DOMAIN events, events[i].type = "Unmap", events[i].win = w, w \in framed
          PROVE  FALSE
      <4>1. i # 1 /\ 1 < i
        BY <1>2, <3>1, InvFacts
      <4> QED
        BY <1>2, <2>2, <3>1, <4>1, InvFacts DEF DestroyIsLast
    <3>2. UnmapStep(1)
      BY <1>3, <2>1, <3>1 DEF UnmapStep
    <3> QED
      BY <3>2, UnmapStepKeepsOneUnmap
  <2>16. Kept'
    <3>1. ToSet(windows)' \cap KeptWins' = {}
      BY <2>4, <2>5, <2>12, InvFacts DEF Kept, Listed
    <3>2. \A i, j \in DOMAIN kept' : kept'[i].win = kept'[j].win => i = j
      BY <2>2, <2>8, <2>9, <2>10, InvFacts DEF Kept, KeptWins
    <3>3. ASSUME NEW i \in DOMAIN kept', NEW n \in {kept'[i].prev, kept'[i].next}
          PROVE  \/ n = Nothing \/ n \in ToSet(windows)'
                 \/ \E j \in DOMAIN kept' : i < j /\ kept'[j].win = n
      <4>1. CASE i \in DOMAIN kept
        <5>1. n \in {kept[i].prev, kept[i].next}
          BY <2>9, <3>3, <4>1
        <5>2. \/ n = Nothing \/ n \in ToSet(windows)
              \/ \E j \in DOMAIN kept : i < j /\ kept[j].win = n
          BY <4>1, <5>1, InvFacts DEF Kept
        <5>3. n = w => \E j \in DOMAIN kept' : i < j /\ kept'[j].win = n
          BY <2>8, <2>9, <2>11, <4>1
        <5>4. \A j \in DOMAIN kept : kept'[j] = kept[j] /\ j \in DOMAIN kept'
          BY <2>9, <2>11
        <5> QED
          BY <2>5, <5>2, <5>3, <5>4
      <4>2. CASE i \notin DOMAIN kept
        <5>1. kept'[i] = entry
          BY <2>9, <2>10, <4>2
        <5> QED
          BY <2>5, <2>8, <3>3, <5>1
      <4> QED
        BY <4>1, <4>2
    <3> QED
      BY <3>1, <3>2, <3>3 DEF Kept
  <2>17. Typed'
    <3>1. pendings' \in [Managed -> SUBSET Restacks]
      BY <2>1, InvFacts DEF Shaped
    <3>2. OthersOK'
      BY <1>3, <2>1, <2>2, InvFacts DEF OthersOK, EventsFollow
    <3> QED
      BY <2>1, <2>5, <2>9, <3>1, <3>2, InvFacts DEF Typed, Shaped, ListOK
  <2> QED
    BY <2>13, <2>14, <2>15, <2>16, <2>17, InvFromParts
<1> QED
  BY <1>4, <1>5

(* restack () takes a window out of the list only to put it back: it knows *)
(* every neighbour that an event can name.                                 *)
LEMMA RestackLosesNothing ==
  ASSUME StackInv, NEW w \in ToSet(windows), NEW above, 1 \in DOMAIN events,
         events[1].type = "Configure", events[1].above = above, Restack(w, above)
  PROVE  /\ ListOK(windows)' /\ ToSet(windows)' = ToSet(windows)
         /\ ListOK(serverWindows)'
         /\ ToSet(serverWindows)' \subseteq ToSet(serverWindows) \cup {w}
<1>1. w \in Ids /\ events[1] \in Event /\ framed \subseteq Managed
  BY InvFacts DEF ToSet, OthersOK
<1>2. CASE RestackIsVoid(w, above)
  BY <1>2, InvFacts DEF Restack, ListOK
<1>3. CASE ~ RestackIsVoid(w, above)
  <2> DEFINE r == Inserted(Unhooked(windows, w), w, above, known)
             t == Inserted(Unhooked(serverWindows, w), w, above, framed)
  <2>1. /\ windows' = r
        /\ serverWindows' = IF w \in Overrides \cup Frames THEN t ELSE serverWindows
    BY <1>3 DEF Restack, RestackUnchecked
  <2>2. \/ above = Nothing \/ above \in ToSet(windows) \ {w}
        \/ \E c \in (ToSet(windows) \ {w}) \cap known : FrameOf[c] = above
    <3> SUFFICES ASSUME above # Nothing, above \notin ToSet(windows)
                 PROVE  \E c \in (ToSet(windows) \ {w}) \cap known : FrameOf[c] = above
      BY <1>3 DEF RestackIsVoid
    <3>1. /\ above # w /\ above # RootParent(w)
          /\ ~ Contains(windows, above)
          /\ ~ (\A c \in framed : FrameOf[c] = above => ~ Contains(windows, c))
      BY <1>3, InvFacts, ContainsMember DEF RestackIsVoid
    <3>2. PICK c \in framed : FrameOf[c] = above /\ c \in ToSet(windows)
      BY <3>1, InvFacts, ContainsMember
    <3>3. c # w
      BY <3>1, <3>2 DEF RootParent
    <3>4. Names(events[1], FrameOf[c])
      BY <3>2 DEF Names
    <3>5. ~ Pending("Create", FrameOf[c])
      <4> SUFFICES ASSUME NEW i \in DOMAIN events, events[i].type = "Create",
                          events[i].win = FrameOf[c]
                   PROVE  FALSE
        BY DEF Pending
      <4>1. i # 1 /\ 1 < i
        BY InvFacts
      <4> QED
        BY <3>4, <4>1, InvFacts DEF Introduced
    <3>6. c \in known
      BY <3>5, InvFacts DEF FramesApart
    <3> QED
      BY <3>2, <3>3, <3>6
  <2>3. /\ r \in Seq(Ids) /\ Distinct(r)
        /\ ToSet(windows) \ {w} \subseteq ToSet(r) /\ ToSet(r) \subseteq ToSet(windows) \cup {w}
        /\ w \in ToSet(r)
    BY <1>1, <2>2, InvFacts, ReinsertedList
  <2>4. /\ t \in Seq(Ids) /\ Distinct(t) /\ ToSet(t) \subseteq ToSet(serverWindows) \cup {w}
    BY <1>1, InvFacts, ReinsertedList
  <2> HIDE DEF r, t
  <2>5. ListOK(windows)' /\ ToSet(windows)' = ToSet(windows)
    <3>1. ToSet(r) = ToSet(windows)
      <4>1. \A v : v \in ToSet(windows) => v \in ToSet(r)
        BY <2>3
      <4>2. \A v : v \in ToSet(r) => v \in ToSet(windows)
        BY <2>3
      <4> QED
        BY <4>1, <4>2
    <3> QED
      BY <2>1, <2>3, <3>1 DEF ListOK
  <2>6. ListOK(serverWindows)' /\ ToSet(serverWindows)' \subseteq ToSet(serverWindows) \cup {w}
    BY <2>1, <2>4, InvFacts DEF ListOK
  <2> QED
    BY <2>5, <2>6
<1> QED
  BY <1>2, <1>3

LEMMA HandleConfigureKeepsInv ==
  ASSUME StackInv, HandleConfigure
  PROVE  StackInv'
<1> DEFINE x      == Subject
           above  == Head(events).above
           owners == {c \in known : FrameOf[c] = x /\ Contains(windows, c)}
<1>1. /\ Reads("Configure") /\ events' = Tail(events)
      /\ IF Contains(windows, x) /\ x \notin known
         THEN /\ Restack(x, above)
              /\ raced' = (raced \/ (x \in Frames /\ windows' # windows))
              /\ UNCHANGED pendings
         ELSE IF owners # {}
         THEN \E c \in owners :
                 /\ pendings' = [pendings EXCEPT ![c] = Matched(c, Head(events).serial)]
                 /\ Restack(c, above)
                 /\ UNCHANGED raced
         ELSE UNCHANGED <<windows, serverWindows, pendings, raced>>
      /\ UNCHANGED <<root, wrapped, shown, born, asked, moves, framed, known, kept,
                     unmapHeld, forgotten, serial>>
  BY DEF HandleConfigure, serverVars
<1>2. /\ 1 \in DOMAIN events /\ 1 <= Len(events) /\ events' = Rest(1)
      /\ events[1].type = "Configure" /\ events[1].above = above
  BY <1>1, InvFacts, ReadsFirst
<1>3. EventsFollow(1) /\ News(1) = {}
  BY <1>2, InvFacts, NoneMore
<1> HIDE DEF x, above
<1>4. /\ ListOK(windows)' /\ ToSet(windows)' = ToSet(windows)
      /\ ListOK(serverWindows)'
      /\ ToSet(serverWindows)' \subseteq ToSet(serverWindows) \cup ToSet(windows)
      /\ raced' \in BOOLEAN /\ pendings' \in [Managed -> SUBSET Restacks]
  <2>1. /\ raced \in BOOLEAN /\ pendings \in [Managed -> SUBSET Restacks]
        /\ ListOK(windows) /\ ListOK(serverWindows) /\ known \subseteq Managed
    BY InvFacts DEF OthersOK, Shaped, ListOK
  <2>2. CASE Contains(windows, x) /\ x \notin known
    <3>1. x \in ToSet(windows) /\ Restack(x, above) /\ pendings' = pendings
      BY <1>1, <2>2, InvFacts, ContainsMember
    <3>2. raced' \in BOOLEAN
      BY <1>1, <2>2
    <3>3. /\ ListOK(windows)' /\ ToSet(windows)' = ToSet(windows)
          /\ ListOK(serverWindows)'
          /\ ToSet(serverWindows)' \subseteq ToSet(serverWindows) \cup {x}
      BY <1>2, <3>1, RestackLosesNothing
    <3> QED
      BY <2>1, <3>1, <3>2, <3>3
  <2>3. CASE ~ (Contains(windows, x) /\ x \notin known) /\ owners # {}
    <3>1. PICK c \in owners :
             /\ pendings' = [pendings EXCEPT ![c] = Matched(c, Head(events).serial)]
             /\ Restack(c, above)
             /\ UNCHANGED raced
      BY <1>1, <2>3
    <3>2. c \in ToSet(windows) /\ c \in Managed
      BY <2>1, InvFacts, ContainsMember
    <3>3. /\ ListOK(windows)' /\ ToSet(windows)' = ToSet(windows)
          /\ ListOK(serverWindows)'
          /\ ToSet(serverWindows)' \subseteq ToSet(serverWindows) \cup {c}
      BY <1>2, <3>1, <3>2, RestackLosesNothing
    <3>4. Matched(c, Head(events).serial) \in SUBSET Restacks
      BY <2>1, <3>2 DEF Matched
    <3>5. pendings' \in [Managed -> SUBSET Restacks]
      BY <2>1, <3>1, <3>2, <3>4
    <3> QED
      BY <2>1, <3>1, <3>2, <3>3, <3>5
  <2>4. CASE ~ (Contains(windows, x) /\ x \notin known) /\ owners = {}
    <3>1. UNCHANGED <<windows, serverWindows, pendings, raced>>
      BY <1>1, <2>4
    <3> QED
      BY <2>1, <3>1 DEF ListOK
  <2> QED
    BY <2>2, <2>3, <2>4
<1>5. KeptWins' = KeptWins
  BY <1>1 DEF KeptWins
<1>6. Births'
  <2>1. Listed' \subseteq Listed
    BY <1>4, <1>5 DEF Listed
  <2>2. Ordinary(1)
    BY <1>1, <1>2, <1>3, <2>1, InvFacts DEF Ordinary, OthersOK
  <2> QED
    BY <2>2, OrdinaryKeepsBirths
<1>7. Server'
  <2>1. ServerStep(1)
    BY <1>1, <1>2, <1>3, InvFacts DEF ServerStep, FramesStand, FramesOwned
  <2> QED
    BY <2>1, ServerStepKeepsServer
<1>8. OneUnmap'
  BY <1>1, <1>3, NoUnmaps
<1>9. Kept'
  BY <1>1, <1>4, InvFacts, KeptStays DEF Kept
<1>10. Typed'
  BY <1>1, <1>3, <1>4, InvFacts DEF Typed, ListOK, OthersOK, Shaped, EventsFollow
<1> QED
  BY <1>6, <1>7, <1>8, <1>9, <1>10, InvFromParts

LEMMA PluginReleasesKeepsInv ==
  ASSUME StackInv, NEW i \in DOMAIN kept, PluginReleases(i)
  PROVE  StackInv'
<1>1. /\ kept' = [kept EXCEPT ![i].released = TRUE]
      /\ UNCHANGED <<root, wrapped, shown, born, asked, moves, events, windows,
                     serverWindows, framed, known, pendings, unmapHeld, forgotten,
                     serial, raced>>
  BY DEF PluginReleases, serverVars, listVars
<1>2. /\ kept \in Seq(KeptWindows) /\ kept' \in Seq(KeptWindows) /\ DOMAIN kept' = DOMAIN kept
      /\ \A j \in DOMAIN kept : /\ kept'[j].win = kept[j].win /\ kept'[j].prev = kept[j].prev
                                /\ kept'[j].next = kept[j].next
  <2>1. kept \in Seq(KeptWindows)
    BY InvFacts DEF Shaped
  <2>2. kept[i] \in KeptWindows
    BY <2>1
  <2>3. [kept[i] EXCEPT !.released = TRUE] \in KeptWindows
    BY <2>2 DEF KeptWindows
  <2>4. kept' = [kept EXCEPT ![i] = [kept[i] EXCEPT !.released = TRUE]]
    BY <1>1
  <2>5. kept' \in Seq(KeptWindows)
    BY <2>1, <2>3, <2>4
  <2> QED
    BY <2>1, <2>2, <2>4, <2>5 DEF KeptWindows
<1>3. KeptWins' = KeptWins
  BY <1>2 DEF KeptWins
<1>4. EventsFollow(0) /\ News(0) = {}
  BY <1>1, InvFacts, NoneMore DEF Rest
<1>5. Births'
  <2>1. Listed' = Listed
    BY <1>1, <1>3 DEF Listed
  <2>2. Ordinary(0)
    BY <1>1, <1>4, <2>1, InvFacts DEF Ordinary, OthersOK
  <2> QED
    BY <2>2, OrdinaryKeepsBirths
<1>6. Server'
  <2>1. ServerStep(0)
    BY <1>1, <1>4, InvFacts DEF ServerStep, FramesStand, FramesOwned
  <2> QED
    BY <2>1, ServerStepKeepsServer
<1>7. OneUnmap'
  BY <1>1, <1>4, NoUnmaps
<1>8. Kept'
  BY <1>1, <1>2, <1>3, InvFacts DEF Kept
<1>9. Typed'
  BY <1>1, <1>2, InvFacts DEF Typed, ListOK, OthersOK, Shaped
<1> QED
  BY <1>5, <1>6, <1>7, <1>8, <1>9, InvFromParts

-----------------------------------------------------------------------------
(* removeDestroyed                                                         *)

WinsOf(list) == {list[i].win : i \in DOMAIN list}

(* Kept, of any list of kept windows                                       *)
Repaired(list) ==
    /\ list \in Seq(KeptWindows)
    /\ ToSet(windows) \cap WinsOf(list) = {}
    /\ \A i, j \in DOMAIN list : list[i].win = list[j].win => i = j
    /\ \A i \in DOMAIN list : \A n \in {list[i].prev, list[i].next} :
          \/ n = Nothing \/ n \in ToSet(windows)
          \/ \E j \in DOMAIN list : i < j /\ list[j].win = n

(* ~CompWindow leaves no link to the window it deletes.                    *)
LEMMA DeletedIsRepaired ==
  ASSUME NEW list, Repaired(list), NEW w \in WinsOf(list)
  PROVE  Repaired(Deleted(list, w)) /\ WinsOf(Deleted(list, w)) = WinsOf(list) \ {w}
<1> DEFINE p == KeptPlace(list, w)
           gone == list[p]
           others == RemoveAt(list, p)
           Past(n, neighbour) == IF n = w THEN neighbour ELSE n
           after == Deleted(list, w)
<1>1. /\ list \in Seq(KeptWindows) /\ ToSet(windows) \cap WinsOf(list) = {}
      /\ \A i, j \in DOMAIN list : list[i].win = list[j].win => i = j
      /\ \A i \in DOMAIN list : \A n \in {list[i].prev, list[i].next} :
            \/ n = Nothing \/ n \in ToSet(windows)
            \/ \E j \in DOMAIN list : i < j /\ list[j].win = n
  BY DEF Repaired
<1>2. after = [i \in DOMAIN others |->
                 [others[i] EXCEPT !.prev = Past(@, gone.prev), !.next = Past(@, gone.next)]]
  BY DEF Deleted
<1> HIDE DEF after
<1>3. p \in DOMAIN list /\ list[p].win = w
  <2>1. \E i \in DOMAIN list : list[i].win = w
    BY DEF WinsOf
  <2> QED
    BY <2>1 DEF KeptPlace
<1> HIDE DEF p
<1>4. DOMAIN list = 1 .. Len(list) /\ Len(list) \in Nat /\ p \in 1 .. Len(list)
  BY <1>1, <1>3
<1>5. /\ others \in Seq(KeptWindows) /\ Len(others) = Len(list) - 1
      /\ \A i \in 1 .. Len(list) - 1 : others[i] = list[Opened(i, p)]
  <2>1. list \in Seq(KeptWindows) /\ p \in 1 .. Len(list)
    BY <1>1, <1>4
  <2> QED
    BY <2>1, ErasedPlaces
<1> HIDE DEF others
<1>6. DOMAIN others = 1 .. Len(list) - 1 /\ DOMAIN after = 1 .. Len(list) - 1
  <2>1. others \in Seq(KeptWindows) /\ Len(others) = Len(list) - 1
    BY <1>5
  <2>2. DOMAIN others = 1 .. Len(list) - 1
    BY <2>1
  <2> QED
    BY <1>2, <2>2
<1>7. /\ gone \in KeptWindows /\ gone.win = w /\ w \in Ids /\ w # Nothing /\ w \notin ToSet(windows)
  <2>1. gone \in KeptWindows /\ w \notin ToSet(windows)
    BY <1>1, <1>3
  <2> QED
    BY <1>3, <2>1, IdsAssumption DEF KeptWindows
<1>8. ASSUME NEW i \in 1 .. Len(list) - 1
      PROVE  /\ Opened(i, p) \in 1 .. Len(list) /\ Opened(i, p) # p
             /\ after[i] \in KeptWindows
             /\ after[i].win = list[Opened(i, p)].win
             /\ after[i].prev = Past(list[Opened(i, p)].prev, gone.prev)
             /\ after[i].next = Past(list[Opened(i, p)].next, gone.next)
  <2>1. Opened(i, p) \in 1 .. Len(list) /\ Opened(i, p) # p
    BY <1>4 DEF Opened
  <2>2. others[i] \in KeptWindows /\ others[i] = list[Opened(i, p)]
    BY <1>5
  <2>3. after[i] = [others[i] EXCEPT !.prev = Past(@, gone.prev), !.next = Past(@, gone.next)]
    BY <1>2, <1>6
  <2>4. gone.prev \in Ids \cup {Nothing} /\ gone.next \in Ids \cup {Nothing}
    BY <1>7 DEF KeptWindows
  <2> HIDE DEF gone
  <2>5. /\ after[i] \in KeptWindows /\ after[i].win = others[i].win
        /\ after[i].prev = Past(others[i].prev, gone.prev)
        /\ after[i].next = Past(others[i].next, gone.next)
    BY <2>2, <2>3, <2>4 DEF KeptWindows
  <2> QED
    BY <2>1, <2>2, <2>5
<1>9. \A k \in 1 .. Len(list) : k # p =>
         Closed(k, p) \in 1 .. Len(list) - 1 /\ Opened(Closed(k, p), p) = k
  BY <1>4 DEF Opened, Closed
<1>10. \A i, j \in 1 .. Len(list) - 1 : Opened(i, p) = Opened(j, p) => i = j
  BY <1>4 DEF Opened
<1>11. \A i \in 1 .. Len(list) - 1 : \A k \in 1 .. Len(list) :
          Opened(i, p) < k /\ k # p => i < Closed(k, p)
  BY <1>4 DEF Opened, Closed
<1>12. after \in Seq(KeptWindows)
  <2>1. after \in [1 .. Len(list) - 1 -> KeptWindows]
    BY <1>2, <1>6, <1>8
  <2>2. Len(list) - 1 \in Nat
    BY <1>4
  <2> QED
    BY <2>1, <2>2
<1>13. WinsOf(after) = WinsOf(list) \ {w}
  <2>1. ASSUME NEW i \in 1 .. Len(list) - 1
        PROVE  after[i].win \in WinsOf(list) \ {w}
    BY <1>1, <1>3, <1>4, <1>8 DEF WinsOf
  <2>2. ASSUME NEW k \in 1 .. Len(list), list[k].win # w
        PROVE  list[k].win \in WinsOf(after)
    <3>1. k # p
      BY <1>3, <2>2
    <3>2. Closed(k, p) \in DOMAIN after /\ after[Closed(k, p)].win = list[k].win
      BY <1>6, <1>8, <1>9, <3>1
    <3> QED
      BY <3>2 DEF WinsOf
  <2> QED
    BY <1>4, <1>6, <2>1, <2>2 DEF WinsOf
<1>14. \A i, j \in DOMAIN after : after[i].win = after[j].win => i = j
  BY <1>1, <1>4, <1>6, <1>8, <1>10
<1>15. ASSUME NEW i \in DOMAIN after, NEW n \in {after[i].prev, after[i].next}
       PROVE  \/ n = Nothing \/ n \in ToSet(windows)
              \/ \E j \in DOMAIN after : i < j /\ after[j].win = n
  <2> DEFINE k == Opened(i, p)
  <2>1. i \in 1 .. Len(list) - 1 /\ k \in 1 .. Len(list) /\ k # p
    BY <1>6, <1>8
  <2>2. PICK q \in {list[k].prev, list[k].next}, g \in {gone.prev, gone.next} : n = Past(q, g)
    BY <1>6, <1>8, <1>15
  <2>3. \/ q = Nothing \/ q \in ToSet(windows)
        \/ \E j \in DOMAIN list : k < j /\ list[j].win = q
    BY <1>1, <1>4, <2>1
  <2>4. \/ g = Nothing \/ g \in ToSet(windows)
        \/ \E j \in DOMAIN list : p < j /\ list[j].win = g
    BY <1>1, <1>3
  <2> HIDE DEF k, gone
  <2>5. ASSUME NEW j \in DOMAIN list, k < j, j # p, list[j].win = n
        PROVE  \E l \in DOMAIN after : i < l /\ after[l].win = n
    <3>1. Closed(j, p) \in 1 .. Len(list) - 1 /\ Opened(Closed(j, p), p) = j /\ i < Closed(j, p)
      BY <1>4, <1>9, <1>11, <2>1, <2>5 DEF k
    <3>2. after[Closed(j, p)].win = n
      BY <1>8, <2>5, <3>1
    <3> QED
      BY <1>6, <3>1, <3>2
  <2>6. CASE q = w
    <3>1. n = g
      BY <2>2, <2>6
    <3>2. k < p
      BY <1>1, <1>3, <1>7, <2>3, <2>6
    <3>3. \A j \in DOMAIN list : p < j => k < j /\ j # p
      BY <1>4, <2>1, <3>2
    <3> QED
      BY <2>4, <2>5, <3>1, <3>3
  <2>7. CASE q # w
    <3>1. n = q
      BY <2>2, <2>7
    <3>2. \A j \in DOMAIN list : list[j].win = q => j # p
      BY <1>3, <2>7
    <3> QED
      BY <2>3, <2>5, <3>1, <3>2
  <2> QED
    BY <2>6, <2>7
<1>16. ToSet(windows) \cap WinsOf(after) = {}
  BY <1>1, <1>13
<1> QED
  BY <1>12, <1>13, <1>14, <1>15, <1>16 DEF Repaired, after

(* The definition of LeftOf by recursion has a solution.                   *)
LEMMA LeftOfSteps ==
  ASSUME NEW list, Len(list) \in Nat
  PROVE  /\ LeftOf(list)[0] = list
         /\ \A n \in 1 .. Len(list) :
               LeftOf(list)[n] = IF list[n].released
                                 THEN Deleted(LeftOf(list)[n - 1], list[n].win)
                                 ELSE LeftOf(list)[n - 1]
<1> DEFINE Step(g, n) == IF n = 0 THEN list
                         ELSE IF list[n].released THEN Deleted(g[n - 1], list[n].win)
                         ELSE g[n - 1]
           Solved(m) == \E g : g = [n \in 0 .. m |-> Step(g, n)]
           S == {m \in 0 .. Len(list) : ~ Solved(m)}
           left == LeftOf(list)
<1>1. left = CHOOSE g : g = [n \in 0 .. Len(list) |-> Step(g, n)]
  BY DEF LeftOf
<1>2. S = {}
  <2> SUFFICES ASSUME S # {}
               PROVE  FALSE
    OBVIOUS
  <2>1. S \in SUBSET Nat
    OBVIOUS
  <2>2. PICK m : m \in S /\ \A y \in S : m =< y
    BY <2>1, MinIsFirst
  <2>3. m \in Nat /\ m \in 0 .. Len(list) /\ ~ Solved(m)
    BY <2>2
  <2>4. CASE m = 0
    <3> DEFINE h == [n \in 0 .. m |-> list]
    <3>1. h = [n \in 0 .. m |-> Step(h, n)]
      <4>1. \A n \in 0 .. m : n = 0
        BY <2>4
      <4> QED
        BY <4>1
    <3> QED
      BY <2>3, <3>1
  <2>5. CASE m # 0
    <3>1. m - 1 \in 0 .. Len(list) /\ m - 1 \notin S
      <4>1. m - 1 \in 0 .. Len(list) /\ ~ (m =< m - 1)
        BY <2>3, <2>5
      <4> QED
        BY <2>2, <4>1
    <3>2. PICK g : g = [n \in 0 .. m - 1 |-> Step(g, n)]
      BY <3>1
    <3> DEFINE h == [n \in 0 .. m |-> IF n = m THEN Step(g, m) ELSE g[n]]
    <3>3. \A n \in 0 .. m : h[n] = Step(h, n)
      <4> SUFFICES ASSUME NEW n \in 0 .. m
                   PROVE  h[n] = Step(h, n)
        OBVIOUS
      <4>1. n # 0 => n - 1 \in 0 .. m /\ n - 1 # m
        BY <2>3
      <4>2. n # 0 => h[n - 1] = g[n - 1]
        BY <4>1
      <4>3. n # m => n \in 0 .. m - 1
        BY <2>3
      <4>4. n # m => g[n] = Step(g, n)
        BY <3>2, <4>3
      <4>5. h[n] = Step(g, n)
        BY <4>4
      <4> HIDE DEF h
      <4> QED
        BY <4>2, <4>5
    <3>4. h = [n \in 0 .. m |-> h[n]]
      OBVIOUS
    <3> HIDE DEF h
    <3>5. [n \in 0 .. m |-> h[n]] = [n \in 0 .. m |-> Step(h, n)]
      BY <3>3
    <3> QED
      BY <2>3, <3>4, <3>5
  <2> QED
    BY <2>4, <2>5
<1>3. Solved(Len(list))
  BY <1>2
<1> HIDE DEF left
<1>4. left = [n \in 0 .. Len(list) |-> Step(left, n)]
  BY <1>1, <1>3
<1>5. left[0] = list
  BY <1>4
<1>6. \A n \in 1 .. Len(list) : left[n] = IF list[n].released
                                          THEN Deleted(left[n - 1], list[n].win)
                                          ELSE left[n - 1]
  <2> SUFFICES ASSUME NEW n \in 1 .. Len(list)
               PROVE  left[n] = IF list[n].released
                                THEN Deleted(left[n - 1], list[n].win) ELSE left[n - 1]
    OBVIOUS
  <2>1. n \in 0 .. Len(list) /\ n # 0
    OBVIOUS
  <2>2. left[n] = Step(left, n)
    BY <1>4, <2>1
  <2> QED
    BY <2>1, <2>2
<1> QED
  BY <1>5, <1>6 DEF left

(* One released window after the other goes, and each is still there when  *)
(* its turn comes.                                                         *)
LEMMA LeftIsRepaired ==
  ASSUME NEW list, Repaired(list)
  PROVE  /\ Repaired(LeftOf(list)[Len(list)])
         /\ WinsOf(LeftOf(list)[Len(list)]) \subseteq WinsOf(list)
<1> DEFINE left == LeftOf(list)
           Fine(n) == /\ Repaired(left[n]) /\ WinsOf(left[n]) \subseteq WinsOf(list)
                      /\ \A i \in DOMAIN list : i > n => list[i].win \in WinsOf(left[n])
           S == {n \in 0 .. Len(list) : ~ Fine(n)}
<1>1. /\ DOMAIN list = 1 .. Len(list) /\ Len(list) \in Nat
      /\ \A i, j \in DOMAIN list : list[i].win = list[j].win => i = j
  BY DEF Repaired
<1>2. /\ left[0] = list
      /\ \A n \in 1 .. Len(list) : left[n] = IF list[n].released
                                             THEN Deleted(left[n - 1], list[n].win)
                                             ELSE left[n - 1]
  BY <1>1, LeftOfSteps
<1> HIDE DEF left
<1>3. S = {}
  <2> SUFFICES ASSUME S # {}
               PROVE  FALSE
    OBVIOUS
  <2>1. S \in SUBSET Nat
    OBVIOUS
  <2>2. PICK n : n \in S /\ \A y \in S : n =< y
    BY <2>1, MinIsFirst
  <2>3. n \in Nat /\ n \in 0 .. Len(list) /\ ~ Fine(n)
    BY <2>2
  <2>4. n # 0
    BY <1>2, <2>3 DEF WinsOf
  <2>5. n \in 1 .. Len(list) /\ n - 1 \in 0 .. Len(list) /\ ~ (n =< n - 1) /\ n > n - 1
    BY <2>3, <2>4
  <2>6. Fine(n - 1)
    BY <2>2, <2>5
  <2>7. \A i \in DOMAIN list : i > n => i > n - 1 /\ i # n
    BY <1>1, <2>5
  <2>8. CASE list[n].released
    <3> DEFINE w == list[n].win
    <3>1. w \in WinsOf(left[n - 1])
      BY <1>1, <2>5, <2>6
    <3>2. left[n] = Deleted(left[n - 1], w)
      BY <1>2, <2>5, <2>8
    <3>3. \A i \in DOMAIN list : i > n => list[i].win # w
      BY <1>1, <2>5, <2>7
    <3> HIDE DEF w
    <3>4. Repaired(left[n]) /\ WinsOf(left[n]) = WinsOf(left[n - 1]) \ {w}
      BY <2>6, <3>1, <3>2, DeletedIsRepaired
    <3>5. Fine(n)
      BY <2>6, <2>7, <3>3, <3>4
    <3> QED
      BY <2>3, <3>5
  <2>9. CASE ~ list[n].released
    <3>1. left[n] = left[n - 1]
      BY <1>2, <2>5, <2>9
    <3>2. Fine(n)
      BY <2>6, <2>7, <3>1
    <3> QED
      BY <2>3, <3>2
  <2> QED
    BY <2>8, <2>9
<1>4. Fine(Len(list))
  BY <1>1, <1>3
<1> QED
  BY <1>4 DEF left

LEMMA RemoveDestroyedKeepsInv ==
  ASSUME StackInv, RemoveDestroyed
  PROVE  StackInv'
<1> DEFINE after == LeftOf(kept)[Len(kept)]
<1>1. /\ kept' = after
      /\ UNCHANGED <<root, wrapped, shown, born, asked, moves, events, windows,
                     serverWindows, framed, known, pendings, unmapHeld, forgotten,
                     serial, raced>>
  BY DEF RemoveDestroyed, serverVars, listVars
<1>2. Repaired(after) /\ WinsOf(after) \subseteq WinsOf(kept)
  <2>1. Repaired(kept)
    BY InvFacts DEF Repaired, Kept, Shaped, KeptWins, WinsOf
  <2> QED
    BY <2>1, LeftIsRepaired
<1> HIDE DEF after
<1>3. EventsFollow(0) /\ News(0) = {}
  BY <1>1, InvFacts, NoneMore DEF Rest
<1>4. KeptWins' \subseteq KeptWins
  BY <1>1, <1>2 DEF KeptWins, WinsOf
<1>5. Births'
  <2>1. Listed' \subseteq Listed
    BY <1>1, <1>4 DEF Listed
  <2>2. Ordinary(0)
    BY <1>1, <1>3, <2>1, InvFacts DEF Ordinary, OthersOK
  <2> QED
    BY <2>2, OrdinaryKeepsBirths
<1>6. Server'
  <2>1. ServerStep(0)
    BY <1>1, <1>3, InvFacts DEF ServerStep, FramesStand, FramesOwned
  <2> QED
    BY <2>1, ServerStepKeepsServer
<1>7. OneUnmap'
  BY <1>1, <1>3, NoUnmaps
<1>8. Kept'
  BY <1>1, <1>2 DEF Kept, Repaired, KeptWins, WinsOf
<1>9. Typed'
  BY <1>1, <1>2, InvFacts DEF Typed, ListOK, OthersOK, Shaped, Repaired
<1> QED
  BY <1>5, <1>6, <1>7, <1>8, <1>9, InvFromParts

-----------------------------------------------------------------------------
(* The theorems                                                            *)

LEMMA StackStarts == StackInit => StackInv
<1> SUFFICES ASSUME StackInit
             PROVE  StackInv
  OBVIOUS
<1>1. /\ root = << >> /\ windows = << >> /\ serverWindows = << >> /\ kept = << >>
      /\ wrapped = {} /\ shown = {} /\ born = {} /\ asked = {}
      /\ framed = {} /\ known = {} /\ unmapHeld = {} /\ forgotten = {}
      /\ pendings = [w \in Managed |-> {}]
      /\ events = << >> /\ serial = 0 /\ moves = 0 /\ raced = FALSE
  BY DEF StackInit
<1>2. /\ DOMAIN events = {} /\ DOMAIN kept = {} /\ ToSet(root) = {} /\ ToSet(windows) = {}
      /\ ToSet(serverWindows) = {}
  BY <1>1 DEF ToSet
<1>3. KeptWins = {} /\ Listed = {}
  BY <1>2 DEF KeptWins, Listed
<1>4. Births
  <2>1. \A w : Unheard(w)
    BY <1>1, <1>2, <1>3 DEF Unheard
  <2> QED
    BY <1>1, <1>2, <2>1 DEF Births, NotBorn, OneRequest, Introduced, FramesApart
<1>5. Server /\ OneUnmap /\ Kept
  BY <1>1, <1>2, <1>3 DEF Server, FramesStand, DestroyIsLast, UnmapComes, FramesOwned,
     OneUnmap, Kept
<1>6. ListOK(root) /\ ListOK(windows) /\ ListOK(serverWindows)
  BY <1>1, <1>2 DEF ListOK, Distinct
<1>7. OthersOK
  <2>1. serial \in 0 .. MaxRequests /\ moves \in 0 .. MaxMoves
    BY <1>1, IdsAssumption
  <2>2. events \in Seq(Event)
    BY <1>1
  <2>3. raced \in BOOLEAN
    BY <1>1
  <2> QED
    BY <1>1, <2>1, <2>2, <2>3 DEF OthersOK
<1>8. Shaped
  BY <1>1 DEF Shaped
<1> QED
  BY <1>4, <1>5, <1>6, <1>7, <1>8, TypesApart DEF StackInv, Typed

LEMMA StackGoesOn == StackInv /\ [StackNext]_stackVars => StackInv'
<1> SUFFICES ASSUME StackInv, [StackNext]_stackVars
             PROVE  StackInv'
  OBVIOUS
<1>1. ASSUME NEW c \in Clients,
             ClientCreates(c) \/ ClientMaps(c) \/ ClientUnmaps(c) \/ ClientDestroys(c)
      PROVE  StackInv'
  BY <1>1, ClientCreatesKeepsInv, ClientMapsKeepsInv, ClientUnmapsKeepsInv,
     ClientDestroysKeepsInv
<1>2. ASSUME NEW o \in Overrides, NEW a \in Ids \cup {Nothing}, OverrideMoves(o, a)
      PROVE  StackInv'
  BY <1>2, OverrideMovesKeepsInv
<1>3. ASSUME NEW c \in Managed, Lower(c) \/ PluginUnmaps(c)
      PROVE  StackInv'
  BY <1>3, RestackKeepsInv, PluginUnmapsKeepsInv
<1>4. ASSUME NEW c \in Managed, NEW s \in Managed, RestackAbove(c, s)
      PROVE  StackInv'
  BY <1>4, RestackKeepsInv
<1>5. CASE HandleCreate
  BY <1>5, HandleCreateKeepsInv
<1>6. CASE HandleMapRequest
  BY <1>6, HandleMapRequestKeepsInv
<1>7. ASSUME NEW held \in BOOLEAN, HandleUnmap(held)
      PROVE  StackInv'
  BY <1>7, HandleUnmapKeepsInv
<1>8. ASSUME NEW keep \in BOOLEAN, HandleDestroy(keep)
      PROVE  StackInv'
  BY <1>8, HandleDestroyKeepsInv
<1>9. CASE HandleConfigure
  BY <1>9, HandleConfigureKeepsInv
<1>10. ASSUME NEW i \in DOMAIN kept, PluginReleases(i)
       PROVE  StackInv'
  BY <1>10, PluginReleasesKeepsInv
<1>11. CASE RemoveDestroyed
  BY <1>11, RemoveDestroyedKeepsInv
<1>12. CASE UNCHANGED stackVars
  <2>1. UNCHANGED <<root, wrapped, shown, born, asked, moves, events, windows,
                    serverWindows, framed, known, pendings, kept, unmapHeld,
                    forgotten, serial, raced>>
    BY <1>12 DEF stackVars, serverVars, listVars
  <2>2. EventsFollow(0) /\ News(0) = {}
    BY <2>1, InvFacts, NoneMore DEF Rest
  <2>3. Births'
    <3>1. Listed' = Listed
      BY <2>1 DEF Listed, KeptWins
    <3>2. Ordinary(0)
      BY <2>1, <2>2, <3>1, InvFacts DEF Ordinary, OthersOK
    <3> QED
      BY <3>2, OrdinaryKeepsBirths
  <2>4. Server'
    <3>1. ServerStep(0)
      BY <2>1, <2>2, InvFacts DEF ServerStep, FramesStand, FramesOwned
    <3> QED
      BY <3>1, ServerStepKeepsServer
  <2>5. OneUnmap'
    BY <2>1, <2>2, NoUnmaps
  <2>6. Kept'
    BY <2>1, InvFacts, KeptStays DEF Kept
  <2>7. Typed'
    BY <2>1, InvFacts DEF Typed, ListOK, OthersOK, Shaped
  <2> QED
    BY <2>3, <2>4, <2>5, <2>6, <2>7, InvFromParts
<1> QED
  BY <1>1, <1>2, <1>3, <1>4, <1>5, <1>6, <1>7, <1>8, <1>9, <1>10, <1>11, <1>12
     DEF StackNext

(* The inductive invariant holds: whatever clients, compiz and plugins do  *)
(* in between, the CreateNotify of a window is read before anything else   *)
(* is said of it, a client is asked for, framed and unmapped once, and     *)
(* nothing is heard of it after its DestroyNotify.                         *)
THEOREM StackInvariant == StackSpec => []StackInv
<1> QED
  BY StackStarts, StackGoesOn, PTL DEF StackSpec

(* None of the three orders ever names a window twice (insertWindow,       *)
(* unhookWindow and their server halves).                                  *)
THEOREM StackStaysTyped == StackSpec => []StackTypeOK
<1>1. StackInv => StackTypeOK
  BY DEF StackInv
<1> QED
  BY <1>1, StackInvariant, PTL

(* A frame is left without its client only if the client was destroyed     *)
(* while a plugin held back its unmapping (unmap, unreparent, destroy).    *)
THEOREM FramesGo == StackSpec => []FramesGoWithClients
<1>1. StackInv => FramesGoWithClients
  <2> SUFFICES ASSUME StackInv, events = << >>, NEW c \in Managed, Contains(root, FrameOf[c])
               PROVE  c \in wrapped \cup unmapHeld \cup forgotten
    BY DEF FramesGoWithClients, Calm
  <2>1. c \in framed \cup forgotten
    BY InvFacts, ContainsMember DEF FramesOwned
  <2>2. ~ Pending("Unmap", c)
    BY DEF Pending
  <2>3. c \in framed => c \in unmapHeld \cup shown
    BY <2>2, InvFacts DEF UnmapComes
  <2>4. shown \subseteq wrapped
    BY InvFacts DEF OthersOK
  <2> QED
    BY <2>1, <2>3, <2>4
<1> QED
  BY <1>1, StackInvariant, PTL

(* The neighbours a kept window remembers exist: ~CompWindow repairs every *)
(* link to the window it deletes (destroy, removeDestroyed).               *)
THEOREM NeighboursStay == StackSpec => []NeighboursExist
<1>1. StackInv => NeighboursExist
  <2> SUFFICES ASSUME StackInv, NEW i \in DOMAIN kept, NEW n \in {kept[i].prev, kept[i].next}
               PROVE  \/ n = Nothing \/ Contains(windows, n)
                      \/ \E j \in DOMAIN kept : kept[j].win = n
    BY DEF NeighboursExist
  <2>1. \/ n = Nothing \/ n \in ToSet(windows)
        \/ \E j \in DOMAIN kept : i < j /\ kept[j].win = n
    BY InvFacts DEF Kept
  <2> QED
    BY <2>1, InvFacts, ContainsMember
<1> QED
  BY <1>1, StackInvariant, PTL

-----------------------------------------------------------------------------
(* The order of windows in a list                                          *)

(* s has a below b, further from the top of the stack.                     *)
Below(s, a, b) == \E i, j \in DOMAIN s : i < j /\ s[i] = a /\ s[j] = b

(* x sits directly above t, or at the bottom.                              *)
Sits(s, x, t) ==
    /\ x \in ToSet(s) /\ t # x /\ (t = Nothing \/ t \in ToSet(s))
    /\ \A a \in ToSet(s) : a # x =>
          (Below(s, a, x) <=> t # Nothing /\ (a = t \/ Below(s, a, t)))

LEMMA BelowFacts ==
  ASSUME NEW s, ListOK(s)
  PROVE  /\ \A a, b : Below(s, a, b) => a \in ToSet(s) /\ b \in ToSet(s) /\ a # b
                                        /\ ~ Below(s, b, a)
         /\ \A a, b, c : Below(s, a, b) /\ Below(s, b, c) => Below(s, a, c)
         /\ \A a, b \in ToSet(s) : a = b \/ Below(s, a, b) \/ Below(s, b, a)
         /\ Nothing \notin ToSet(s) /\ ToSet(s) \subseteq Ids
<1>1. s \in Seq(Ids) /\ \A i, j \in DOMAIN s : s[i] = s[j] => i = j
  BY DEF ListOK, Distinct
<1>2. DOMAIN s = 1 .. Len(s) /\ Len(s) \in Nat /\ DOMAIN s \subseteq Nat
  BY <1>1
<1>3. \A a, b : Below(s, a, b) => a \in ToSet(s) /\ b \in ToSet(s) /\ a # b
                                   /\ ~ Below(s, b, a)
  <2> SUFFICES ASSUME NEW i \in DOMAIN s, NEW j \in DOMAIN s, i < j
               PROVE  /\ s[i] \in ToSet(s) /\ s[j] \in ToSet(s) /\ s[i] # s[j]
                      /\ ~ Below(s, s[j], s[i])
    BY DEF Below
  <2>1. s[i] \in ToSet(s) /\ s[j] \in ToSet(s)
    BY DEF ToSet
  <2>2. i \in Nat /\ j \in Nat /\ i # j
    BY <1>2
  <2>3. s[i] # s[j]
    BY <1>1, <2>2
  <2>4. ASSUME NEW k \in DOMAIN s, NEW l \in DOMAIN s, k < l, s[k] = s[j], s[l] = s[i]
        PROVE  FALSE
    <3>1. k = j /\ l = i
      BY <1>1, <2>4
    <3> QED
      BY <2>2, <2>4, <3>1
  <2>5. ~ Below(s, s[j], s[i])
    BY <2>4 DEF Below
  <2> QED
    BY <2>1, <2>3, <2>5
<1>4. \A a, b, c : Below(s, a, b) /\ Below(s, b, c) => Below(s, a, c)
  <2> SUFFICES ASSUME NEW i \in DOMAIN s, NEW j \in DOMAIN s, NEW k \in DOMAIN s,
                      NEW l \in DOMAIN s, i < j, k < l, s[j] = s[k]
               PROVE  Below(s, s[i], s[l])
    BY DEF Below
  <2>1. j = k
    BY <1>1
  <2>2. i < l
    BY <1>2, <2>1
  <2> QED
    BY <2>2 DEF Below
<1>5. \A a, b \in ToSet(s) : a = b \/ Below(s, a, b) \/ Below(s, b, a)
  <2> SUFFICES ASSUME NEW i \in DOMAIN s, NEW j \in DOMAIN s, s[i] # s[j]
               PROVE  Below(s, s[i], s[j]) \/ Below(s, s[j], s[i])
    BY DEF ToSet
  <2>1. i # j /\ i \in Nat /\ j \in Nat
    BY <1>2
  <2>2. i < j \/ j < i
    BY <2>1
  <2> QED
    BY <2>2 DEF Below
<1>6. ToSet(s) \subseteq Ids
  BY <1>1 DEF ToSet
<1> QED
  BY <1>3, <1>4, <1>5, <1>6, IdsAssumption

(* Erasing a member leaves the others as they were.                        *)
LEMMA UnhookedOrder ==
  ASSUME NEW s, ListOK(s), NEW e
  PROVE  /\ ListOK(Unhooked(s, e)) /\ ToSet(Unhooked(s, e)) = ToSet(s) \ {e}
         /\ \A a, b : Below(Unhooked(s, e), a, b) <=> Below(s, a, b) /\ a # e /\ b # e
<1>0. s \in Seq(Ids) /\ Distinct(s)
  BY DEF ListOK
<1>1. ListOK(Unhooked(s, e)) /\ ToSet(Unhooked(s, e)) = ToSet(s) \ {e}
  BY <1>0, WithoutMembers DEF ListOK
<1>2. CASE e \notin ToSet(s)
  <2>1. Unhooked(s, e) = s
    BY <1>0, <1>2, ContainsMember DEF Unhooked
  <2> QED
    BY <1>1, <1>2, <2>1, BelowFacts
<1>3. CASE e \in ToSet(s)
  <2> DEFINE p == IndexIn(s, e)
             t == RemoveAt(s, p)
  <2>1. p \in 1 .. Len(s) /\ s[p] = e
    BY <1>0, <1>3, IndexIs
  <2>2. Unhooked(s, e) = t
    BY <1>0, <1>3, ContainsMember DEF Unhooked
  <2> HIDE DEF p
  <2>3. /\ t \in Seq(Ids) /\ Len(t) = Len(s) - 1
        /\ \A i \in 1 .. Len(s) - 1 : t[i] = s[Opened(i, p)]
    BY <1>0, <2>1, ErasedPlaces
  <2> HIDE DEF t
  <2>4. DOMAIN t = 1 .. Len(s) - 1 /\ DOMAIN s = 1 .. Len(s) /\ Len(s) \in Nat
    BY <1>0, <2>3
  <2>5. \A i \in 1 .. Len(s) - 1 : Opened(i, p) \in 1 .. Len(s) /\ Opened(i, p) # p
    BY <2>1, <2>4 DEF Opened
  <2>6. \A i, j \in 1 .. Len(s) - 1 : i < j => Opened(i, p) < Opened(j, p)
    BY <2>1, <2>4 DEF Opened
  <2>7. \A k \in 1 .. Len(s) : k # p =>
           Closed(k, p) \in 1 .. Len(s) - 1 /\ Opened(Closed(k, p), p) = k
    BY <2>1, <2>4 DEF Opened, Closed
  <2>8. \A k, l \in 1 .. Len(s) : k # p /\ l # p /\ k < l => Closed(k, p) < Closed(l, p)
    BY <2>1, <2>4 DEF Closed
  <2>9. ASSUME NEW i \in DOMAIN t, NEW j \in DOMAIN t, i < j
        PROVE  Below(s, t[i], t[j]) /\ t[i] # e /\ t[j] # e
    <3>1. /\ Opened(i, p) \in DOMAIN s /\ Opened(j, p) \in DOMAIN s
          /\ Opened(i, p) < Opened(j, p) /\ Opened(i, p) # p /\ Opened(j, p) # p
          /\ t[i] = s[Opened(i, p)] /\ t[j] = s[Opened(j, p)]
      BY <2>3, <2>4, <2>5, <2>6, <2>9
    <3>2. p \in DOMAIN s
      BY <2>1, <2>4
    <3> QED
      BY <1>0, <2>1, <3>1, <3>2 DEF Below, Distinct
  <2>10. ASSUME NEW k \in DOMAIN s, NEW l \in DOMAIN s, k < l, s[k] # e, s[l] # e
         PROVE  Below(t, s[k], s[l])
    <3>1. k # p /\ l # p
      BY <2>1, <2>10
    <3>2. /\ Closed(k, p) \in DOMAIN t /\ Closed(l, p) \in DOMAIN t
          /\ Closed(k, p) < Closed(l, p)
          /\ Opened(Closed(k, p), p) = k /\ Opened(Closed(l, p), p) = l
      BY <2>4, <2>7, <2>8, <2>10, <3>1
    <3>3. t[Closed(k, p)] = s[k] /\ t[Closed(l, p)] = s[l]
      BY <2>3, <2>4, <3>2
    <3> QED
      BY <3>2, <3>3 DEF Below
  <2>11. \A a, b : Below(t, a, b) => Below(s, a, b) /\ a # e /\ b # e
    BY <2>9 DEF Below
  <2>12. \A a, b : Below(s, a, b) /\ a # e /\ b # e => Below(t, a, b)
    BY <2>10 DEF Below
  <2> QED
    BY <1>1, <2>2, <2>11, <2>12
<1> QED
  BY <1>2, <1>3

(* Inserting one, too.                                                     *)
LEMMA InsertedOrder ==
  ASSUME NEW s, ListOK(s), NEW x \in Ids, x \notin ToSet(s), NEW p \in 1 .. Len(s) + 1
  PROVE  /\ ListOK(InsertAt(s, p, x)) /\ ToSet(InsertAt(s, p, x)) = ToSet(s) \cup {x}
         /\ \A a, b : a # x /\ b # x => (Below(InsertAt(s, p, x), a, b) <=> Below(s, a, b))
         /\ \A a : a # x =>
               (Below(InsertAt(s, p, x), a, x) <=> \E i \in DOMAIN s : i < p /\ s[i] = a)
<1>0. s \in Seq(Ids) /\ Distinct(s)
  BY DEF ListOK
<1> DEFINE t == InsertAt(s, p, x)
<1>1. ListOK(t) /\ ToSet(t) = ToSet(s) \cup {x}
  BY <1>0, InsertedMembers DEF ListOK
<1>2. /\ t \in Seq(Ids) /\ Len(t) = Len(s) + 1 /\ t[p] = x
      /\ \A i \in 1 .. Len(s) : t[Opened(i, p)] = s[i]
  BY <1>0, InsertedPlaces
<1> HIDE DEF t
<1>3. DOMAIN t = 1 .. Len(s) + 1 /\ DOMAIN s = 1 .. Len(s) /\ Len(s) \in Nat
  BY <1>0, <1>2
<1>4. \A i \in 1 .. Len(s) :
         /\ Opened(i, p) \in 1 .. Len(s) + 1 /\ Opened(i, p) # p
         /\ (Opened(i, p) < p <=> i < p)
  BY <1>3 DEF Opened
<1>5. \A i, j \in 1 .. Len(s) : i < j <=> Opened(i, p) < Opened(j, p)
  BY <1>3 DEF Opened
<1>6. \A k \in 1 .. Len(s) + 1 : k # p =>
         Closed(k, p) \in 1 .. Len(s) /\ Opened(Closed(k, p), p) = k
  BY <1>3 DEF Opened, Closed
<1>7. \A k \in DOMAIN t : t[k] # x => \E i \in DOMAIN s : k = Opened(i, p) /\ t[k] = s[i]
  <2> SUFFICES ASSUME NEW k \in 1 .. Len(s) + 1, t[k] # x
               PROVE  \E i \in DOMAIN s : k = Opened(i, p) /\ t[k] = s[i]
    BY <1>3
  <2>1. k # p
    BY <1>2
  <2>2. Closed(k, p) \in 1 .. Len(s) /\ Opened(Closed(k, p), p) = k
    BY <1>6, <2>1
  <2> QED
    BY <1>2, <1>3, <2>2
<1>8. p \in DOMAIN t /\ \A k \in DOMAIN t : t[k] = x => k = p
  BY <1>1, <1>2, <1>3 DEF ListOK, Distinct
<1>9. ASSUME NEW a, NEW b, a # x, b # x
      PROVE  Below(t, a, b) <=> Below(s, a, b)
  <2>1. ASSUME NEW i \in DOMAIN s, NEW j \in DOMAIN s, i < j
        PROVE  Below(t, s[i], s[j])
    <3>1. /\ Opened(i, p) \in DOMAIN t /\ Opened(j, p) \in DOMAIN t
          /\ Opened(i, p) < Opened(j, p)
          /\ t[Opened(i, p)] = s[i] /\ t[Opened(j, p)] = s[j]
      BY <1>2, <1>3, <1>4, <1>5, <2>1
    <3> QED
      BY <3>1 DEF Below
  <2>2. ASSUME NEW k \in DOMAIN t, NEW l \in DOMAIN t, k < l, t[k] # x, t[l] # x
        PROVE  Below(s, t[k], t[l])
    <3>1. PICK i \in DOMAIN s : k = Opened(i, p) /\ t[k] = s[i]
      BY <1>7, <2>2
    <3>2. PICK j \in DOMAIN s : l = Opened(j, p) /\ t[l] = s[j]
      BY <1>7, <2>2
    <3>3. i < j
      BY <1>3, <1>5, <2>2, <3>1, <3>2
    <3> QED
      BY <3>1, <3>2, <3>3 DEF Below
  <2> QED
    BY <1>9, <2>1, <2>2 DEF Below
<1>10. ASSUME NEW a, a # x
       PROVE  Below(t, a, x) <=> \E i \in DOMAIN s : i < p /\ s[i] = a
  <2>1. ASSUME NEW i \in DOMAIN s, i < p
        PROVE  Below(t, s[i], x)
    <3>1. Opened(i, p) \in DOMAIN t /\ Opened(i, p) < p /\ t[Opened(i, p)] = s[i]
      BY <1>2, <1>3, <1>4, <2>1
    <3> QED
      BY <1>2, <1>8, <3>1 DEF Below
  <2>2. ASSUME NEW k \in DOMAIN t, NEW l \in DOMAIN t, k < l, t[k] # x, t[l] = x
        PROVE  \E i \in DOMAIN s : i < p /\ s[i] = t[k]
    <3>1. PICK i \in DOMAIN s : k = Opened(i, p) /\ t[k] = s[i]
      BY <1>7, <2>2
    <3>2. l = p
      BY <1>8, <2>2
    <3>3. i < p
      BY <1>3, <1>4, <2>2, <3>1, <3>2
    <3> QED
      BY <3>1, <3>3
  <2> QED
    BY <1>10, <2>1, <2>2 DEF Below
<1> QED
  BY <1>1, <1>9, <1>10 DEF t

(* The server moves a window above another; compiz inserts one above the   *)
(* entry it found.                                                         *)
LEMMA InsertedSits ==
  ASSUME NEW s, ListOK(s), NEW x \in Ids, x \notin ToSet(s), NEW t,
         t = Nothing \/ t \in ToSet(s)
  PROVE  LET r == InsertAt(s, IF t = Nothing THEN 1 ELSE IndexIn(s, t) + 1, x)
         IN  /\ ListOK(r) /\ ToSet(r) = ToSet(s) \cup {x}
             /\ \A a, b : a # x /\ b # x => (Below(r, a, b) <=> Below(s, a, b))
             /\ Sits(r, x, t)
<1> DEFINE p == IF t = Nothing THEN 1 ELSE IndexIn(s, t) + 1
           r == InsertAt(s, p, x)
<1>0. s \in Seq(Ids) /\ Distinct(s) /\ Len(s) \in Nat /\ DOMAIN s = 1 .. Len(s)
      /\ Nothing \notin ToSet(s)
  BY BelowFacts DEF ListOK
<1>1. t # Nothing => IndexIn(s, t) \in 1 .. Len(s) /\ s[IndexIn(s, t)] = t
  BY <1>0, IndexIs
<1>2. p \in 1 .. Len(s) + 1
  BY <1>0, <1>1
<1>3. /\ ListOK(r) /\ ToSet(r) = ToSet(s) \cup {x}
      /\ \A a, b : a # x /\ b # x => (Below(r, a, b) <=> Below(s, a, b))
      /\ \A a : a # x => (Below(r, a, x) <=> \E i \in DOMAIN s : i < p /\ s[i] = a)
  BY <1>2, InsertedOrder
<1> HIDE DEF r
<1>4. ASSUME NEW a \in ToSet(s)
      PROVE  (\E i \in DOMAIN s : i < p /\ s[i] = a) <=> t # Nothing /\ (a = t \/ Below(s, a, t))
  <2>1. CASE t = Nothing
    BY <1>0, <2>1
  <2>2. CASE t # Nothing
    <3> DEFINE k == IndexIn(s, t)
    <3>1. k \in 1 .. Len(s) /\ s[k] = t /\ p = k + 1
      BY <1>1, <2>2
    <3> HIDE DEF k, p
    <3>2. ASSUME NEW i \in DOMAIN s, i < p
          PROVE  s[i] = t \/ Below(s, s[i], t)
      <4>1. i = k \/ i < k
        BY <1>0, <3>1, <3>2
      <4> QED
        BY <1>0, <3>1, <4>1 DEF Below
    <3>3. ASSUME NEW i \in DOMAIN s, NEW j \in DOMAIN s, i < j, s[j] = t
          PROVE  i < p
      <4>1. j = k
        BY <1>0, <3>1, <3>3 DEF Distinct
      <4> QED
        BY <1>0, <3>1, <3>3, <4>1
    <3>4. k \in DOMAIN s /\ k < p
      BY <1>0, <3>1
    <3>5. ASSUME a = t
          PROVE  \E i \in DOMAIN s : i < p /\ s[i] = a
      BY <3>1, <3>4, <3>5
    <3>6. ASSUME Below(s, a, t)
          PROVE  \E i \in DOMAIN s : i < p /\ s[i] = a
      BY <3>3, <3>6 DEF Below
    <3>7. ASSUME NEW i \in DOMAIN s, i < p, s[i] = a
          PROVE  a = t \/ Below(s, a, t)
      BY <3>2, <3>7
    <3> QED
      BY <2>2, <3>5, <3>6, <3>7
  <2> QED
    BY <2>1, <2>2
<1>5. Sits(r, x, t)
  <2>1. x \in ToSet(r) /\ t # x /\ (t = Nothing \/ t \in ToSet(r))
    BY <1>3, IdsAssumption
  <2>2. ASSUME NEW a \in ToSet(r), a # x
        PROVE  Below(r, a, x) <=> t # Nothing /\ (a = t \/ Below(r, a, t))
    <3>1. a \in ToSet(s)
      BY <1>3, <2>2
    <3>2. Below(r, a, x) <=> t # Nothing /\ (a = t \/ Below(s, a, t))
      BY <1>3, <1>4, <2>2, <3>1
    <3> QED
      BY <1>3, <2>1, <2>2, <3>2
  <2> QED
    BY <2>1, <2>2 DEF Sits
<1> QED
  BY <1>3, <1>5 DEF r

(* What sits below a window is what PrevIn finds.                          *)
LEMMA PrevSits ==
  ASSUME NEW s, ListOK(s), NEW x \in ToSet(s)
  PROVE  Sits(s, x, PrevIn(s, x))
<1>0. s \in Seq(Ids) /\ Distinct(s) /\ Len(s) \in Nat /\ DOMAIN s = 1 .. Len(s)
      /\ Nothing \notin ToSet(s)
  BY BelowFacts DEF ListOK
<1> DEFINE k == IndexIn(s, x)
           t == PrevIn(s, x)
<1>1. k \in 1 .. Len(s) /\ s[k] = x
  BY <1>0, IndexIs
<1>2. t = IF k = 1 THEN Nothing ELSE s[k - 1]
  BY DEF PrevIn
<1>3. t # x /\ (t = Nothing \/ t \in ToSet(s))
  BY <1>0, NeighboursAreMembers
<1> HIDE DEF k, t
<1>4. ASSUME NEW i \in DOMAIN s, i < k
      PROVE  k # 1 /\ (i = k - 1 \/ i < k - 1)
  BY <1>0, <1>1, <1>4
<1>5. k # 1 => k - 1 \in DOMAIN s /\ k - 1 < k
  BY <1>0, <1>1
<1>6. k \in DOMAIN s /\ \A i \in DOMAIN s : s[i] = x => i = k
  BY <1>0, <1>1 DEF Distinct
<1>7. ASSUME NEW a, Below(s, a, x)
      PROVE  t # Nothing /\ (a = t \/ Below(s, a, t))
  <2>1. PICK i \in DOMAIN s : i < k /\ s[i] = a
    BY <1>6, <1>7 DEF Below
  <2>2. k # 1 /\ (i = k - 1 \/ i < k - 1)
    BY <1>4, <2>1
  <2>3. t = s[k - 1] /\ k - 1 \in DOMAIN s
    BY <1>2, <1>5, <2>2
  <2>4. t \in ToSet(s)
    BY <2>3 DEF ToSet
  <2> QED
    BY <1>0, <2>1, <2>2, <2>3, <2>4 DEF Below
<1>8. t # Nothing => Below(s, t, x)
  BY <1>1, <1>2, <1>5, <1>6 DEF Below
<1>9. \A a : Below(s, a, t) /\ Below(s, t, x) => Below(s, a, x)
  BY BelowFacts
<1> QED
  BY <1>3, <1>7, <1>8, <1>9 DEF Sits, t

(* There is only one.                                                      *)
LEMMA SitsIsPrev ==
  ASSUME NEW s, ListOK(s), NEW x, NEW t, Sits(s, x, t)
  PROVE  PrevIn(s, x) = t
<1> DEFINE u == PrevIn(s, x)
<1>1. x \in ToSet(s) /\ t # x /\ (t = Nothing \/ t \in ToSet(s))
  BY DEF Sits
<1>2. Sits(s, x, u)
  BY <1>1, PrevSits
<1> HIDE DEF u
<1>3. u # x /\ (u = Nothing \/ u \in ToSet(s)) /\ Nothing \notin ToSet(s)
  BY <1>2, BelowFacts DEF Sits
<1>4. ASSUME u # t, u # Nothing
      PROVE  t # Nothing /\ Below(s, u, t)
  <2>1. Below(s, u, x)
    BY <1>2, <1>3, <1>4 DEF Sits
  <2> QED
    BY <1>3, <1>4, <2>1 DEF Sits
<1>5. ASSUME u # t, t # Nothing
      PROVE  u # Nothing /\ Below(s, t, u)
  <2>1. Below(s, t, x)
    BY <1>1, <1>5 DEF Sits
  <2> QED
    BY <1>1, <1>2, <1>5, <2>1 DEF Sits
<1>6. ~ (Below(s, u, t) /\ Below(s, t, u))
  BY BelowFacts
<1> QED
  BY <1>3, <1>4, <1>5, <1>6 DEF u

LEMMA MovedOrder ==
  ASSUME NEW s, ListOK(s), NEW x \in ToSet(s), NEW t, t # x, t = Nothing \/ t \in ToSet(s)
  PROVE  /\ ListOK(MovedAbove(s, x, t)) /\ ToSet(MovedAbove(s, x, t)) = ToSet(s)
         /\ \A a, b : a # x /\ b # x => (Below(MovedAbove(s, x, t), a, b) <=> Below(s, a, b))
         /\ Sits(MovedAbove(s, x, t), x, t)
<1> DEFINE u == Unhooked(s, x)
<1>1. /\ ListOK(u) /\ ToSet(u) = ToSet(s) \ {x}
      /\ \A a, b : Below(u, a, b) <=> Below(s, a, b) /\ a # x /\ b # x
  BY UnhookedOrder
<1>2. x \in Ids
  BY BelowFacts
<1>3. MovedAbove(s, x, t) = InsertAt(u, IF t = Nothing THEN 1 ELSE IndexIn(u, t) + 1, x)
  BY DEF MovedAbove
<1> HIDE DEF u
<1>4. x \notin ToSet(u) /\ (t = Nothing \/ t \in ToSet(u))
  BY <1>1
<1> DEFINE r == InsertAt(u, IF t = Nothing THEN 1 ELSE IndexIn(u, t) + 1, x)
<1>5. /\ ListOK(r) /\ ToSet(r) = ToSet(u) \cup {x}
      /\ \A a, b : a # x /\ b # x => (Below(r, a, b) <=> Below(u, a, b))
      /\ Sits(r, x, t)
  BY <1>1, <1>2, <1>4, InsertedSits
<1>6. MovedAbove(s, x, t) = r
  BY <1>3
<1> HIDE DEF r
<1> QED
  BY <1>1, <1>5, <1>6

(* A frame takes the place of its client, and back.                        *)
LEMMA ReplacedOrder ==
  ASSUME NEW s, ListOK(s), NEW old \in ToSet(s), NEW new \in Ids, new \notin ToSet(s)
  PROVE  /\ ListOK(ReplaceAll(s, old, new))
         /\ ToSet(ReplaceAll(s, old, new)) = (ToSet(s) \ {old}) \cup {new}
         /\ \A a, b : a # new /\ b # new => (Below(ReplaceAll(s, old, new), a, b)
                                              <=> Below(s, a, b) /\ a # old /\ b # old)
         /\ \A a : a # new => (Below(ReplaceAll(s, old, new), a, new) <=> Below(s, a, old))
         /\ \A b : b # new => (Below(ReplaceAll(s, old, new), new, b) <=> Below(s, old, b))
<1> DEFINE r == ReplaceAll(s, old, new)
<1>0. s \in Seq(Ids) /\ Distinct(s)
  BY DEF ListOK
<1>1. ListOK(r) /\ ToSet(r) = (ToSet(s) \ {old}) \cup {new}
  BY <1>0, ReplacedMembers DEF ListOK
<1>2. r = [i \in 1 .. Len(s) |-> IF s[i] = old THEN new ELSE s[i]]
  BY DEF ReplaceAll
<1>3. /\ DOMAIN s = 1 .. Len(s) /\ DOMAIN r = DOMAIN s
      /\ \A i \in DOMAIN s : r[i] = (IF s[i] = old THEN new ELSE s[i]) /\ s[i] # new
  BY <1>0, <1>2 DEF ToSet
<1> HIDE DEF r
<1>4. old # new
  OBVIOUS
<1>5. \A a : Below(s, a, a) = FALSE /\ Below(r, a, a) = FALSE
  BY <1>1, BelowFacts
<1>6. \A a, b : a # new /\ b # new => (Below(r, a, b) <=> Below(s, a, b) /\ a # old /\ b # old)
  BY <1>3, <1>4 DEF Below
<1>7. \A a : a # new => (Below(r, a, new) <=> Below(s, a, old))
  <2> SUFFICES ASSUME NEW a, a # new
               PROVE  Below(r, a, new) <=> Below(s, a, old)
    OBVIOUS
  <2>1. Below(r, a, new) => Below(s, a, old)
    BY <1>3 DEF Below
  <2>2. Below(s, a, old) => a # old
    BY <1>5
  <2>3. Below(s, a, old) /\ a # old => Below(r, a, new)
    BY <1>3 DEF Below
  <2> QED
    BY <2>1, <2>2, <2>3
<1>8. \A b : b # new => (Below(r, new, b) <=> Below(s, old, b))
  <2> SUFFICES ASSUME NEW b, b # new
               PROVE  Below(r, new, b) <=> Below(s, old, b)
    OBVIOUS
  <2>1. Below(r, new, b) => Below(s, old, b)
    BY <1>3 DEF Below
  <2>2. Below(s, old, b) => b # old
    BY <1>5
  <2>3. Below(s, old, b) /\ b # old => Below(r, new, b)
    BY <1>3 DEF Below
  <2> QED
    BY <2>1, <2>2, <2>3
<1> QED
  BY <1>1, <1>6, <1>7, <1>8 DEF r

LEMMA AppendedOrder ==
  ASSUME NEW s, ListOK(s), NEW x \in Ids, x \notin ToSet(s)
  PROVE  /\ ListOK(Append(s, x)) /\ ToSet(Append(s, x)) = ToSet(s) \cup {x}
         /\ \A a, b : Below(Append(s, x), a, b) <=> Below(s, a, b) \/ (a \in ToSet(s) /\ b = x)
<1> DEFINE r == Append(s, x)
<1>0. s \in Seq(Ids) /\ Distinct(s)
  BY DEF ListOK
<1>1. ListOK(r) /\ ToSet(r) = ToSet(s) \cup {x}
  BY <1>0, AppendedMembers DEF ListOK
<1>2. /\ DOMAIN r = 1 .. Len(s) + 1 /\ DOMAIN s = 1 .. Len(s) /\ Len(s) \in Nat
      /\ r[Len(s) + 1] = x /\ \A i \in 1 .. Len(s) : r[i] = s[i]
  BY <1>0
<1> HIDE DEF r
<1>3. ASSUME NEW i \in DOMAIN r, NEW j \in DOMAIN r, i < j
      PROVE  Below(s, r[i], r[j]) \/ (r[i] \in ToSet(s) /\ r[j] = x)
  <2>1. i \in 1 .. Len(s) /\ (j \in 1 .. Len(s) \/ j = Len(s) + 1)
    BY <1>2, <1>3
  <2> QED
    BY <1>2, <1>3, <2>1 DEF Below, ToSet
<1>4. ASSUME NEW i \in DOMAIN s, NEW j \in DOMAIN s, i < j
      PROVE  Below(r, s[i], s[j])
  <2>1. i \in DOMAIN r /\ j \in DOMAIN r /\ r[i] = s[i] /\ r[j] = s[j]
    BY <1>2
  <2> QED
    BY <1>4, <2>1 DEF Below
<1>5. ASSUME NEW i \in DOMAIN s
      PROVE  Below(r, s[i], x)
  <2>1. i \in DOMAIN r /\ Len(s) + 1 \in DOMAIN r /\ i < Len(s) + 1 /\ r[i] = s[i]
    BY <1>2
  <2> QED
    BY <1>2, <2>1 DEF Below
<1>6. \A a, b : Below(r, a, b) => Below(s, a, b) \/ (a \in ToSet(s) /\ b = x)
  BY <1>3 DEF Below
<1>7. \A a, b : Below(s, a, b) => Below(r, a, b)
  BY <1>4 DEF Below
<1>8. \A a \in ToSet(s) : Below(r, a, x)
  BY <1>5 DEF ToSet
<1> QED
  BY <1>1, <1>6, <1>7, <1>8 DEF r

(* Two lists of the same windows in the same order are the same list.      *)
SameOrder(s, t) ==
    ToSet(s) = ToSet(t) /\ \A a, b \in ToSet(s) : Below(s, a, b) => Below(t, a, b)

LEMMA SameOrderBack ==
  ASSUME NEW s, ListOK(s), NEW t, ListOK(t), SameOrder(s, t)
  PROVE  SameOrder(t, s)
<1>1. ASSUME NEW a \in ToSet(s), NEW b \in ToSet(s), Below(t, a, b)
      PROVE  Below(s, a, b)
  <2>1. a # b /\ ~ Below(t, b, a)
    BY <1>1, BelowFacts
  <2>2. Below(s, a, b) \/ Below(s, b, a)
    BY <2>1, BelowFacts
  <2> QED
    BY <2>1, <2>2 DEF SameOrder
<1> QED
  BY <1>1 DEF SameOrder

LEMMA SameOrderPlaces ==
  ASSUME NEW s, ListOK(s), NEW t, ListOK(t), SameOrder(s, t)
  PROVE  \A i \in DOMAIN s : i \in DOMAIN t /\ s[i] = t[i]
<1> DEFINE J == {k \in Nat : \A i \in 1 .. k : i <= Len(s) => i <= Len(t) /\ s[i] = t[i]}
<1>0. /\ Len(s) \in Nat /\ Len(t) \in Nat /\ DOMAIN s = 1 .. Len(s) /\ DOMAIN t = 1 .. Len(t)
      /\ Distinct(s) /\ Distinct(t)
  BY DEF ListOK
<1>1. 0 \in J
  OBVIOUS
<1>2. ASSUME NEW n \in 1 .. Len(s), n - 1 \in J
      PROVE  n \in J
  <2>1. n \in DOMAIN s /\ n \in Nat
    BY <1>0
  <2>2. PICK m \in DOMAIN t : t[m] = s[n]
    BY <2>1 DEF SameOrder, ToSet
  <2>3. \A i \in 1 .. n - 1 : i \in DOMAIN s /\ i \in DOMAIN t /\ s[i] = t[i] /\ i # n
    BY <1>0, <1>2, <2>1
  <2>4. ~ (m < n)
    <3> SUFFICES ASSUME m < n
                 PROVE  FALSE
      OBVIOUS
    <3>1. m \in 1 .. n - 1
      BY <1>0, <2>1
    <3>2. s[m] = s[n] /\ m \in DOMAIN s
      BY <2>2, <2>3, <3>1
    <3> QED
      BY <1>0, <2>1, <2>3, <3>1, <3>2 DEF Distinct
  <2>5. ~ (n < m)
    <3> SUFFICES ASSUME n < m
                 PROVE  FALSE
      OBVIOUS
    <3>1. n \in DOMAIN t
      BY <1>0, <2>1
    <3>2. Below(t, t[n], s[n])
      BY <2>2, <3>1 DEF Below
    <3>3. PICK l \in DOMAIN s : s[l] = t[n]
      BY <3>1 DEF SameOrder, ToSet
    <3>4. ~ (l < n)
      <4> SUFFICES ASSUME l < n
                   PROVE  FALSE
        OBVIOUS
      <4>1. l \in 1 .. n - 1
        BY <1>0, <2>1
      <4>2. t[l] = t[n] /\ l \in DOMAIN t /\ l # n
        BY <2>3, <3>3, <4>1
      <4> QED
        BY <1>0, <3>1, <4>2 DEF Distinct
    <3>5. l # n
      BY <3>2, <3>3, BelowFacts
    <3>6. n < l
      BY <1>0, <2>1, <3>4, <3>5
    <3>7. Below(s, s[n], t[n])
      BY <2>1, <3>3, <3>6 DEF Below
    <3>8. s[n] \in ToSet(s) /\ t[n] \in ToSet(s)
      BY <3>7, BelowFacts
    <3>9. Below(t, s[n], t[n])
      BY <3>7, <3>8 DEF SameOrder
    <3> QED
      BY <3>2, <3>9, BelowFacts
  <2>6. m = n
    BY <1>0, <2>1, <2>4, <2>5
  <2>7. \A i \in 1 .. n : i = n \/ i \in 1 .. n - 1
    BY <2>1
  <2> QED
    BY <1>0, <1>2, <2>1, <2>2, <2>3, <2>6, <2>7
<1> HIDE DEF J
<1>3. \A n \in 0 .. Len(s) : n \in J
  BY <1>0, <1>1, <1>2, CountingUp
<1>4. Len(s) \in J
  BY <1>0, <1>3
<1> QED
  BY <1>0, <1>4 DEF J

LEMMA SameLists ==
  ASSUME NEW s, ListOK(s), NEW t, ListOK(t), SameOrder(s, t)
  PROVE  s = t
<1>1. \A i \in DOMAIN s : i \in DOMAIN t /\ s[i] = t[i]
  BY SameOrderPlaces
<1>2. SameOrder(t, s)
  BY SameOrderBack
<1>3. \A i \in DOMAIN t : i \in DOMAIN s
  BY <1>2, SameOrderPlaces
<1>4. /\ Len(s) \in Nat /\ Len(t) \in Nat /\ DOMAIN s = 1 .. Len(s) /\ DOMAIN t = 1 .. Len(t)
      /\ s = [i \in DOMAIN s |-> s[i]] /\ t = [i \in DOMAIN t |-> t[i]]
  BY DEF ListOK
<1>5. DOMAIN s = DOMAIN t
  BY <1>1, <1>3
<1> QED
  BY <1>1, <1>4, <1>5

-----------------------------------------------------------------------------
(* Windows by the ids the server lists                                     *)

(* The window of compiz's lists that an id stands for, where the windows   *)
(* in held have frames (findTopLevelWindow).                               *)
WindowIn(x, held) ==
    IF \E c \in held : FrameOf[c] = x THEN CHOOSE c \in held : FrameOf[c] = x ELSE x

LEMMA WindowIs ==
  ASSUME NEW held \in SUBSET Managed
  PROVE  /\ \A c \in held : WindowIn(FrameOf[c], held) = c
         /\ \A x : (\A c \in held : FrameOf[c] # x) => WindowIn(x, held) = x
         /\ \A x \in Clients : WindowIn(x, held) = x
         /\ \A x \in Ids : WindowIn(x, held) \in Ids
<1>1. ASSUME NEW c \in held
      PROVE  WindowIn(FrameOf[c], held) = c
  <2>1. \A e \in held : FrameOf[e] = FrameOf[c] => e = c
    BY FrameIds
  <2> QED
    BY <2>1 DEF WindowIn
<1>2. ASSUME NEW x, \A c \in held : FrameOf[c] # x
      PROVE  WindowIn(x, held) = x
  BY <1>2 DEF WindowIn
<1>3. \A x \in Clients : \A c \in held : FrameOf[c] # x
  BY FrameIds
<1>4. ASSUME NEW x \in Ids
      PROVE  WindowIn(x, held) \in Ids
  <2>1. CASE \E c \in held : FrameOf[c] = x
    BY <1>1, <2>1, FrameIds
  <2>2. CASE ~ \E c \in held : FrameOf[c] = x
    BY <1>2, <2>2
  <2> QED
    BY <2>1, <2>2
<1> QED
  BY <1>1, <1>2, <1>3, <1>4

(* What insertWindow looks for: above, by its own id or as a frame         *)
Target(above, held) == IF above = Nothing THEN Nothing ELSE WindowIn(above, held)

LEMMA PutFirst ==
  ASSUME NEW s \in Seq(Ids), NEW w \in Ids
  PROVE  InsertAt(s, 1, w) = <<w>> \o s
<1>1. SubSeq(s, 1, 1 - 1) = << >> /\ SubSeq(s, 1, Len(s)) = s
  OBVIOUS
<1>2. << >> \o <<w>> = <<w>>
  OBVIOUS
<1> QED
  BY <1>1, <1>2 DEF InsertAt

LEMMA InsertedView ==
  ASSUME NEW s, ListOK(s), NEW w \in Ids, w \notin ToSet(s), NEW held \in SUBSET Managed,
         \A c \in held : FrameOf[c] \notin ToSet(s), NEW above \in Ids \cup {Nothing},
         above = Nothing \/ WindowIn(above, held) \in ToSet(s)
  PROVE  /\ ListOK(Inserted(s, w, above, held))
         /\ ToSet(Inserted(s, w, above, held)) = ToSet(s) \cup {w}
         /\ \A a, b : a # w /\ b # w => (Below(Inserted(s, w, above, held), a, b) <=> Below(s, a, b))
         /\ Sits(Inserted(s, w, above, held), w, Target(above, held))
<1> DEFINE t == Target(above, held)
           r == InsertAt(s, IF t = Nothing THEN 1 ELSE IndexIn(s, t) + 1, w)
           Found(i) == \/ s[i] = above
                       \/ s[i] \in held /\ FrameOf[s[i]] = above
           place == CHOOSE i \in DOMAIN s : Found(i)
<1>0. s \in Seq(Ids) /\ Distinct(s) /\ Len(s) \in Nat /\ DOMAIN s = 1 .. Len(s)
      /\ Nothing \notin ToSet(s)
  BY BelowFacts DEF ListOK
<1>1. t = Nothing \/ t \in ToSet(s)
  BY DEF Target
<1>2. /\ ListOK(r) /\ ToSet(r) = ToSet(s) \cup {w}
      /\ \A a, b : a # w /\ b # w => (Below(r, a, b) <=> Below(s, a, b))
      /\ Sits(r, w, t)
  BY <1>1, InsertedSits
<1>3. Inserted(s, w, above, held) =
         IF above = Nothing \/ s = << >> THEN <<w>> \o s
         ELSE IF \E i \in DOMAIN s : Found(i) THEN InsertAt(s, 1 + place, w) ELSE s
  BY DEF Inserted
<1>4. Inserted(s, w, above, held) = r
  <2>1. CASE above = Nothing
    <3>1. r = InsertAt(s, 1, w)
      BY <2>1 DEF Target
    <3> QED
      BY <1>0, <1>3, <2>1, <3>1, PutFirst
  <2>2. CASE above # Nothing
    <3>1. t = WindowIn(above, held) /\ t \in ToSet(s) /\ t # Nothing
      BY <1>0, <2>2 DEF Target
    <3>2. ASSUME NEW i \in DOMAIN s
          PROVE  Found(i) <=> s[i] = t
      <4>0. s[i] \in ToSet(s)
        BY DEF ToSet
      <4>1. CASE \E c \in held : FrameOf[c] = above
        <5>1. PICK c \in held : FrameOf[c] = above
          BY <4>1
        <5>2. t = c
          BY <3>1, <5>1, WindowIs
        <5>3. s[i] # above
          BY <4>0, <5>1
        <5> QED
          BY <5>1, <5>2, <5>3, FrameIds
      <4>2. CASE \A c \in held : FrameOf[c] # above
        BY <3>1, <4>2, WindowIs
      <4> QED
        BY <4>1, <4>2
    <3>3. IndexIn(s, t) \in DOMAIN s /\ s[IndexIn(s, t)] = t
      BY <1>0, <3>1, IndexIs
    <3>4. \E i \in DOMAIN s : Found(i)
      BY <3>2, <3>3
    <3>5. place \in DOMAIN s /\ Found(place)
      BY <3>4
    <3>6. place = IndexIn(s, t)
      BY <1>0, <3>2, <3>3, <3>5 DEF Distinct
    <3>7. s # << >>
      BY <1>0, <3>3
    <3>8. Inserted(s, w, above, held) = InsertAt(s, 1 + place, w)
      BY <1>3, <2>2, <3>4, <3>7
    <3>9. \A n \in DOMAIN s : 1 + n = n + 1
      BY <1>0
    <3> QED
      BY <3>1, <3>3, <3>6, <3>8, <3>9
  <2> QED
    BY <2>1, <2>2
<1> HIDE DEF r, t
<1> QED
  BY <1>2, <1>4 DEF t

(* PrivateWindow::restack puts w where the server has it: above the window *)
(* named by the event; when it does nothing, w was there already.          *)
LEMMA RestackView ==
  ASSUME ListOK(windows), known \subseteq framed, framed \subseteq Managed,
         \A c \in known : FrameOf[c] \notin ToSet(windows),
         NEW w \in ToSet(windows), NEW above \in Ids \cup {Nothing},
         above \notin {w, RootParent(w)},
         above = Nothing \/ WindowIn(above, known) \in ToSet(windows) \ {w},
         Restack(w, above)
  PROVE  /\ ListOK(windows') /\ ToSet(windows') = ToSet(windows)
         /\ \A a, b : a # w /\ b # w => (Below(windows', a, b) <=> Below(windows, a, b))
         /\ Sits(windows', w, Target(above, known))
<1>0. windows \in Seq(Ids) /\ Distinct(windows) /\ Nothing \notin ToSet(windows)
      /\ known \in SUBSET Managed /\ ToSet(windows) \subseteq Ids
  BY BelowFacts DEF ListOK
<1>1. CASE RestackIsVoid(w, above)
  <2> DEFINE prev == PrevIn(windows, w)
  <2>1. UNCHANGED windows
    BY <1>1 DEF Restack
  <2>2. Sits(windows, w, prev) /\ (prev = Nothing \/ prev \in ToSet(windows))
    BY PrevSits DEF Sits
  <2>3. \/ prev # Nothing /\ above # Nothing
             /\ (above = prev \/ (prev \in known /\ above = FrameOf[prev]))
        \/ prev = Nothing /\ above = Nothing
        \/ above # Nothing /\ ~ Contains(windows, above)
             /\ (\A c \in framed : FrameOf[c] = above => ~ Contains(windows, c))
    BY <1>1 DEF RestackIsVoid
  <2> HIDE DEF prev
  <2>4. ASSUME above # Nothing, ~ Contains(windows, above),
               \A c \in framed : FrameOf[c] = above => ~ Contains(windows, c)
        PROVE  FALSE
    <3>1. WindowIn(above, known) \in ToSet(windows)
      BY <2>4
    <3>2. above \notin ToSet(windows)
          /\ \A c \in framed : FrameOf[c] = above => c \notin ToSet(windows)
      BY <1>0, <2>4, ContainsMember
    <3>3. CASE \E c \in known : FrameOf[c] = above
      <4>1. PICK c \in known : FrameOf[c] = above
        BY <3>3
      <4>2. WindowIn(above, known) = c
        BY <1>0, <4>1, WindowIs
      <4> QED
        BY <3>1, <3>2, <4>1, <4>2
    <3>4. CASE \A c \in known : FrameOf[c] # above
      BY <1>0, <3>1, <3>2, <3>4, WindowIs
    <3> QED
      BY <3>3, <3>4
  <2>5. Target(above, known) = prev
    <3>1. CASE above = Nothing
      BY <2>3, <2>4, <3>1 DEF Target
    <3>2. CASE above # Nothing /\ above = prev
      <4>1. \A c \in known : FrameOf[c] # above
        BY <2>2, <3>2
      <4> QED
        BY <1>0, <3>2, <4>1, WindowIs DEF Target
    <3>3. CASE above # Nothing /\ prev \in known /\ above = FrameOf[prev]
      BY <1>0, <3>3, WindowIs DEF Target
    <3> QED
      BY <2>3, <2>4, <3>1, <3>2, <3>3
  <2> QED
    BY <2>1, <2>2, <2>5
<1>2. CASE ~ RestackIsVoid(w, above)
  <2> DEFINE s == Unhooked(windows, w)
  <2>1. windows' = Inserted(s, w, above, known)
    BY <1>2 DEF Restack, RestackUnchecked
  <2>2. /\ ListOK(s) /\ ToSet(s) = ToSet(windows) \ {w}
        /\ \A a, b : Below(s, a, b) <=> Below(windows, a, b) /\ a # w /\ b # w
    BY UnhookedOrder
  <2> HIDE DEF s
  <2>3. /\ w \in Ids /\ w \notin ToSet(s) /\ \A c \in known : FrameOf[c] \notin ToSet(s)
        /\ (above = Nothing \/ WindowIn(above, known) \in ToSet(s))
    BY <1>0, <2>2
  <2>4. /\ ListOK(windows') /\ ToSet(windows') = ToSet(s) \cup {w}
        /\ \A a, b : a # w /\ b # w => (Below(windows', a, b) <=> Below(s, a, b))
        /\ Sits(windows', w, Target(above, known))
    BY <1>0, <2>1, <2>2, <2>3, InsertedView
  <2> QED
    BY <2>2, <2>4
<1> QED
  BY <1>1, <1>2

(* compiz's list has the windows of q, and in q's order.                   *)
Shows(q, list, held) ==
    /\ \A x \in ToSet(q) : WindowIn(x, held) \in ToSet(list)
    /\ \A x, y \in ToSet(q) :
          Below(q, x, y) => Below(list, WindowIn(x, held), WindowIn(y, held))

(* No two ids of q stand for the same window.                              *)
Apart(q, held) == \A c \in held : ~ (c \in ToSet(q) /\ FrameOf[c] \in ToSet(q))

LEMMA WindowsApart ==
  ASSUME NEW held \in SUBSET Managed, NEW q, Apart(q, held),
         NEW x \in ToSet(q), NEW y \in ToSet(q), WindowIn(x, held) = WindowIn(y, held)
  PROVE  x = y
<1>1. CASE \E c \in held : FrameOf[c] = x
  <2>1. PICK c \in held : FrameOf[c] = x
    BY <1>1
  <2>2. WindowIn(y, held) = c /\ c \notin ToSet(q)
    BY <2>1, WindowIs DEF Apart
  <2>3. PICK d \in held : FrameOf[d] = y
    BY <2>2, WindowIs
  <2> QED
    BY <2>1, <2>2, <2>3, WindowIs
<1>2. CASE \E c \in held : FrameOf[c] = y
  <2>1. PICK c \in held : FrameOf[c] = y
    BY <1>2
  <2>2. WindowIn(x, held) = c /\ c \notin ToSet(q)
    BY <2>1, WindowIs DEF Apart
  <2>3. PICK d \in held : FrameOf[d] = x
    BY <2>2, WindowIs
  <2> QED
    BY <2>1, <2>2, <2>3, WindowIs
<1>3. CASE \A c \in held : FrameOf[c] # x /\ FrameOf[c] # y
  BY <1>3, WindowIs
<1> QED
  BY <1>1, <1>2, <1>3

(* When one window moves in q and list alike, list still shows q.          *)
LEMMA ShowsMoved ==
  ASSUME NEW held \in SUBSET Managed, NEW p, NEW q, NEW list, NEW list2,
         ListOK(q), ListOK(list2), Shows(p, list, held), Apart(q, held),
         NEW x, NEW above, Sits(q, x, above),
         Sits(list2, WindowIn(x, held), Target(above, held)),
         ToSet(q) \ {x} \subseteq ToSet(p), ToSet(list) \subseteq ToSet(list2),
         \A a, b : a # x /\ b # x /\ Below(q, a, b) => Below(p, a, b),
         \A a, b : a # WindowIn(x, held) /\ b # WindowIn(x, held) /\ Below(list, a, b)
                      => Below(list2, a, b)
  PROVE  Shows(q, list2, held)
<1> DEFINE W(y) == WindowIn(y, held)
<1>1. x \in ToSet(q) /\ above # x /\ (above = Nothing \/ above \in ToSet(q))
  BY DEF Sits
<1>2. \A y \in ToSet(q) : y # x => W(y) # W(x)
  BY <1>1, WindowsApart
<1>3. \A y \in ToSet(q) : W(y) \in ToSet(list2)
  <2>1. W(x) \in ToSet(list2)
    BY DEF Sits
  <2> QED
    BY <2>1 DEF Shows
<1>4. ASSUME NEW y \in ToSet(q), NEW z \in ToSet(q), y # x, z # x, Below(q, y, z)
      PROVE  Below(list2, W(y), W(z))
  <2>1. Below(p, y, z) /\ y \in ToSet(p) /\ z \in ToSet(p)
    BY <1>4
  <2>2. Below(list, W(y), W(z))
    BY <2>1 DEF Shows
  <2> QED
    BY <1>2, <1>4, <2>2
<1>5. above # Nothing => Target(above, held) = W(above) /\ W(above) # Nothing
  <2>1. above # Nothing => W(above) \in ToSet(list2)
    BY <1>1, <1>3
  <2> QED
    BY <2>1, BelowFacts DEF Target
<1>6. ASSUME NEW y \in ToSet(q), y # x
      PROVE  /\ Below(q, y, x) <=> above # Nothing /\ (y = above \/ Below(q, y, above))
             /\ Below(list2, W(y), W(x)) <=>
                   above # Nothing /\ (W(y) = W(above) \/ Below(list2, W(y), W(above)))
  <2>1. W(y) # W(x) /\ W(y) \in ToSet(list2)
    BY <1>2, <1>3, <1>6
  <2>2. Below(list2, W(y), W(x)) <=>
           Target(above, held) # Nothing
             /\ (W(y) = Target(above, held) \/ Below(list2, W(y), Target(above, held)))
    BY <2>1 DEF Sits
  <2>3. above = Nothing => Target(above, held) = Nothing
    BY DEF Target
  <2> QED
    BY <1>5, <1>6, <2>2, <2>3 DEF Sits
<1>7. ASSUME NEW y \in ToSet(q), Below(q, y, x)
      PROVE  Below(list2, W(y), W(x))
  <2>1. y # x
    BY <1>7, BelowFacts
  <2>2. above # Nothing /\ (y = above \/ Below(q, y, above))
    BY <1>6, <1>7, <2>1
  <2>3. Below(q, y, above) => Below(list2, W(y), W(above))
    BY <1>1, <1>4, <2>1, <2>2
  <2> QED
    BY <1>6, <2>1, <2>2, <2>3
<1>8. ASSUME NEW y \in ToSet(q), Below(q, x, y)
      PROVE  Below(list2, W(x), W(y))
  <2>1. y # x /\ ~ Below(q, y, x)
    BY <1>8, BelowFacts
  <2>2. ~ (above # Nothing /\ (y = above \/ Below(q, y, above)))
    BY <1>6, <2>1
  <2>3. ASSUME Below(list2, W(y), W(x))
        PROVE  FALSE
    <3>1. above # Nothing /\ (W(y) = W(above) \/ Below(list2, W(y), W(above)))
      BY <1>6, <2>1, <2>3
    <3>2. y # above /\ ~ Below(q, y, above) /\ above \in ToSet(q)
      BY <1>1, <2>2, <3>1
    <3>3. W(y) # W(above)
      BY <3>2, WindowsApart
    <3>4. Below(q, above, y)
      BY <3>2, BelowFacts
    <3>5. Below(list2, W(above), W(y))
      BY <1>1, <1>4, <2>1, <3>2, <3>4
    <3> QED
      BY <3>1, <3>3, <3>5, BelowFacts
  <2>4. W(x) # W(y) /\ W(x) \in ToSet(list2) /\ W(y) \in ToSet(list2)
    BY <1>1, <1>2, <1>3, <2>1
  <2> QED
    BY <2>3, <2>4, BelowFacts
<1>9. \A y, z \in ToSet(q) : Below(q, y, z) => Below(list2, W(y), W(z))
  <2>1. \A y \in ToSet(q) : ~ Below(q, y, y)
    BY BelowFacts
  <2> QED
    BY <1>4, <1>7, <1>8, <2>1
<1> QED
  BY <1>3, <1>9 DEF Shows

-----------------------------------------------------------------------------
(* What the events under way tell of the server's order                    *)

(* Event e is sent while the order becomes q from p.  Of the plan, the     *)
(* restacks compiz asked for are part already, so these change nothing.    *)
Tells(plan, e, p, q) ==
    /\ e.type = "Create" /\ e.win \in Clients => e.win \notin ToSet(p) /\ q = Append(p, e.win)
    /\ e.type = "Create" => \A c \in Managed : FrameOf[c] = e.win =>
          c \in ToSet(p) /\ e.win \notin ToSet(p) /\ q = ReplaceAll(p, c, e.win)
    /\ e.type = "Destroy" => q = Unhooked(p, e.win)
    /\ e.type = "Configure" /\ e.win \in Managed =>
          /\ e.win \notin ToSet(p) /\ FrameOf[e.win] \in ToSet(p)
          /\ q = ReplaceAll(p, FrameOf[e.win], e.win) /\ e.above = PrevIn(q, e.win)
    /\ e.type = "Configure" /\ e.win \notin Managed =>
          IF plan /\ e.win \in Frames THEN q = p
          ELSE /\ e.win \in ToSet(p) /\ e.above # e.win
               /\ (e.above = Nothing \/ e.above \in ToSet(p))
               /\ q = MovedAbove(p, e.win, e.above) /\ q # p
    /\ e.type \in {"MapRequest", "Unmap"} => q = p

(* The orders before and after each of the events, up to the server's own  *)
Telling(plan, q, r, rt) ==
    /\ \A i \in 0 .. Len(q) : ListOK(r[i])
    /\ r[Len(q)] = rt
    /\ \A i \in 1 .. Len(q) : Tells(plan, q[i], r[i - 1], r[i])

Ahead(q, i, type, w) == \E j \in DOMAIN q : i < j /\ q[j].type = type /\ q[j].win = w

(* A client in a frame is seen inside it once the frame was announced.     *)
FramesSeen(q, r, held) ==
    \A c \in held : \A i \in 0 .. Len(q) :
        IF Ahead(q, i, "Create", FrameOf[c])
        THEN c \in ToSet(r[i]) /\ FrameOf[c] \notin ToSet(r[i])
        ELSE c \notin ToSet(r[i]) /\ FrameOf[c] \in ToSet(r[i])

Waiting(q, as, c) == c \notin as \/ Ahead(q, 0, "MapRequest", c)

(* A client that may still get its frame has been there since it was       *)
(* announced.                                                              *)
ClientsSeen(q, r, as, rt) ==
    \A c \in Managed : Waiting(q, as, c) /\ c \in ToSet(rt) =>
        \A i \in 0 .. Len(q) : c \in ToSet(r[i]) \/ Ahead(q, i, "Create", c)

NotYet(q, r, as, bn) ==
    \A i \in 0 .. Len(q) :
        /\ \A c \in Managed : FrameOf[c] \in ToSet(r[i]) => ~ Waiting(q, as, c)
        /\ ToSet(r[i]) \cap Clients \subseteq bn

Snapshots(plan, q, r, rt, held, as, bn) ==
    /\ q \in Seq(Event) /\ held \subseteq Managed
    /\ Telling(plan, q, r, rt) /\ FramesSeen(q, r, held)
    /\ ClientsSeen(q, r, as, rt) /\ NotYet(q, r, as, bn)

Later(r, q)   == [i \in 0 .. Len(q) - 1 |-> r[i + 1]]
More(r, q, s) == [i \in 0 .. Len(q) + 1 |-> IF i <= Len(q) THEN r[i] ELSE s]

LEMMA AheadOfTail ==
  ASSUME NEW q \in Seq(Event), q # << >>
  PROVE  /\ Tail(q) \in Seq(Event) /\ Len(Tail(q)) = Len(q) - 1 /\ Len(q) \in Nat \ {0}
         /\ \A i \in 1 .. Len(q) - 1 : Tail(q)[i] = q[i + 1]
         /\ \A type, w : \A i \in 0 .. Len(q) - 1 :
               Ahead(Tail(q), i, type, w) <=> Ahead(q, i + 1, type, w)
         /\ \A type, w : Ahead(q, 0, type, w) <=>
               Ahead(Tail(q), 0, type, w) \/ (Head(q).type = type /\ Head(q).win = w)
<1>1. /\ Tail(q) \in Seq(Event) /\ Len(Tail(q)) = Len(q) - 1 /\ Len(q) \in Nat \ {0}
      /\ \A i \in 1 .. Len(q) - 1 : Tail(q)[i] = q[i + 1]
  OBVIOUS
<1>2. Head(q) = q[1] /\ DOMAIN q = 1 .. Len(q) /\ DOMAIN Tail(q) = 1 .. Len(q) - 1
  BY <1>1
<1> DEFINE t == Tail(q)
           m == Len(q)
<1>3. /\ m \in Nat \ {0} /\ DOMAIN q = 1 .. m /\ DOMAIN t = 1 .. m - 1
      /\ \A i \in 1 .. m - 1 : t[i] = q[i + 1]
  BY <1>1, <1>2
<1> HIDE DEF t, m
<1>4. \A j \in 1 .. m : j = 1 \/ (j - 1 \in 1 .. m - 1 /\ (j - 1) + 1 = j)
  BY <1>3
<1>5. \A j \in 1 .. m - 1 : j + 1 \in 1 .. m
  BY <1>3
<1>6. ASSUME NEW type, NEW w, NEW i \in 0 .. m - 1
      PROVE  Ahead(t, i, type, w) <=> Ahead(q, i + 1, type, w)
  <2>1. ASSUME NEW j \in 1 .. m - 1, i < j
        PROVE  j + 1 \in DOMAIN q /\ i + 1 < j + 1 /\ t[j] = q[j + 1]
    BY <1>3, <1>5, <2>1
  <2>2. ASSUME NEW j \in 1 .. m, i + 1 < j
        PROVE  j - 1 \in DOMAIN t /\ i < j - 1 /\ t[j - 1] = q[j]
    <3>1. j # 1 /\ i < j - 1
      BY <1>3, <2>2
    <3>2. j - 1 \in 1 .. m - 1 /\ (j - 1) + 1 = j
      BY <1>4, <3>1
    <3>3. t[j - 1] = q[(j - 1) + 1]
      BY <1>3, <3>2
    <3> QED
      BY <1>3, <3>1, <3>2, <3>3
  <2>3. Ahead(t, i, type, w) => Ahead(q, i + 1, type, w)
    BY <1>3, <2>1 DEF Ahead
  <2>4. Ahead(q, i + 1, type, w) => Ahead(t, i, type, w)
    BY <1>3, <2>2 DEF Ahead
  <2> QED
    BY <2>3, <2>4
<1>7. ASSUME NEW type, NEW w
      PROVE  Ahead(q, 0, type, w) <=>
               Ahead(t, 0, type, w) \/ (q[1].type = type /\ q[1].win = w)
  <2>1. Ahead(t, 0, type, w) <=> Ahead(q, 0 + 1, type, w)
    BY <1>3, <1>6
  <2>2. 0 + 1 = 1
    OBVIOUS
  <2>3. 1 \in DOMAIN q /\ 0 < 1 /\ \A j \in DOMAIN q : 0 < j /\ (j = 1 \/ 1 < j)
    BY <1>3
  <2>4. Ahead(q, 1, type, w) => Ahead(q, 0, type, w)
    BY <2>3 DEF Ahead
  <2>5. q[1].type = type /\ q[1].win = w => Ahead(q, 0, type, w)
    BY <2>3 DEF Ahead
  <2>6. Ahead(q, 0, type, w) => Ahead(q, 1, type, w) \/ (q[1].type = type /\ q[1].win = w)
    BY <2>3 DEF Ahead
  <2> QED
    BY <2>1, <2>2, <2>4, <2>5, <2>6
<1> QED
  BY <1>1, <1>2, <1>6, <1>7 DEF t, m

LEMMA AheadOfMore ==
  ASSUME NEW q \in Seq(Event), NEW e \in Event
  PROVE  /\ Append(q, e) \in Seq(Event) /\ Len(Append(q, e)) = Len(q) + 1 /\ Len(q) \in Nat
         /\ Append(q, e)[Len(q) + 1] = e /\ \A i \in 1 .. Len(q) : Append(q, e)[i] = q[i]
         /\ \A type, w : \A i \in 0 .. Len(q) :
               Ahead(Append(q, e), i, type, w) <=>
                  Ahead(q, i, type, w) \/ (e.type = type /\ e.win = w)
         /\ \A type, w : /\ ~ Ahead(Append(q, e), Len(q) + 1, type, w)
                         /\ ~ Ahead(q, Len(q), type, w)
<1> DEFINE t == Append(q, e)
           m == Len(q)
<1>1. /\ t \in Seq(Event) /\ Len(t) = m + 1 /\ m \in Nat
      /\ t[m + 1] = e /\ \A i \in 1 .. m : t[i] = q[i]
      /\ DOMAIN q = 1 .. m /\ DOMAIN t = 1 .. m + 1
  OBVIOUS
<1> HIDE DEF t, m
<1>2. \A j \in 1 .. m + 1 : j = m + 1 \/ j \in 1 .. m
  BY <1>1
<1>3. \A j \in 1 .. m : j \in 1 .. m + 1
  BY <1>1
<1>4. m + 1 \in 1 .. m + 1 /\ \A i \in 0 .. m : i < m + 1
  BY <1>1
<1>5. ASSUME NEW type, NEW w, NEW i \in 0 .. m
      PROVE  Ahead(t, i, type, w) <=> Ahead(q, i, type, w) \/ (e.type = type /\ e.win = w)
  <2>1. Ahead(q, i, type, w) => Ahead(t, i, type, w)
    BY <1>1, <1>3 DEF Ahead
  <2>2. e.type = type /\ e.win = w => Ahead(t, i, type, w)
    BY <1>1, <1>4 DEF Ahead
  <2>3. Ahead(t, i, type, w) => Ahead(q, i, type, w) \/ (e.type = type /\ e.win = w)
    BY <1>1, <1>2 DEF Ahead
  <2> QED
    BY <2>1, <2>2, <2>3
<1>6. \A j \in 1 .. m + 1 : ~ (m + 1 < j)
  BY <1>1
<1>7. \A j \in 1 .. m : ~ (m < j)
  BY <1>1
<1>8. \A type, w : ~ Ahead(t, m + 1, type, w) /\ ~ Ahead(q, m, type, w)
  BY <1>1, <1>6, <1>7 DEF Ahead
<1> QED
  BY <1>1, <1>5, <1>8 DEF t, m

(* compiz reads an event.                                                  *)
LEMMA SnapshotsLater ==
  ASSUME NEW plan, NEW q, NEW r, NEW rt, NEW held, NEW as, NEW bn,
         Snapshots(plan, q, r, rt, held, as, bn), q # << >>
  PROVE  /\ Snapshots(plan, Tail(q), Later(r, q), rt, held, as, bn)
         /\ Tells(plan, Head(q), r[0], r[1]) /\ Later(r, q)[0] = r[1]
         /\ ListOK(r[0]) /\ ListOK(r[1])
<1> DEFINE t == Tail(q)
           l == Later(r, q)
           m == Len(q)
<1>0. q \in Seq(Event) /\ held \subseteq Managed
  BY DEF Snapshots
<1>1. /\ t \in Seq(Event) /\ Len(t) = m - 1 /\ m \in Nat \ {0}
      /\ \A i \in 1 .. m - 1 : t[i] = q[i + 1]
      /\ \A type, w : \A i \in 0 .. m - 1 : Ahead(t, i, type, w) <=> Ahead(q, i + 1, type, w)
      /\ \A type, w : Ahead(t, 0, type, w) => Ahead(q, 0, type, w)
  BY <1>0, AheadOfTail
<1>2. \A i \in 0 .. m - 1 : l[i] = r[i + 1]
  BY DEF Later
<1>3. Head(q) = q[1]
  BY <1>0
<1>4. /\ \A i \in 0 .. m - 1 : i + 1 \in 0 .. m /\ i + 1 \in 1 .. m
      /\ m - 1 \in 0 .. m - 1 /\ (m - 1) + 1 = m /\ 0 \in 0 .. m - 1 /\ 0 + 1 = 1
      /\ 0 \in 0 .. m /\ 1 \in 0 .. m /\ 1 \in 1 .. m /\ 1 - 1 = 0
      /\ \A i \in 1 .. m - 1 : i - 1 \in 0 .. m - 1 /\ i \in 0 .. m - 1
                               /\ (i - 1) + 1 = (i + 1) - 1
  BY <1>1
<1>5. /\ \A i \in 0 .. m : ListOK(r[i])
      /\ r[m] = rt
      /\ \A i \in 1 .. m : Tells(plan, q[i], r[i - 1], r[i])
  BY DEF Snapshots, Telling
<1> HIDE DEF t, l, m
<1>6. Telling(plan, t, l, rt)
  <2>1. \A i \in 0 .. m - 1 : ListOK(l[i])
    BY <1>2, <1>4, <1>5
  <2>2. l[m - 1] = rt
    BY <1>2, <1>4, <1>5
  <2>3. ASSUME NEW i \in 1 .. m - 1
        PROVE  Tells(plan, t[i], l[i - 1], l[i])
    <3>1. Tells(plan, q[i + 1], r[(i + 1) - 1], r[i + 1])
      BY <1>4, <1>5
    <3>2. t[i] = q[i + 1] /\ l[i - 1] = r[(i + 1) - 1] /\ l[i] = r[i + 1]
      BY <1>1, <1>2, <1>4
    <3> QED
      BY <3>1, <3>2
  <2> QED
    BY <1>1, <2>1, <2>2, <2>3 DEF Telling
<1>7. FramesSeen(t, l, held)
  <2> SUFFICES ASSUME NEW c \in held, NEW i \in 0 .. m - 1
               PROVE  IF Ahead(t, i, "Create", FrameOf[c])
                      THEN c \in ToSet(l[i]) /\ FrameOf[c] \notin ToSet(l[i])
                      ELSE c \notin ToSet(l[i]) /\ FrameOf[c] \in ToSet(l[i])
    BY <1>1 DEF FramesSeen
  <2>1. i + 1 \in 0 .. m /\ l[i] = r[i + 1]
    BY <1>2, <1>4
  <2>2. Ahead(t, i, "Create", FrameOf[c]) <=> Ahead(q, i + 1, "Create", FrameOf[c])
    BY <1>1
  <2> QED
    BY <2>1, <2>2 DEF Snapshots, FramesSeen, m
<1>8. \A c : Waiting(t, as, c) => Waiting(q, as, c)
  BY <1>1 DEF Waiting
<1>9. ClientsSeen(t, l, as, rt)
  <2> SUFFICES ASSUME NEW c \in Managed, Waiting(t, as, c), c \in ToSet(rt),
                      NEW i \in 0 .. m - 1
               PROVE  c \in ToSet(l[i]) \/ Ahead(t, i, "Create", c)
    BY <1>1 DEF ClientsSeen
  <2>1. i + 1 \in 0 .. m /\ l[i] = r[i + 1]
    BY <1>2, <1>4
  <2>2. Ahead(t, i, "Create", c) <=> Ahead(q, i + 1, "Create", c)
    BY <1>1
  <2> QED
    BY <1>8, <2>1, <2>2 DEF Snapshots, ClientsSeen, m
<1>10. NotYet(t, l, as, bn)
  <2> SUFFICES ASSUME NEW i \in 0 .. m - 1
               PROVE  /\ \A c \in Managed : FrameOf[c] \in ToSet(l[i]) => ~ Waiting(t, as, c)
                      /\ ToSet(l[i]) \cap Clients \subseteq bn
    BY <1>1 DEF NotYet
  <2>1. i + 1 \in 0 .. m /\ l[i] = r[i + 1]
    BY <1>2, <1>4
  <2> QED
    BY <1>8, <2>1 DEF Snapshots, NotYet, m
<1>11. Tells(plan, q[1], r[0], r[1]) /\ l[0] = r[1] /\ ListOK(r[0]) /\ ListOK(r[1])
  <2>1. Tells(plan, q[1], r[1 - 1], r[1])
    BY <1>4, <1>5
  <2>2. l[0] = r[0 + 1]
    BY <1>2, <1>4
  <2> QED
    BY <1>4, <1>5, <2>1, <2>2
<1> QED
  BY <1>0, <1>1, <1>3, <1>6, <1>7, <1>9, <1>10, <1>11 DEF Snapshots, t, l

(* The server sends one, after its order became rt2.                       *)
LEMMA SnapshotsMore ==
  ASSUME NEW plan, NEW q, NEW r, NEW rt, NEW held, NEW as, NEW bn,
         Snapshots(plan, q, r, rt, held, as, bn),
         NEW e \in Event, NEW rt2, ListOK(rt2), Tells(plan, e, rt, rt2), NEW as2, NEW bn2,
         \A c \in held : FrameOf[c] \in ToSet(rt2) /\ c \notin ToSet(rt2)
                         /\ (e.type = "Create" => e.win # FrameOf[c]),
         \A c \in Managed : Waiting(Append(q, e), as2, c) => Waiting(q, as, c),
         \A c \in Managed : Waiting(Append(q, e), as2, c) /\ c \in ToSet(rt2) =>
             c \in ToSet(rt) \/ (e.type = "Create" /\ e.win = c),
         \A c \in Managed : FrameOf[c] \in ToSet(rt2) => ~ Waiting(Append(q, e), as2, c),
         bn \subseteq bn2, ToSet(rt2) \cap Clients \subseteq bn2
  PROVE  Snapshots(plan, Append(q, e), More(r, q, rt2), rt2, held, as2, bn2)
<1> DEFINE t == Append(q, e)
           l == More(r, q, rt2)
           m == Len(q)
<1>0. q \in Seq(Event) /\ held \subseteq Managed
  BY DEF Snapshots
<1>1. /\ t \in Seq(Event) /\ Len(t) = m + 1 /\ m \in Nat
      /\ t[m + 1] = e /\ \A i \in 1 .. m : t[i] = q[i]
      /\ \A type, w : \A i \in 0 .. m :
            Ahead(t, i, type, w) <=> Ahead(q, i, type, w) \/ (e.type = type /\ e.win = w)
      /\ \A type, w : ~ Ahead(t, m + 1, type, w)
      /\ \A type, w : ~ Ahead(q, m, type, w)
  BY <1>0, AheadOfMore
<1>2. /\ \A i \in 0 .. m + 1 : i \in 0 .. m \/ i = m + 1
      /\ \A i \in 0 .. m : l[i] = r[i]
      /\ l[m + 1] = rt2
  <2>1. \A i \in 0 .. m : i \in 0 .. m + 1 /\ i <= m
    BY <1>1
  <2>2. m + 1 \in 0 .. m + 1 /\ ~ (m + 1 <= m)
    BY <1>1
  <2>3. \A i \in 0 .. m + 1 : i \in 0 .. m \/ i = m + 1
    BY <1>1
  <2> QED
    BY <2>1, <2>2, <2>3 DEF More
<1>3. m \in 0 .. m /\ \A i \in 1 .. m : i - 1 \in 0 .. m /\ i \in 0 .. m
  BY <1>1
<1>4. /\ \A i \in 0 .. m : ListOK(r[i])
      /\ r[m] = rt
      /\ \A i \in 1 .. m : Tells(plan, q[i], r[i - 1], r[i])
  BY DEF Snapshots, Telling
<1>5. \A c \in Managed : Waiting(t, as2, c) => Waiting(q, as, c)
  OBVIOUS
<1>6. \A c \in Managed : Waiting(t, as2, c) /\ c \in ToSet(rt2) =>
             c \in ToSet(rt) \/ (e.type = "Create" /\ e.win = c)
  OBVIOUS
<1>7. \A c \in Managed : FrameOf[c] \in ToSet(rt2) => ~ Waiting(t, as2, c)
  OBVIOUS
<1>8. /\ FramesSeen(q, r, held) /\ ClientsSeen(q, r, as, rt) /\ NotYet(q, r, as, bn)
  BY DEF Snapshots
<1> HIDE DEF t, l
<1>9. Telling(plan, t, l, rt2)
  <2>1. \A i \in 0 .. m + 1 : ListOK(l[i])
    BY <1>2, <1>4
  <2>2. ASSUME NEW i \in 1 .. m + 1
        PROVE  Tells(plan, t[i], l[i - 1], l[i])
    <3>1. i \in 1 .. m \/ i = m + 1
      BY <1>1
    <3>2. i \in 1 .. m => Tells(plan, t[i], l[i - 1], l[i])
      BY <1>1, <1>2, <1>3, <1>4
    <3>3. (m + 1) - 1 = m
      BY <1>1
    <3>4. i = m + 1 => Tells(plan, t[i], l[i - 1], l[i])
      BY <1>1, <1>2, <1>3, <1>4, <3>3
    <3> QED
      BY <3>1, <3>2, <3>4
  <2> QED
    BY <1>1, <1>2, <2>1, <2>2 DEF Telling
<1>10. FramesSeen(t, l, held)
  <2> SUFFICES ASSUME NEW c \in held, NEW i \in 0 .. m + 1
               PROVE  IF Ahead(t, i, "Create", FrameOf[c])
                      THEN c \in ToSet(l[i]) /\ FrameOf[c] \notin ToSet(l[i])
                      ELSE c \notin ToSet(l[i]) /\ FrameOf[c] \in ToSet(l[i])
    BY <1>1 DEF FramesSeen
  <2>1. CASE i = m + 1
    BY <1>1, <1>2, <2>1
  <2>2. CASE i \in 0 .. m
    <3>1. Ahead(t, i, "Create", FrameOf[c]) <=> Ahead(q, i, "Create", FrameOf[c])
      BY <1>1, <2>2
    <3> QED
      BY <1>2, <1>8, <2>2, <3>1 DEF FramesSeen
  <2> QED
    BY <1>2, <2>1, <2>2
<1>11. ClientsSeen(t, l, as2, rt2)
  <2> SUFFICES ASSUME NEW c \in Managed, Waiting(t, as2, c), c \in ToSet(rt2),
                      NEW i \in 0 .. m + 1
               PROVE  c \in ToSet(l[i]) \/ Ahead(t, i, "Create", c)
    BY <1>1 DEF ClientsSeen
  <2>1. CASE i = m + 1
    BY <1>2, <2>1
  <2>2. CASE i \in 0 .. m
    <3>1. CASE e.type = "Create" /\ e.win = c
      BY <1>1, <2>2, <3>1
    <3>2. CASE c \in ToSet(rt)
      <4>1. c \in ToSet(r[i]) \/ Ahead(q, i, "Create", c)
        BY <1>5, <1>8, <2>2, <3>2 DEF ClientsSeen
      <4> QED
        BY <1>1, <1>2, <2>2, <4>1
    <3> QED
      BY <1>6, <3>1, <3>2
  <2> QED
    BY <1>2, <2>1, <2>2
<1>12. NotYet(t, l, as2, bn2)
  <2> SUFFICES ASSUME NEW i \in 0 .. m + 1
               PROVE  /\ \A c \in Managed : FrameOf[c] \in ToSet(l[i]) => ~ Waiting(t, as2, c)
                      /\ ToSet(l[i]) \cap Clients \subseteq bn2
    BY <1>1 DEF NotYet
  <2>1. CASE i = m + 1
    BY <1>2, <1>7, <2>1
  <2>2. CASE i \in 0 .. m
    BY <1>2, <1>5, <1>8, <2>2 DEF NotYet
  <2> QED
    BY <1>2, <2>1, <2>2
<1> QED
  BY <1>0, <1>1, <1>9, <1>10, <1>11, <1>12 DEF Snapshots, t, l

LEMMA SnapshotsLast ==
  ASSUME NEW plan, NEW q, NEW r, NEW rt, NEW held, NEW as, NEW bn,
         Snapshots(plan, q, r, rt, held, as, bn)
  PROVE  /\ ListOK(rt) /\ ListOK(r[0]) /\ r[Len(q)] = rt
         /\ \A c \in held : FrameOf[c] \in ToSet(rt) /\ c \notin ToSet(rt)
         /\ \A c \in Managed : FrameOf[c] \in ToSet(rt) => ~ Waiting(q, as, c)
         /\ ToSet(rt) \cap Clients \subseteq bn
         /\ \A c \in held : IF Ahead(q, 0, "Create", FrameOf[c])
                            THEN c \in ToSet(r[0]) /\ FrameOf[c] \notin ToSet(r[0])
                            ELSE c \notin ToSet(r[0]) /\ FrameOf[c] \in ToSet(r[0])
         /\ Apart(r[0], held)
<1> DEFINE m == Len(q)
<1>1. q \in Seq(Event) /\ m \in Nat
  BY DEF Snapshots
<1>2. m \in 0 .. m /\ 0 \in 0 .. m /\ \A i \in 1 .. m : ~ (m < i)
  BY <1>1
<1>3. DOMAIN q = 1 .. m
  BY <1>1
<1>4. \A type, w : ~ Ahead(q, m, type, w)
  BY <1>2, <1>3 DEF Ahead
<1>5. \A i \in 0 .. m : ListOK(r[i]) /\ r[m] = rt
  BY DEF Snapshots, Telling
<1> HIDE DEF m
<1>6. \A c \in held : FrameOf[c] \in ToSet(r[m]) /\ c \notin ToSet(r[m])
  BY <1>2, <1>4 DEF Snapshots, FramesSeen, m
<1>7. /\ \A c \in Managed : FrameOf[c] \in ToSet(r[m]) => ~ Waiting(q, as, c)
      /\ ToSet(r[m]) \cap Clients \subseteq bn
  BY <1>2 DEF Snapshots, NotYet, m
<1>8. \A c \in held : IF Ahead(q, 0, "Create", FrameOf[c])
                      THEN c \in ToSet(r[0]) /\ FrameOf[c] \notin ToSet(r[0])
                      ELSE c \notin ToSet(r[0]) /\ FrameOf[c] \in ToSet(r[0])
  BY <1>2 DEF Snapshots, FramesSeen, m
<1> QED
  BY <1>2, <1>5, <1>6, <1>7, <1>8 DEF Apart, m

LEMMA SnapshotsFewer ==
  ASSUME NEW plan, NEW q, NEW r, NEW rt, NEW held, NEW as, NEW bn,
         Snapshots(plan, q, r, rt, held, as, bn), NEW held2 \in SUBSET held
  PROVE  Snapshots(plan, q, r, rt, held2, as, bn)
BY DEF Snapshots, FramesSeen

(* A client that waited is given its frame.                                *)
LEMMA SnapshotsFramed ==
  ASSUME NEW plan, NEW q, NEW r, NEW rt, NEW held, NEW as, NEW bn,
         Snapshots(plan, q, r, rt, held, as, bn),
         NEW c \in Managed \ held, c \in ToSet(rt), FrameOf[c] \notin ToSet(rt),
         ~ Waiting(q, as, c), \A i \in 0 .. Len(q) :
            c \in ToSet(r[i]) /\ FrameOf[c] \notin ToSet(r[i])
  PROVE  LET e   == [type |-> "Create", win |-> FrameOf[c]]
             rt2 == ReplaceAll(rt, c, FrameOf[c])
         IN  Snapshots(plan, Append(q, e), More(r, q, rt2), rt2, held \cup {c}, as, bn)
<1> DEFINE e   == [type |-> "Create", win |-> FrameOf[c]]
           rt2 == ReplaceAll(rt, c, FrameOf[c])
           t == Append(q, e)
           l == More(r, q, rt2)
<1>0. /\ ListOK(rt) /\ q \in Seq(Event) /\ held \subseteq Managed /\ Len(q) \in Nat
      /\ \A d \in held : FrameOf[d] \in ToSet(rt) /\ d \notin ToSet(rt)
      /\ \A d \in Managed : FrameOf[d] \in ToSet(rt) => ~ Waiting(q, as, d)
      /\ ToSet(rt) \cap Clients \subseteq bn
  <2>1. q \in Seq(Event) /\ held \subseteq Managed
    BY DEF Snapshots
  <2>2. Len(q) \in Nat
    BY <2>1
  <2> HIDE DEF e, rt2, t, l
  <2>3. /\ ListOK(rt)
        /\ \A d \in held : FrameOf[d] \in ToSet(rt) /\ d \notin ToSet(rt)
        /\ \A d \in Managed : FrameOf[d] \in ToSet(rt) => ~ Waiting(q, as, d)
        /\ ToSet(rt) \cap Clients \subseteq bn
    BY SnapshotsLast
  <2> QED
    BY <2>1, <2>2, <2>3
<1>1. e \in Event /\ e.type = "Create" /\ e.win = FrameOf[c] /\ FrameOf[c] \notin Clients
  BY EventShapes, FrameIds
<1>2. ListOK(rt2) /\ ToSet(rt2) = (ToSet(rt) \ {c}) \cup {FrameOf[c]}
  BY <1>0, FrameIds, ReplacedOrder
<1>3. Tells(plan, e, rt, rt2)
  <2>1. \A d \in Managed : FrameOf[d] = e.win => d = c
    BY <1>1, FrameIds
  <2> QED
    BY <1>1, <2>1 DEF Tells
<1> HIDE DEF e, rt2
<1>4. \A d : Waiting(t, as, d) <=> Waiting(q, as, d)
  <2>1. \A d : Ahead(t, 0, "MapRequest", d) <=> Ahead(q, 0, "MapRequest", d)
    <3>1. 0 \in 0 .. Len(q)
      BY <1>0
    <3>2. \A d : Ahead(t, 0, "MapRequest", d) <=>
                    Ahead(q, 0, "MapRequest", d) \/ (e.type = "MapRequest" /\ e.win = d)
      BY <1>0, <1>1, <3>1, AheadOfMore
    <3> QED
      BY <1>1, <3>2
  <2> QED
    BY <2>1 DEF Waiting
<1>5. \A d \in held : FrameOf[d] \in ToSet(rt2) /\ d \notin ToSet(rt2)
                      /\ (e.type = "Create" => e.win # FrameOf[d])
  <2> SUFFICES ASSUME NEW d \in held
               PROVE  FrameOf[d] \in ToSet(rt2) /\ d \notin ToSet(rt2) /\ FrameOf[c] # FrameOf[d]
    BY <1>1
  <2>1. d \in Managed /\ d # c
    BY <1>0
  <2>2. FrameOf[c] # FrameOf[d] /\ d # FrameOf[c] /\ FrameOf[d] # c
    BY <2>1, FrameIds
  <2> QED
    BY <1>0, <1>2, <2>2
<1>6. \A d \in Managed : FrameOf[d] \in ToSet(rt2) => ~ Waiting(t, as, d)
  <2> SUFFICES ASSUME NEW d \in Managed, FrameOf[d] \in ToSet(rt2)
               PROVE  ~ Waiting(q, as, d)
    BY <1>4
  <2>1. CASE FrameOf[d] = FrameOf[c]
    BY <2>1, FrameIds
  <2>2. CASE FrameOf[d] # FrameOf[c]
    BY <1>0, <1>2, <2>2
  <2> QED
    BY <2>1, <2>2
<1>7. ToSet(rt2) \cap Clients \subseteq bn
  BY <1>0, <1>1, <1>2
<1>8. \A d \in Managed : Waiting(t, as, d) /\ d \in ToSet(rt2) => d \in ToSet(rt)
  BY <1>2, FrameIds
<1>9. Snapshots(plan, t, l, rt2, held, as, bn)
  BY <1>1, <1>2, <1>3, <1>4, <1>5, <1>6, <1>7, <1>8, SnapshotsMore
<1>10. /\ Len(t) = Len(q) + 1
       /\ \A i \in 0 .. Len(q) : Ahead(t, i, "Create", FrameOf[c])
       /\ ~ Ahead(t, Len(q) + 1, "Create", FrameOf[c])
  <2>1. /\ Len(t) = Len(q) + 1
        /\ \A type, w : \A i \in 0 .. Len(q) : Ahead(t, i, type, w) <=>
               Ahead(q, i, type, w) \/ (e.type = type /\ e.win = w)
        /\ \A type, w : ~ Ahead(t, Len(q) + 1, type, w)
    BY <1>0, <1>1, AheadOfMore
  <2> QED
    BY <1>1, <2>1
<1>11. /\ \A i \in 0 .. Len(q) + 1 : i \in 0 .. Len(q) \/ i = Len(q) + 1
       /\ \A i \in 0 .. Len(q) : l[i] = r[i]
       /\ l[Len(q) + 1] = rt2
  <2>1. \A i \in 0 .. Len(q) : i \in 0 .. Len(q) + 1 /\ i <= Len(q)
    BY <1>0
  <2>2. Len(q) + 1 \in 0 .. Len(q) + 1 /\ ~ (Len(q) + 1 <= Len(q))
    BY <1>0
  <2>3. \A i \in 0 .. Len(q) + 1 : i \in 0 .. Len(q) \/ i = Len(q) + 1
    BY <1>0
  <2> QED
    BY <2>1, <2>2, <2>3 DEF More
<1> HIDE DEF l, t
<1>12. ASSUME NEW i \in 0 .. Len(t)
       PROVE  IF Ahead(t, i, "Create", FrameOf[c])
              THEN c \in ToSet(l[i]) /\ FrameOf[c] \notin ToSet(l[i])
              ELSE c \notin ToSet(l[i]) /\ FrameOf[c] \in ToSet(l[i])
  <2>1. CASE i \in 0 .. Len(q)
    BY <1>10, <1>11, <2>1
  <2>2. CASE i = Len(q) + 1
    <3>1. c # FrameOf[c]
      BY FrameIds
    <3> QED
      BY <1>2, <1>10, <1>11, <2>2, <3>1
  <2> QED
    BY <1>10, <1>11, <2>1, <2>2
<1>13. FramesSeen(t, l, held \cup {c})
  BY <1>9, <1>12 DEF Snapshots, FramesSeen
<1>14. held \cup {c} \subseteq Managed
  BY <1>0
<1> QED
  BY <1>9, <1>13, <1>14 DEF Snapshots, t, l, e, rt2

-----------------------------------------------------------------------------
(* Orders that compiz has heard of, and will hear of                       *)

(* A window that is not in the order p compiz has heard of will go, or     *)
(* come back to it out of its frame.                                       *)
Explained(q, p, list, held) ==
    \A w \in ToSet(list) :
        \/ w \in ToSet(p) \/ w \in held \/ Ahead(q, 0, "Destroy", w)
        \/ w \in Managed /\ Ahead(q, 0, "Configure", w)

Heard(plan, q, rt, list, held, as, bn) ==
    \E r : /\ Snapshots(plan, q, r, rt, held, as, bn)
           /\ Shows(r[0], list, held) /\ Explained(q, r[0], list, held)

Told == Heard(FALSE, events, root, windows, framed, asked, born)

LEMMA HeardFacts ==
  ASSUME NEW plan, NEW q, NEW rt, NEW list, NEW held, NEW as, NEW bn,
         Heard(plan, q, rt, list, held, as, bn)
  PROVE  /\ q \in Seq(Event) /\ held \subseteq Managed /\ ListOK(rt)
         /\ held \subseteq ToSet(list)
         /\ \A c \in held : FrameOf[c] \in ToSet(rt) /\ c \notin ToSet(rt)
         /\ \A c \in Managed : FrameOf[c] \in ToSet(rt) => ~ Waiting(q, as, c)
         /\ ToSet(rt) \cap Clients \subseteq bn
<1>1. PICK r : Snapshots(plan, q, r, rt, held, as, bn) /\ Shows(r[0], list, held)
  BY DEF Heard
<1>2. q \in Seq(Event) /\ held \in SUBSET Managed
  BY <1>1 DEF Snapshots
<1>3. /\ ListOK(rt)
      /\ \A c \in held : FrameOf[c] \in ToSet(rt) /\ c \notin ToSet(rt)
      /\ \A c \in Managed : FrameOf[c] \in ToSet(rt) => ~ Waiting(q, as, c)
      /\ ToSet(rt) \cap Clients \subseteq bn
  BY <1>1, SnapshotsLast
<1>4. \A c \in held : c \in ToSet(r[0]) \/ FrameOf[c] \in ToSet(r[0])
  BY <1>1, SnapshotsLast
<1>5. \A c \in held : WindowIn(c, held) = c /\ WindowIn(FrameOf[c], held) = c
  BY <1>2, WindowIs, FrameIds
<1>6. held \subseteq ToSet(list)
  BY <1>1, <1>4, <1>5 DEF Shows
<1> QED
  BY <1>2, <1>3, <1>6

LEMMA HeardMore ==
  ASSUME NEW plan, NEW q, NEW rt, NEW list, NEW held, NEW as, NEW bn,
         Heard(plan, q, rt, list, held, as, bn),
         NEW e \in Event, NEW rt2, ListOK(rt2), Tells(plan, e, rt, rt2), NEW as2, NEW bn2,
         \A c \in held : FrameOf[c] \in ToSet(rt2) /\ c \notin ToSet(rt2)
                         /\ (e.type = "Create" => e.win # FrameOf[c]),
         \A c \in Managed : Waiting(Append(q, e), as2, c) => Waiting(q, as, c),
         \A c \in Managed : Waiting(Append(q, e), as2, c) /\ c \in ToSet(rt2) =>
             c \in ToSet(rt) \/ (e.type = "Create" /\ e.win = c),
         \A c \in Managed : FrameOf[c] \in ToSet(rt2) => ~ Waiting(Append(q, e), as2, c),
         bn \subseteq bn2, ToSet(rt2) \cap Clients \subseteq bn2
  PROVE  Heard(plan, Append(q, e), rt2, list, held, as2, bn2)
<1>1. PICK r : /\ Snapshots(plan, q, r, rt, held, as, bn)
               /\ Shows(r[0], list, held) /\ Explained(q, r[0], list, held)
  BY DEF Heard
<1> DEFINE l == More(r, q, rt2)
<1>2. Snapshots(plan, Append(q, e), l, rt2, held, as2, bn2)
  BY <1>1, SnapshotsMore
<1>3. q \in Seq(Event) /\ Len(q) \in Nat
  BY <1>1 DEF Snapshots
<1>4. l[0] = r[0]
  <2>1. 0 \in 0 .. Len(q) + 1 /\ 0 <= Len(q)
    BY <1>3
  <2> QED
    BY <2>1 DEF More
<1>5. \A type, w : Ahead(q, 0, type, w) => Ahead(Append(q, e), 0, type, w)
  <2>1. 0 \in 0 .. Len(q)
    BY <1>3
  <2> QED
    BY <1>3, <2>1, AheadOfMore
<1>6. Explained(Append(q, e), r[0], list, held)
  BY <1>1, <1>5 DEF Explained
<1> HIDE DEF l
<1> QED
  BY <1>1, <1>2, <1>4, <1>6 DEF Heard

(* An event that announces nothing and asks for nothing.                   *)
LEMMA WaitingSame ==
  ASSUME NEW q \in Seq(Event), NEW e \in Event, e.type # "MapRequest", NEW as, NEW c
  PROVE  Waiting(Append(q, e), as, c) <=> Waiting(q, as, c)
<1>1. 0 \in 0 .. Len(q)
  OBVIOUS
<1>2. Ahead(Append(q, e), 0, "MapRequest", c) <=>
         Ahead(q, 0, "MapRequest", c) \/ (e.type = "MapRequest" /\ e.win = c)
  BY <1>1, AheadOfMore
<1> QED
  BY <1>2 DEF Waiting

LEMMA HeardQuietly ==
  ASSUME NEW plan, NEW q, NEW rt, NEW list, NEW held, NEW as, NEW bn,
         Heard(plan, q, rt, list, held, as, bn),
         NEW e \in Event, e.type \notin {"Create", "MapRequest"},
         NEW rt2, ListOK(rt2), Tells(plan, e, rt, rt2), ToSet(rt2) \subseteq ToSet(rt),
         ToSet(rt) \cap Frames \subseteq ToSet(rt2)
  PROVE  Heard(plan, Append(q, e), rt2, list, held, as, bn)
<1>1. /\ q \in Seq(Event) /\ held \subseteq Managed
      /\ \A c \in held : FrameOf[c] \in ToSet(rt) /\ c \notin ToSet(rt)
      /\ \A c \in Managed : FrameOf[c] \in ToSet(rt) => ~ Waiting(q, as, c)
      /\ ToSet(rt) \cap Clients \subseteq bn
  BY HeardFacts
<1>2. \A c : Waiting(Append(q, e), as, c) <=> Waiting(q, as, c)
  BY <1>1, WaitingSame
<1>3. \A c \in held : FrameOf[c] \in ToSet(rt2) /\ c \notin ToSet(rt2)
                      /\ (e.type = "Create" => e.win # FrameOf[c])
  BY <1>1, FrameIds
<1> QED
  BY <1>1, <1>2, <1>3, HeardMore

LEMMA ClientCreatesHeard ==
  ASSUME StackInv, Told, NEW plan, NEW list,
         Heard(plan, events, root, list, framed, asked, born),
         NEW c \in Clients, ClientCreates(c)
  PROVE  Heard(plan, events', root', list, framed', asked', born')
<1> DEFINE e == [type |-> "Create", win |-> c]
<1>1. /\ c \in Clients \ born /\ born' = born \cup {c} /\ root' = Append(root, c)
      /\ events' = Append(events, e)
      /\ UNCHANGED <<framed, asked>>
  BY DEF ClientCreates, listVars
<1>2. c \notin ToSet(root) /\ c \notin ToSet(windows) /\ c \in Ids
  BY <1>1, InvFacts DEF NotBorn, Unheard, Listed, Ids
<1>3. /\ events \in Seq(Event) /\ framed \subseteq Managed /\ ListOK(root)
      /\ framed \subseteq ToSet(windows)
      /\ \A d \in framed : FrameOf[d] \in ToSet(root) /\ d \notin ToSet(root)
      /\ \A d \in Managed : FrameOf[d] \in ToSet(root) => ~ Waiting(events, asked, d)
      /\ ToSet(root) \cap Clients \subseteq born
  <2>1. Heard(FALSE, events, root, windows, framed, asked, born)
    BY DEF Told
  <2> QED
    BY <2>1, HeardFacts, ZenonT(60)
<1>4. e \in Event /\ e.type = "Create" /\ e.win = c
  BY <1>2, EventShapes
<1>5. ListOK(root') /\ ToSet(root') = ToSet(root) \cup {c}
  BY <1>1, <1>2, <1>3, AppendedOrder
<1>6. \A d \in Managed : FrameOf[d] # c
  BY FrameIds
<1>7. Tells(plan, e, root, root')
  BY <1>1, <1>2, <1>4, <1>6 DEF Tells
<1>8. \A d : Waiting(Append(events, e), asked, d) <=> Waiting(events, asked, d)
  BY <1>3, <1>4, WaitingSame
<1> HIDE DEF e
<1>9. \A d \in framed : FrameOf[d] \in ToSet(root') /\ d \notin ToSet(root')
                      /\ (e.type = "Create" => e.win # FrameOf[d])
  BY <1>2, <1>3, <1>4, <1>5, <1>6
<1>10. \A d \in Managed : FrameOf[d] \in ToSet(root') => ~ Waiting(Append(events, e), asked, d)
  BY <1>3, <1>5, <1>6, <1>8
<1>11. \A d \in Managed : Waiting(Append(events, e), asked, d) /\ d \in ToSet(root') =>
             d \in ToSet(root) \/ (e.type = "Create" /\ e.win = d)
  BY <1>4, <1>5
<1>12. ToSet(root') \cap Clients \subseteq born' /\ born \subseteq born'
  BY <1>1, <1>3, <1>5
<1>13. Heard(plan, Append(events, e), root', list, framed, asked, born')
  BY <1>4, <1>5, <1>7, <1>8, <1>9, <1>10, <1>11, <1>12, HeardMore
<1> QED
  BY <1>1, <1>13 DEF e

LEMMA ClientMapsHeard ==
  ASSUME StackInv, NEW plan, NEW list,
         Heard(plan, events, root, list, framed, asked, born),
         NEW c \in Clients, ClientMaps(c)
  PROVE  Heard(plan, events', root', list, framed', asked', born')
<1> DEFINE e == [type |-> "MapRequest", win |-> c]
<1>1. /\ c \in Managed \ asked /\ asked' = asked \cup {c} /\ events' = Append(events, e)
      /\ UNCHANGED <<root, framed, born>>
  BY DEF ClientMaps, listVars
<1>2. /\ events \in Seq(Event) /\ ListOK(root)
      /\ \A d \in framed : FrameOf[d] \in ToSet(root) /\ d \notin ToSet(root)
      /\ \A d \in Managed : FrameOf[d] \in ToSet(root) => ~ Waiting(events, asked, d)
      /\ ToSet(root) \cap Clients \subseteq born
  BY HeardFacts
<1>3. e \in Event /\ e.type = "MapRequest" /\ e.win = c
  BY <1>1, FrameIds, EventShapes
<1> HIDE DEF e
<1>4. Tells(plan, e, root, root)
  BY <1>3 DEF Tells
<1>5. \A d : Waiting(Append(events, e), asked', d) => Waiting(events, asked, d)
  <2>1. 0 \in 0 .. Len(events)
    BY <1>2
  <2>2. \A d : Ahead(Append(events, e), 0, "MapRequest", d) <=>
           Ahead(events, 0, "MapRequest", d) \/ (e.type = "MapRequest" /\ e.win = d)
    BY <1>2, <1>3, <2>1, AheadOfMore
  <2> QED
    BY <1>1, <1>3, <2>2 DEF Waiting
<1>6. Heard(plan, Append(events, e), root, list, framed, asked', born)
  BY <1>2, <1>3, <1>4, <1>5, HeardMore
<1> QED
  BY <1>1, <1>6 DEF e

LEMMA ClientUnmapsHeard ==
  ASSUME StackInv, NEW plan, NEW list,
         Heard(plan, events, root, list, framed, asked, born),
         NEW c \in Clients, ClientUnmaps(c)
  PROVE  Heard(plan, events', root', list, framed', asked', born')
<1> DEFINE e == [type |-> "Unmap", win |-> c]
<1>1. events' = Append(events, e) /\ UNCHANGED <<root, framed, asked, born>>
  BY DEF ClientUnmaps, listVars
<1>2. e \in Event /\ e.type = "Unmap"
  BY EventShapes DEF Ids
<1> HIDE DEF e
<1>3. Tells(plan, e, root, root) /\ ListOK(root)
  BY <1>2, HeardFacts DEF Tells
<1>4. Heard(plan, Append(events, e), root, list, framed, asked, born)
  BY <1>2, <1>3, HeardQuietly
<1> QED
  BY <1>1, <1>4 DEF e

(* A move the server reports of itself                                     *)
LEMMA MoveTells ==
  ASSUME NEW plan, NEW p, ListOK(p), NEW x \in ToSet(p), x \notin Managed, NEW above, above # x,
         above = Nothing \/ above \in ToSet(p), MovedAbove(p, x, above) # p, NEW n,
         ~ plan \/ x \notin Frames
  PROVE  Tells(plan, Configure(MovedAbove(p, x, above), x, n), p, MovedAbove(p, x, above))
<1> DEFINE q == MovedAbove(p, x, above)
           e == Configure(q, x, n)
<1>1. ListOK(q) /\ Sits(q, x, above)
  BY MovedOrder
<1>2. PrevIn(q, x) = above
  BY <1>1, SitsIsPrev
<1>3. e.type = "Configure" /\ e.win = x /\ e.above = above
  BY <1>2 DEF Configure
<1> QED
  BY <1>3 DEF Tells

LEMMA OverrideMovesHeard ==
  ASSUME StackInv, NEW plan, NEW list,
         Heard(plan, events, root, list, framed, asked, born),
         NEW o \in Overrides, NEW above \in Ids \cup {Nothing}, OverrideMoves(o, above)
  PROVE  Heard(plan, events', root', list, framed', asked', born')
<1> DEFINE e == Configure(root', o, 0)
<1>1. /\ Contains(root, o) /\ above # o /\ above # PrevIn(root, o)
      /\ above = Nothing \/ Contains(root, above)
      /\ root' = MovedAbove(root, o, above) /\ events' = Append(events, e)
      /\ UNCHANGED <<framed, asked, born>>
  BY DEF OverrideMoves, listVars
<1>2. ListOK(root) /\ root \in Seq(Ids)
  BY HeardFacts DEF ListOK
<1>3. /\ o \in ToSet(root) /\ (above = Nothing \/ above \in ToSet(root)) /\ o \notin Managed
      /\ o \notin Frames
  BY <1>1, <1>2, ContainsMember, IdsAssumption DEF Clients
<1>4. ListOK(root') /\ ToSet(root') = ToSet(root) /\ Sits(root', o, above)
  BY <1>1, <1>2, <1>3, MovedOrder
<1>5. root' # root
  BY <1>1, <1>2, <1>4, SitsIsPrev
<1>6. Tells(plan, e, root, root')
  BY <1>1, <1>2, <1>3, <1>5, MoveTells
<1>7. e \in Event /\ e.type = "Configure"
  <2>1. root' \in Seq(Ids) /\ Distinct(root') /\ o \in ToSet(root') /\ 0 \in 0 .. MaxRequests
    BY <1>3, <1>4, IdsAssumption DEF ListOK
  <2> QED
    BY <2>1, ConfigureShape
<1> HIDE DEF e
<1>8. Heard(plan, Append(events, e), root', list, framed, asked, born)
  BY <1>4, <1>6, <1>7, HeardQuietly
<1> QED
  BY <1>1, <1>8 DEF e

(* The server destroys a client, whose unmapping it may report first.      *)
LEMMA HeardDestroyed ==
  ASSUME NEW plan, NEW q, NEW rt, NEW list, NEW held, NEW as, NEW bn,
         Heard(plan, q, rt, list, held, as, bn), NEW w \in Clients
  PROVE  Heard(plan, Append(q, [type |-> "Destroy", win |-> w]), Unhooked(rt, w),
               list, held, as, bn)
<1> DEFINE e == [type |-> "Destroy", win |-> w]
<1>1. e \in Event /\ e.type = "Destroy" /\ e.win = w
  BY EventShapes DEF Ids
<1>2. ListOK(rt)
  BY HeardFacts
<1>3. ListOK(Unhooked(rt, w)) /\ ToSet(Unhooked(rt, w)) = ToSet(rt) \ {w}
  BY <1>2, UnhookedOrder
<1>4. w \notin Frames
  BY FrameIds DEF Frames
<1> HIDE DEF e
<1>5. Tells(plan, e, rt, Unhooked(rt, w))
  BY <1>1 DEF Tells
<1>6. Heard(plan, Append(q, e), Unhooked(rt, w), list, held, as, bn)
  BY <1>1, <1>3, <1>4, <1>5, HeardQuietly
<1> QED
  BY <1>6 DEF e

LEMMA ClientDestroysHeard ==
  ASSUME StackInv, NEW plan, NEW list,
         Heard(plan, events, root, list, framed, asked, born),
         NEW c \in Clients, ClientDestroys(c)
  PROVE  Heard(plan, events', root', list, framed', asked', born')
<1> DEFINE u == [type |-> "Unmap", win |-> c]
           e == [type |-> "Destroy", win |-> c]
<1>1. /\ root' = Unhooked(root, c)
      /\ events' = events \o (IF c \in shown THEN <<u>> ELSE << >>) \o <<e>>
      /\ UNCHANGED <<framed, asked, born>>
  BY DEF ClientDestroys, listVars
<1>2. u \in Event /\ u.type = "Unmap" /\ e \in Event
  BY EventShapes DEF Ids
<1>3. events \in Seq(Event) /\ ListOK(root)
  BY HeardFacts
<1>4. Tells(plan, u, root, root)
  BY <1>2 DEF Tells
<1>5. CASE c \in shown
  <2>1. Heard(plan, Append(events, u), root, list, framed, asked, born)
    BY <1>2, <1>3, <1>4, HeardQuietly
  <2>2. Heard(plan, Append(Append(events, u), e), root', list, framed, asked, born)
    BY <1>1, <2>1, HeardDestroyed
  <2>3. events' = Append(Append(events, u), e)
    BY <1>1, <1>2, <1>3, <1>5
  <2> QED
    BY <1>1, <2>2, <2>3
<1>6. CASE c \notin shown
  <2>1. Heard(plan, Append(events, e), root', list, framed, asked, born)
    BY <1>1, HeardDestroyed
  <2>2. events' = Append(events, e)
    BY <1>1, <1>2, <1>3, <1>6
  <2> QED
    BY <1>1, <2>1, <2>2
<1> QED
  BY <1>5, <1>6

LEMMA RequestTold ==
  ASSUME StackInv, Told, NEW c \in framed, NEW sibling, sibling # FrameOf[c],
         sibling = Nothing \/ sibling \in ToSet(root), Request(c, sibling)
  PROVE  Told'
<1> DEFINE f == FrameOf[c]
           e == Configure(root', f, serial')
<1>1. /\ serial < MaxRequests /\ serial' = serial + 1
      /\ root' = MovedAbove(root, f, sibling)
      /\ events' = IF root' = root THEN events ELSE Append(events, e)
      /\ UNCHANGED <<windows, framed, asked, born>>
  BY DEF Request
<1>2. /\ ListOK(root) /\ f \in ToSet(root) /\ c \in Managed /\ framed \subseteq Managed
  BY HeardFacts DEF Told
<1>3. f \notin Managed
  BY <1>2, FrameIds DEF Clients
<1>4. ListOK(root') /\ ToSet(root') = ToSet(root)
  BY <1>1, <1>2, MovedOrder
<1>5. CASE root' = root
  BY <1>1, <1>5 DEF Told
<1>6. CASE root' # root
  <2>1. Tells(FALSE, e, root, root')
    BY <1>1, <1>2, <1>3, <1>6, MoveTells
  <2>2. e \in Event /\ e.type = "Configure"
    <3>1. root' \in Seq(Ids) /\ Distinct(root') /\ f \in ToSet(root')
      BY <1>2, <1>4 DEF ListOK
    <3>2. serial' \in 0 .. MaxRequests
      BY <1>1, InvFacts, IdsAssumption DEF OthersOK
    <3> QED
      BY <3>1, <3>2, ConfigureShape
  <2> HIDE DEF e
  <2>3. Heard(FALSE, Append(events, e), root', windows, framed, asked, born)
    BY <1>4, <2>1, <2>2, HeardQuietly DEF Told
  <2> QED
    BY <1>1, <1>6, <2>3 DEF Told
<1> QED
  BY <1>5, <1>6

-----------------------------------------------------------------------------
(* compiz reads                                                            *)

LEMMA ExplainedLater ==
  ASSUME NEW q \in Seq(Event), q # << >>, NEW p, NEW list, NEW held, Explained(q, p, list, held),
         NEW p2, NEW list2, NEW held2,
         \A w \in ToSet(list2) : w \notin ToSet(p2) \cup held2 =>
             /\ w \in ToSet(list) /\ w \notin ToSet(p) \cup held
             /\ Head(q).win = w => Head(q).type # "Destroy"
                                   /\ (w \in Managed => Head(q).type # "Configure")
  PROVE  Explained(Tail(q), p2, list2, held2)
<1>1. \A type, w : Ahead(q, 0, type, w) =>
         Ahead(Tail(q), 0, type, w) \/ (Head(q).type = type /\ Head(q).win = w)
  BY AheadOfTail
<1> SUFFICES ASSUME NEW w \in ToSet(list2), w \notin ToSet(p2) \cup held2
             PROVE  \/ Ahead(Tail(q), 0, "Destroy", w)
                    \/ w \in Managed /\ Ahead(Tail(q), 0, "Configure", w)
  BY DEF Explained
<1>2. \/ Ahead(q, 0, "Destroy", w)
      \/ w \in Managed /\ Ahead(q, 0, "Configure", w)
  BY DEF Explained
<1> QED
  BY <1>1, <1>2

(* compiz reads an event that moves nothing.                               *)
LEMMA ReadQuietly ==
  ASSUME NEW plan, NEW q, NEW rt, NEW list, NEW held, NEW as, NEW bn,
         Heard(plan, q, rt, list, held, as, bn), q # << >>,
         Head(q).type \in {"MapRequest", "Unmap"}
  PROVE  Heard(plan, Tail(q), rt, list, held, as, bn)
<1>1. PICK r : /\ Snapshots(plan, q, r, rt, held, as, bn)
               /\ Shows(r[0], list, held) /\ Explained(q, r[0], list, held)
  BY DEF Heard
<1>2. /\ Snapshots(plan, Tail(q), Later(r, q), rt, held, as, bn)
      /\ Tells(plan, Head(q), r[0], r[1]) /\ Later(r, q)[0] = r[1]
  BY <1>1, SnapshotsLater
<1>3. r[1] = r[0]
  BY <1>2 DEF Tells
<1>4. q \in Seq(Event)
  BY <1>1 DEF Snapshots
<1>5. Explained(Tail(q), r[0], list, held)
  BY <1>1, <1>4, ExplainedLater
<1> QED
  BY <1>1, <1>2, <1>3, <1>5 DEF Heard

(* CreateNotify: a new window goes on top, a frame was made for its client.*)
LEMMA CreateHeard ==
  ASSUME NEW plan, NEW q, NEW rt, NEW list, NEW held, NEW as, NEW bn,
         Heard(plan, q, rt, list, held, as, bn), q # << >>, Head(q).type = "Create",
         ListOK(list), Head(q).win \in Clients => Head(q).win \notin ToSet(list),
         \A c \in Managed : FrameOf[c] = Head(q).win => c \in held
  PROVE  Heard(plan, Tail(q), rt,
               IF Head(q).win \in Clients THEN Append(list, Head(q).win) ELSE list,
               held, as, bn)
<1> DEFINE x == Head(q).win
           list2 == IF x \in Clients THEN Append(list, x) ELSE list
<1>1. PICK r : /\ Snapshots(plan, q, r, rt, held, as, bn)
               /\ Shows(r[0], list, held) /\ Explained(q, r[0], list, held)
  BY DEF Heard
<1>2. /\ Snapshots(plan, Tail(q), Later(r, q), rt, held, as, bn)
      /\ Tells(plan, Head(q), r[0], r[1]) /\ Later(r, q)[0] = r[1]
      /\ ListOK(r[0]) /\ ListOK(r[1])
  BY <1>1, SnapshotsLater
<1>3. q \in Seq(Event) /\ held \in SUBSET Managed
  BY <1>1 DEF Snapshots
<1>4. x \in Ids
  <2>1. Head(q) \in Event
    BY <1>3
  <2> QED
    BY <2>1, EventFields
<1> DEFINE p == r[0]
           p2 == r[1]
           W(y) == WindowIn(y, held)
<1>5. Shows(p2, list2, held) /\ Explained(Tail(q), p2, list2, held)
  <2>1. CASE x \in Clients
    <3>1. x \notin ToSet(p) /\ p2 = Append(p, x) /\ list2 = Append(list, x)
          /\ x \notin ToSet(list)
      BY <1>2, <2>1 DEF Tells
    <3>2. /\ ToSet(p2) = ToSet(p) \cup {x}
          /\ \A a, b : Below(p2, a, b) <=> Below(p, a, b) \/ (a \in ToSet(p) /\ b = x)
      BY <1>2, <1>4, <3>1, AppendedOrder
    <3>3. /\ ToSet(list2) = ToSet(list) \cup {x}
          /\ \A a, b : Below(list2, a, b) <=> Below(list, a, b) \/ (a \in ToSet(list) /\ b = x)
      BY <1>4, <3>1, AppendedOrder
    <3>4. W(x) = x
      BY <1>3, <2>1, WindowIs
    <3> HIDE DEF p, p2, list2, x
    <3>5. /\ \A y \in ToSet(p) : W(y) \in ToSet(list)
          /\ \A y, z \in ToSet(p) : Below(p, y, z) => Below(list, W(y), W(z))
      BY <1>1 DEF Shows, p
    <3>6. \A y, z : Below(p, y, z) => y \in ToSet(p) /\ z \in ToSet(p)
      BY <1>2, BelowFacts DEF p
    <3>7. Shows(p2, list2, held)
      BY <3>2, <3>3, <3>4, <3>5, <3>6 DEF Shows
    <3>8. Explained(Tail(q), p2, list2, held)
      <4>1. Head(q).type = "Create"
        OBVIOUS
      <4> QED
        BY <1>1, <1>3, <3>2, <3>3, <4>1, ExplainedLater DEF p
    <3> QED
      BY <3>7, <3>8
  <2>2. CASE x \notin Clients
    <3>1. PICK c \in Managed : FrameOf[c] = x
      BY <1>4, <2>2 DEF Ids, Frames
    <3>2. c \in held
      BY <3>1
    <3>3. c \in ToSet(p) /\ x \notin ToSet(p) /\ p2 = ReplaceAll(p, c, x)
      BY <1>2, <3>1 DEF Tells
    <3>4. list2 = list
      BY <2>2
    <3>5. /\ ToSet(p2) = (ToSet(p) \ {c}) \cup {x}
          /\ \A a, b : a # x /\ b # x => (Below(p2, a, b) <=> Below(p, a, b) /\ a # c /\ b # c)
          /\ \A a : a # x => (Below(p2, a, x) <=> Below(p, a, c))
          /\ \A b : b # x => (Below(p2, x, b) <=> Below(p, c, b))
      BY <1>2, <1>4, <3>3, ReplacedOrder
    <3>6. W(x) = c /\ W(c) = c
      BY <1>3, <3>1, <3>2, WindowIs, FrameIds
    <3> HIDE DEF p, p2, list2, x
    <3>7. /\ \A y \in ToSet(p) : W(y) \in ToSet(list)
          /\ \A y, z \in ToSet(p) : Below(p, y, z) => Below(list, W(y), W(z))
      BY <1>1 DEF Shows, p
    <3>8. ~ Below(p2, x, x) /\ \A y, z : Below(p, y, z) => y \in ToSet(p) /\ z \in ToSet(p)
      BY <1>2, BelowFacts DEF p, p2
    <3>9. \A y \in ToSet(p2) : W(y) \in ToSet(list)
      BY <3>3, <3>5, <3>6, <3>7
    <3>10. \A y, z \in ToSet(p2) : Below(p2, y, z) => Below(list, W(y), W(z))
      BY <3>3, <3>5, <3>6, <3>7, <3>8
    <3>11. Explained(Tail(q), p2, list, held)
      <4>1. Head(q).type = "Create"
        OBVIOUS
      <4> QED
        BY <1>1, <1>3, <3>2, <3>5, <4>1, ExplainedLater DEF p
    <3> QED
      BY <3>4, <3>9, <3>10, <3>11 DEF Shows
  <2> QED
    BY <2>1, <2>2
<1> QED
  BY <1>2, <1>5 DEF Heard

(* A client loses its frame, which stands above it as a window of its own. *)
LEMMA FewerWindows ==
  ASSUME NEW held \in SUBSET Managed, NEW c \in held, NEW x
  PROVE  WindowIn(x, held \ {c}) = IF x = FrameOf[c] THEN x ELSE WindowIn(x, held)
<1>1. CASE x = FrameOf[c]
  <2>1. \A d \in held \ {c} : FrameOf[d] # x
    BY <1>1, FrameIds
  <2> QED
    BY <1>1, <2>1, WindowIs
<1>2. CASE x # FrameOf[c] /\ \E d \in held : FrameOf[d] = x
  <2>1. PICK d \in held : FrameOf[d] = x
    BY <1>2
  <2>2. d \in held \ {c}
    BY <1>2, <2>1
  <2> QED
    BY <1>2, <2>1, <2>2, WindowIs
<1>3. CASE \A d \in held : FrameOf[d] # x
  BY <1>3, WindowIs
<1> QED
  BY <1>1, <1>2, <1>3

LEMMA ShowsUnframed ==
  ASSUME NEW held \in SUBSET Managed, NEW c \in held, NEW p, ListOK(p), NEW list, ListOK(list),
         Shows(p, list, held), c \notin ToSet(p), Apart(p, held),
         NEW list2, ListOK(list2), ToSet(list2) = ToSet(list) \cup {FrameOf[c]},
         \A a, b : a # FrameOf[c] /\ b # FrameOf[c] => (Below(list2, a, b) <=> Below(list, a, b)),
         Sits(list2, FrameOf[c], c), FrameOf[c] \notin ToSet(list)
  PROVE  Shows(p, list2, held \ {c})
<1> DEFINE f == FrameOf[c]
           V(y) == WindowIn(y, held)
           W(y) == WindowIn(y, held \ {c})
<1>1. \A y : W(y) = IF y = f THEN f ELSE V(y)
  BY FewerWindows
<1>2. V(f) = c /\ c # f /\ c # Nothing
  BY WindowIs, FrameIds, IdsAssumption
<1>3. \A y \in ToSet(p) : V(y) \in ToSet(list) /\ V(y) # f
  BY DEF Shows
<1>4. \A y \in ToSet(p) : y # f => V(y) # c
  <2> SUFFICES ASSUME NEW y \in ToSet(p), y # f, V(y) = c
               PROVE  FALSE
    OBVIOUS
  <2>1. y # c
    OBVIOUS
  <2>2. CASE \E d \in held : FrameOf[d] = y
    BY <2>2, WindowIs
  <2>3. CASE \A d \in held : FrameOf[d] # y
    BY <2>1, <2>3, WindowIs
  <2> QED
    BY <2>2, <2>3
<1>5. \A y, z \in ToSet(p) : Below(p, y, z) => Below(list, V(y), V(z))
  BY DEF Shows
<1> HIDE DEF f, V, W
<1>6. \A a \in ToSet(list2) : a # f => (Below(list2, a, f) <=> a = c \/ Below(list2, a, c))
  BY <1>2 DEF Sits, f
<1>7. \A a, b : a # f /\ b # f => (Below(list2, a, b) <=> Below(list, a, b))
  BY DEF f
<1>8. ASSUME NEW y \in ToSet(p), NEW z \in ToSet(p), Below(p, y, z)
      PROVE  Below(list2, W(y), W(z))
  <2>0. y # z /\ Below(list, V(y), V(z))
    BY <1>5, <1>8, BelowFacts
  <2>1. CASE y # f /\ z # f
    BY <1>1, <1>3, <1>7, <2>0, <2>1
  <2>2. CASE z = f
    <3>1. y # f /\ W(z) = f /\ W(y) = V(y) /\ V(y) # f /\ V(z) = c
      BY <1>1, <1>2, <1>3, <2>0, <2>2
    <3>2. Below(list2, V(y), c)
      BY <1>2, <1>7, <2>0, <3>1
    <3>3. V(y) \in ToSet(list2)
      BY <3>2, BelowFacts
    <3> QED
      BY <1>6, <3>1, <3>2, <3>3
  <2>3. CASE y = f
    <3>1. z # f /\ W(y) = f /\ W(z) = V(z) /\ V(z) # f /\ V(z) # c /\ V(y) = c
      BY <1>1, <1>2, <1>3, <1>4, <2>0, <2>3
    <3>2. Below(list2, c, V(z))
      BY <1>2, <1>7, <2>0, <3>1
    <3>3. V(z) \in ToSet(list2) /\ f \in ToSet(list2) /\ ~ Below(list2, V(z), c)
      BY <3>2, BelowFacts DEF f
    <3>4. ~ Below(list2, V(z), f)
      BY <1>6, <3>1, <3>3
    <3> QED
      BY <3>1, <3>3, <3>4, BelowFacts
  <2> QED
    BY <2>1, <2>2, <2>3
<1>9. \A y \in ToSet(p) : W(y) \in ToSet(list2)
  <2>1. f \in ToSet(list2) /\ ToSet(list) \subseteq ToSet(list2)
    BY DEF f
  <2> QED
    BY <1>1, <1>3, <2>1
<1> QED
  BY <1>8, <1>9 DEF Shows, W

LEMMA ShowsUnhooked ==
  ASSUME NEW held \in SUBSET Managed, NEW w, w \notin held, NEW p, ListOK(p),
         NEW list, ListOK(list), Shows(p, list, held)
  PROVE  Shows(Unhooked(p, w), Unhooked(list, w), held)
<1>1. /\ ToSet(Unhooked(p, w)) = ToSet(p) \ {w}
      /\ \A a, b : Below(Unhooked(p, w), a, b) <=> Below(p, a, b) /\ a # w /\ b # w
  BY UnhookedOrder
<1>2. /\ ToSet(Unhooked(list, w)) = ToSet(list) \ {w}
      /\ \A a, b : Below(Unhooked(list, w), a, b) <=> Below(list, a, b) /\ a # w /\ b # w
  BY UnhookedOrder
<1>3. \A x : x # w => WindowIn(x, held) # w
  <2> SUFFICES ASSUME NEW x, x # w
               PROVE  WindowIn(x, held) # w
    OBVIOUS
  <2>1. CASE \E c \in held : FrameOf[c] = x
    BY <2>1, WindowIs
  <2>2. CASE \A c \in held : FrameOf[c] # x
    BY <2>2, WindowIs
  <2> QED
    BY <2>1, <2>2
<1> QED
  BY <1>1, <1>2, <1>3 DEF Shows

(* manageFrameWindowSeparately: list2 is list with the frame of c above c. *)
PutAbove(list, c, list2) ==
    /\ ListOK(list2) /\ ToSet(list2) = ToSet(list) \cup {FrameOf[c]}
    /\ \A a, b : a # FrameOf[c] /\ b # FrameOf[c] => (Below(list2, a, b) <=> Below(list, a, b))
    /\ Sits(list2, FrameOf[c], c)

LEMMA WithFrameOrder ==
  ASSUME NEW list, ListOK(list), NEW c \in known, known \subseteq Managed, c \in ToSet(list),
         NEW held \in SUBSET Managed, \A d \in held : FrameOf[d] \notin ToSet(list),
         FrameOf[c] \notin ToSet(list)
  PROVE  /\ ListOK(WithFrame(list, c, held))
         /\ ToSet(WithFrame(list, c, held)) = ToSet(list) \cup {FrameOf[c]}
         /\ \A a, b : a # FrameOf[c] /\ b # FrameOf[c] =>
               (Below(WithFrame(list, c, held), a, b) <=> Below(list, a, b))
         /\ Sits(WithFrame(list, c, held), FrameOf[c], c)
<1>1. c \in Managed /\ c \in Ids /\ c # Nothing /\ FrameOf[c] \in Ids /\ c \in Clients
  BY FrameIds, IdsAssumption
<1>2. WindowIn(c, held) = c
  BY <1>1, WindowIs
<1>3. Target(c, held) = c
  BY <1>1, <1>2 DEF Target
<1> DEFINE f == FrameOf[c]
           r == Inserted(list, f, c, held)
<1>4. WithFrame(list, c, held) = r
  BY DEF WithFrame
<1>5. f \in Ids /\ f \notin ToSet(list) /\ c \in Ids \cup {Nothing}
      /\ WindowIn(c, held) \in ToSet(list)
  BY <1>1, <1>2
<1> HIDE DEF f
<1>6. /\ ListOK(r) /\ ToSet(r) = ToSet(list) \cup {f}
      /\ \A a, b : a # f /\ b # f => (Below(r, a, b) <=> Below(list, a, b))
      /\ Sits(r, f, Target(c, held))
  BY <1>5, InsertedView
<1> HIDE DEF r
<1> QED
  BY <1>3, <1>4, <1>6 DEF f

(* DestroyNotify                                                           *)
LEMMA DestroyHeard ==
  ASSUME NEW plan, NEW q, NEW rt, NEW list, NEW as, NEW bn,
         Heard(plan, q, rt, list, framed, as, bn), q # << >>, Head(q).type = "Destroy",
         ListOK(list), NEW w, w = Head(q).win, NEW with \in SUBSET framed,
         \A d \in framed : FrameOf[d] \notin ToSet(list),
         known \subseteq framed,
         w \in framed => w \in known /\ ~ Ahead(q, 0, "Create", FrameOf[w])
  PROVE  Heard(plan, Tail(q), rt,
               Unhooked(WithFrame(list, w, with), w), framed \ {w}, as, bn)
<1> DEFINE list1 == WithFrame(list, w, with)
           list2 == Unhooked(list1, w)
<1>1. PICK r : /\ Snapshots(plan, q, r, rt, framed, as, bn)
               /\ Shows(r[0], list, framed) /\ Explained(q, r[0], list, framed)
  BY DEF Heard
<1>2. /\ Snapshots(plan, Tail(q), Later(r, q), rt, framed, as, bn)
      /\ Tells(plan, Head(q), r[0], r[1]) /\ Later(r, q)[0] = r[1]
      /\ ListOK(r[0]) /\ ListOK(r[1])
  BY <1>1, SnapshotsLater
<1>3. q \in Seq(Event) /\ framed \in SUBSET Managed /\ w \notin framed \ {w}
      /\ framed \ {w} \in SUBSET Managed
  BY <1>1 DEF Snapshots
<1>4. Snapshots(plan, Tail(q), Later(r, q), rt, framed \ {w}, as, bn)
  BY <1>2, SnapshotsFewer
<1> DEFINE p == r[0]
           p2 == r[1]
<1>5. p2 = Unhooked(p, w)
  BY <1>2 DEF Tells
<1>6. /\ ToSet(p2) = ToSet(p) \ {w}
  BY <1>2, <1>5, UnhookedOrder
<1>7. /\ ListOK(list1) /\ Shows(p, list1, framed \ {w})
      /\ \A x \in ToSet(list1) : x \in ToSet(list) \/ x \in ToSet(p2)
  <2>1. CASE w \notin framed
    <3>1. list1 = list /\ framed \ {w} = framed
      BY <2>1 DEF WithFrame
    <3> QED
      BY <1>1, <3>1
  <2>2. CASE w \in framed
    <3>1. w \notin ToSet(p) /\ FrameOf[w] \in ToSet(p) /\ Apart(p, framed)
      <4> HIDE DEF list1, list2, p, p2
      <4>1. /\ \A c \in framed : IF Ahead(q, 0, "Create", FrameOf[c])
                                 THEN c \in ToSet(r[0]) /\ FrameOf[c] \notin ToSet(r[0])
                                 ELSE c \notin ToSet(r[0]) /\ FrameOf[c] \in ToSet(r[0])
            /\ Apart(r[0], framed)
        BY <1>1, SnapshotsLast
      <4>2. ~ Ahead(q, 0, "Create", FrameOf[w])
        BY <2>2
      <4> QED
        BY <2>2, <4>1, <4>2 DEF p
    <3>2. w \in ToSet(list) /\ w \in known /\ w \in Managed /\ w # FrameOf[w]
      BY <1>3, <2>2, HeardFacts, FrameIds
    <3>3. with \in SUBSET Managed /\ \A d \in with : FrameOf[d] \notin ToSet(list)
      BY <1>3
    <3>4. /\ ListOK(list1) /\ ToSet(list1) = ToSet(list) \cup {FrameOf[w]}
          /\ \A a, b : a # FrameOf[w] /\ b # FrameOf[w] => (Below(list1, a, b) <=> Below(list, a, b))
          /\ Sits(list1, FrameOf[w], w)
      BY <1>3, <2>2, <3>2, <3>3, WithFrameOrder
    <3> HIDE DEF list1, p
    <3>5. Shows(p, list1, framed \ {w})
      BY <1>1, <1>2, <1>3, <2>2, <3>1, <3>4, ShowsUnframed DEF p
    <3> QED
      BY <1>6, <3>1, <3>2, <3>4, <3>5
  <2> QED
    BY <2>1, <2>2
<1> HIDE DEF list1
<1>8. Shows(p2, list2, framed \ {w})
  BY <1>2, <1>3, <1>5, <1>7, ShowsUnhooked
<1>9. ToSet(list2) = ToSet(list1) \ {w}
  BY <1>7, UnhookedOrder
<1>10. Explained(Tail(q), p2, list2, framed \ {w})
  <2> HIDE DEF p2, list2
  <2>1. \A x \in ToSet(list2) : x \notin ToSet(p2) \cup (framed \ {w}) =>
            /\ x \in ToSet(list) /\ x \notin ToSet(p) \cup framed /\ x # w
    BY <1>6, <1>7, <1>9
  <2> QED
    BY <1>1, <1>3, <2>1, ExplainedLater
<1> QED
  BY <1>2, <1>4, <1>8, <1>10 DEF Heard, list1

-----------------------------------------------------------------------------
(* unreparent                                                              *)

(* The client is put back into the order where its frame was.              *)
LEMMA PutBackPlace ==
  ASSUME NEW s, ListOK(s), NEW f \in ToSet(s), NEW c \in Ids, c \notin ToSet(s)
  PROVE  PrevIn(ReplaceAll(s, f, c), c) = PrevIn(InsertAt(s, IndexIn(s, f), c), c)
<1> DEFINE k == IndexIn(s, f)
           b == InsertAt(s, k, c)
           r == ReplaceAll(s, f, c)
           t == PrevIn(b, c)
<1>0. s \in Seq(Ids) /\ Distinct(s) /\ Len(s) \in Nat /\ DOMAIN s = 1 .. Len(s)
  BY DEF ListOK
<1>1. k \in 1 .. Len(s) /\ s[k] = f /\ k \in 1 .. Len(s) + 1
  BY <1>0, IndexIs
<1> HIDE DEF k
<1>2. /\ ListOK(b) /\ ToSet(b) = ToSet(s) \cup {c}
      /\ \A x, y : x # c /\ y # c => (Below(b, x, y) <=> Below(s, x, y))
      /\ \A x : x # c => (Below(b, x, c) <=> \E i \in DOMAIN s : i < k /\ s[i] = x)
  BY <1>1, InsertedOrder
<1>3. /\ ListOK(r) /\ ToSet(r) = (ToSet(s) \ {f}) \cup {c}
      /\ \A x, y : x # c /\ y # c => (Below(r, x, y) <=> Below(s, x, y) /\ x # f /\ y # f)
      /\ \A x : x # c => (Below(r, x, c) <=> Below(s, x, f))
  BY ReplacedOrder
<1>4. \A x : (\E i \in DOMAIN s : i < k /\ s[i] = x) <=> Below(s, x, f)
  BY <1>0, <1>1 DEF Below, Distinct
<1> HIDE DEF b, r
<1>5. Sits(b, c, t)
  BY <1>2, PrevSits
<1> HIDE DEF t
<1>6. /\ t # c /\ (t = Nothing \/ t \in ToSet(b))
      /\ \A x \in ToSet(b) : x # c =>
            (Below(b, x, c) <=> t # Nothing /\ (x = t \/ Below(b, x, t)))
  BY <1>5 DEF Sits
<1>7. Nothing \notin ToSet(b) /\ Nothing # c
  BY <1>2, BelowFacts
<1>8. c # f
  OBVIOUS
<1>9. t # f
  <2>1. ~ Below(s, f, f)
    BY BelowFacts
  <2>2. ~ Below(b, f, c) /\ f \in ToSet(b) /\ f # Nothing
    BY <1>2, <1>4, <1>7, <1>8, <2>1
  <2> QED
    BY <1>6, <1>8, <2>2
<1>10. t = Nothing \/ t \in ToSet(r)
  BY <1>2, <1>3, <1>6, <1>9
<1>11. ASSUME NEW x \in ToSet(r), x # c
       PROVE  Below(r, x, c) <=> t # Nothing /\ (x = t \/ Below(r, x, t))
  <2>1. x \in ToSet(b) /\ x # f
    BY <1>2, <1>3, <1>8, <1>11
  <2>2. Below(r, x, c) <=> Below(b, x, c)
    BY <1>2, <1>3, <1>4, <1>11
  <2>3. Below(r, x, t) <=> Below(b, x, t)
    BY <1>2, <1>3, <1>6, <1>9, <1>11, <2>1
  <2> QED
    BY <1>6, <1>11, <2>1, <2>2, <2>3
<1>12. Sits(r, c, t)
  BY <1>3, <1>6, <1>10, <1>11 DEF Sits
<1>13. PrevIn(r, c) = t
  BY <1>3, <1>12, SitsIsPrev
<1> QED
  BY <1>13 DEF t, b, r, k

LEMMA NotThere ==
  ASSUME NEW s, ListOK(s), NEW e, e \notin ToSet(s)
  PROVE  Unhooked(s, e) = s
BY ContainsMember DEF Unhooked, ListOK

LEMMA UnreparentHeard ==
  ASSUME StackInv, NEW plan, NEW q, NEW list, Heard(plan, q, root, list, framed, asked, born),
         ListOK(list), ToSet(list) \subseteq Listed, NEW with \in SUBSET framed,
         NEW c \in framed, c \in known, ~ Ahead(q, 0, "Create", FrameOf[c]),
         c \in wrapped \/ Ahead(q, 0, "Destroy", c), Unreparent(c, q)
  PROVE  /\ Heard(plan, events', root', WithFrame(list, c, with), framed', asked', born')
         /\ PutAbove(list, c, WithFrame(list, c, with))
<1> DEFINE f == FrameOf[c]
           below == InsertAt(root, IndexIn(root, f), c)
           e1 == Configure(below, c, 0)
           e2 == [type |-> "Destroy", win |-> f]
           held == framed \ {c}
           list2 == WithFrame(list, c, with)
<1>1. /\ root' = IF c \in wrapped THEN ReplaceAll(root, f, c) ELSE Unhooked(root, f)
      /\ events' = q \o (IF c \in wrapped THEN <<e1>> ELSE << >>) \o <<e2>>
      /\ framed' = held /\ asked' = asked /\ born' = born
  BY DEF Unreparent
<1>2. /\ q \in Seq(Event) /\ framed \in SUBSET Managed /\ ListOK(root) /\ c \in ToSet(list)
      /\ c \in Managed /\ f \in ToSet(root) /\ c \notin ToSet(root)
      /\ \A d \in framed : FrameOf[d] \in ToSet(root) /\ d \notin ToSet(root)
      /\ \A d \in Managed : FrameOf[d] \in ToSet(root) => ~ Waiting(q, asked, d)
      /\ ToSet(root) \cap Clients \subseteq born
  BY HeardFacts
<1>3. /\ f \in Ids /\ f \notin Clients /\ c \in Ids /\ c \in Clients /\ c # f
      /\ \A d \in Managed : FrameOf[d] = f => d = c
      /\ \A d \in Managed : FrameOf[d] # c
  BY <1>2, FrameIds
<1>4. /\ known \subseteq framed /\ ListOK(list) /\ c \in born
      /\ \A d \in framed : FrameOf[d] \notin ToSet(list)
  <2>1. known \subseteq framed /\ ListOK(list)
    BY InvFacts DEF OthersOK
  <2>2. \A d \in framed : FrameOf[d] \notin ToSet(list)
    BY InvFacts DEF FramesApart, Listed
  <2>3. c \in born
    BY <1>2, <1>3, InvFacts DEF NotBorn, Unheard, Listed
  <2> QED
    BY <2>1, <2>2, <2>3
<1> HIDE DEF f
<1>5. /\ ListOK(list2) /\ ToSet(list2) = ToSet(list) \cup {f}
      /\ \A a, b : a # f /\ b # f => (Below(list2, a, b) <=> Below(list, a, b))
      /\ Sits(list2, f, c)
  <2>1. with \in SUBSET Managed /\ \A d \in with : FrameOf[d] \notin ToSet(list)
    BY <1>2, <1>4
  <2>2. FrameOf[c] \notin ToSet(list)
    BY <1>4
  <2> QED
    BY <1>2, <1>4, <2>1, <2>2, WithFrameOrder DEF f
<1> HIDE DEF list2
<1>6. PICK r : /\ Snapshots(plan, q, r, root, framed, asked, born)
               /\ Shows(r[0], list, framed) /\ Explained(q, r[0], list, framed)
  BY DEF Heard
<1> DEFINE p == r[0]
<1>7. /\ ListOK(p) /\ c \notin ToSet(p) /\ f \in ToSet(p) /\ Apart(p, framed)
  <2>1. /\ ListOK(r[0]) /\ Apart(r[0], framed)
        /\ \A d \in framed : IF Ahead(q, 0, "Create", FrameOf[d])
                            THEN d \in ToSet(r[0]) /\ FrameOf[d] \notin ToSet(r[0])
                            ELSE d \notin ToSet(r[0]) /\ FrameOf[d] \in ToSet(r[0])
    BY <1>6, SnapshotsLast
  <2> QED
    BY <2>1 DEF f
<1> HIDE DEF p
<1>8. Shows(p, list2, held)
  BY <1>2, <1>4, <1>5, <1>6, <1>7, ShowsUnframed DEF p, f
<1>9. Snapshots(plan, q, r, root, held, asked, born)
  BY <1>6, SnapshotsFewer
<1>10. e2 \in Event /\ e2.type = "Destroy" /\ e2.win = f
  BY <1>3, EventShapes
<1>11. Len(q) \in Nat /\ 0 \in 0 .. Len(q) /\ 0 \in 0 .. Len(q) + 1
  BY <1>2
<1>12. \A t : More(r, q, t)[0] = p
  BY <1>11 DEF More, p
<1>13. \A x \in ToSet(list2) : x \notin ToSet(p) \cup held =>
          x = c \/ Ahead(q, 0, "Destroy", x) \/ (x \in Managed /\ Ahead(q, 0, "Configure", x))
  BY <1>5, <1>6, <1>7 DEF Explained, p
<1>14. ASSUME c \in wrapped
       PROVE  Heard(plan, events', root', list2, framed', asked', born')
  <2>1. /\ root' = ReplaceAll(root, f, c) /\ ListOK(root')
        /\ ToSet(root') = (ToSet(root) \ {f}) \cup {c}
    BY <1>1, <1>2, <1>3, <1>14, ReplacedOrder
  <2>2. e1.type = "Configure" /\ e1.win = c /\ e1.above = PrevIn(below, c) /\ e1 \in Event
    <3>1. ListOK(below) /\ ToSet(below) = ToSet(root) \cup {c}
      <4>1. root \in Seq(Ids)
        BY <1>2 DEF ListOK
      <4>2. IndexIn(root, f) \in 1 .. Len(root) /\ Len(root) \in Nat
        BY <1>2, <4>1, IndexIs
      <4>3. IndexIn(root, f) \in 1 .. Len(root) + 1
        BY <4>2
      <4> QED
        BY <1>2, <1>3, <4>3, InsertedOrder
    <3> HIDE DEF below
    <3>2. below \in Seq(Ids) /\ Distinct(below) /\ c \in ToSet(below) /\ 0 \in 0 .. MaxRequests
      BY <3>1, IdsAssumption DEF ListOK
    <3>3. e1 \in Event
      BY <3>2, ConfigureShape
    <3> QED
      BY <3>3 DEF Configure
  <2>3. PrevIn(root', c) = PrevIn(below, c)
    BY <1>2, <1>3, <2>1, PutBackPlace
  <2>4. Tells(plan, e1, root, root')
    <3> HIDE DEF e1
    <3> QED
      BY <1>2, <2>1, <2>2, <2>3 DEF Tells, f
  <2> DEFINE q1 == Append(q, e1)
             q2 == Append(q1, e2)
             r1 == More(r, q, root')
             r2 == More(r1, q1, root')
  <2>5. events' = q2
    BY <1>1, <1>2, <1>10, <1>14, <2>2
  <2> HIDE DEF e1, e2
  <2>6. /\ q1 \in Seq(Event) /\ Len(q1) = Len(q) + 1 /\ q2 \in Seq(Event)
        /\ \A d : Waiting(q1, asked, d) <=> Waiting(q, asked, d)
        /\ \A d : Waiting(q2, asked, d) <=> Waiting(q, asked, d)
    <3>1. q1 \in Seq(Event) /\ Len(q1) = Len(q) + 1 /\ q2 \in Seq(Event)
      BY <1>2, <1>10, <2>2
    <3>2. \A d : Waiting(q1, asked, d) <=> Waiting(q, asked, d)
      BY <1>2, <2>2, WaitingSame
    <3> HIDE DEF q1
    <3>3. \A d : Waiting(q2, asked, d) <=> Waiting(q1, asked, d)
      BY <1>10, <3>1, WaitingSame
    <3> QED
      BY <3>1, <3>2, <3>3
  <2>7. /\ \A d \in held : FrameOf[d] \in ToSet(root') /\ d \notin ToSet(root')
        /\ \A d \in Managed : FrameOf[d] \in ToSet(root') => ~ Waiting(q, asked, d)
        /\ ~ Waiting(q, asked, c)
        /\ ToSet(root') \cap Clients \subseteq born
    <3>1. \A d \in held : FrameOf[d] # f /\ d # c
      BY <1>2, <1>3
    <3>2. ~ Waiting(q, asked, c)
      BY <1>2 DEF f
    <3> QED
      BY <1>2, <1>3, <1>4, <2>1, <3>1, <3>2
  <2>8. Snapshots(plan, q1, r1, root', held, asked, born)
    <3>1. e1.type # "Create"
      BY <2>2
    <3>2. \A d \in Managed : Waiting(q1, asked, d) /\ d \in ToSet(root') => d \in ToSet(root)
      BY <2>1, <2>6, <2>7
    <3>3. \A d \in Managed : FrameOf[d] \in ToSet(root') => ~ Waiting(q1, asked, d)
      BY <2>6, <2>7
    <3> QED
      BY <1>9, <2>1, <2>2, <2>4, <2>6, <2>7, <3>1, <3>2, <3>3, SnapshotsMore
  <2>9. Tells(plan, e2, root', root')
    <3>1. f \notin ToSet(root')
      BY <1>3, <2>1
    <3>2. Unhooked(root', f) = root'
      BY <2>1, <3>1, NotThere
    <3> QED
      BY <1>10, <3>2 DEF Tells
  <2> HIDE DEF q1, r1
  <2>10. Snapshots(plan, q2, r2, root', held, asked, born)
    <3>1. e2.type # "Create"
      BY <1>10
    <3>3. /\ \A d \in Managed : FrameOf[d] \in ToSet(root') => ~ Waiting(q2, asked, d)
          /\ \A d \in Managed : Waiting(q2, asked, d) => Waiting(q1, asked, d)
      BY <2>6, <2>7
    <3> QED
      BY <1>10, <2>1, <2>7, <2>8, <2>9, <3>1, <3>3, SnapshotsMore
  <2>11. r2[0] = p
    <3>1. r1[0] = p
      BY <1>12 DEF r1
    <3>2. 0 \in 0 .. Len(q1) + 1 /\ 0 <= Len(q1)
      BY <1>11, <2>6
    <3> QED
      BY <3>1, <3>2 DEF More
  <2>12. /\ \A type, w : Ahead(q, 0, type, w) => Ahead(q2, 0, type, w)
         /\ Ahead(q2, 0, "Configure", c)
    <3>1. \A type, w : Ahead(q1, 0, type, w) <=>
             Ahead(q, 0, type, w) \/ (e1.type = type /\ e1.win = w)
      BY <1>2, <1>11, <2>2, AheadOfMore DEF q1
    <3>2. \A type, w : Ahead(q2, 0, type, w) <=>
             Ahead(q1, 0, type, w) \/ (e2.type = type /\ e2.win = w)
      <4>1. 0 \in 0 .. Len(q1)
        BY <1>11, <2>6
      <4> QED
        BY <1>10, <2>6, <4>1, AheadOfMore
    <3> QED
      BY <2>2, <3>1, <3>2
  <2> HIDE DEF q2, r2
  <2>13. Explained(q2, p, list2, held)
    BY <1>2, <1>13, <2>12 DEF Explained
  <2>14. Heard(plan, q2, root', list2, held, asked, born)
    BY <1>8, <2>10, <2>11, <2>13 DEF Heard
  <2> QED
    BY <1>1, <2>5, <2>14
<1>15. ASSUME c \notin wrapped
       PROVE  Heard(plan, events', root', list2, framed', asked', born')
  <2> DEFINE q1 == Append(q, e2)
             r1 == More(r, q, root')
  <2>1. events' = q1
    BY <1>1, <1>2, <1>10, <1>15
  <2> HIDE DEF e2
  <2>2. /\ root' = Unhooked(root, f) /\ ListOK(root') /\ ToSet(root') = ToSet(root) \ {f}
    BY <1>1, <1>2, <1>15, UnhookedOrder
  <2>3. Tells(plan, e2, root, root')
    BY <1>10, <2>2 DEF Tells
  <2>4. \A d : Waiting(q1, asked, d) <=> Waiting(q, asked, d)
    BY <1>2, <1>10, WaitingSame
  <2>5. /\ \A d \in held : FrameOf[d] \in ToSet(root') /\ d \notin ToSet(root')
        /\ \A d \in Managed : FrameOf[d] \in ToSet(root') => ~ Waiting(q1, asked, d)
        /\ \A d \in Managed : Waiting(q1, asked, d) => Waiting(q, asked, d)
        /\ ToSet(root') \cap Clients \subseteq born
    <3>1. \A d \in held : FrameOf[d] # f
      BY <1>2, <1>3
    <3> QED
      BY <1>2, <2>2, <2>4, <3>1
  <2>6. Snapshots(plan, q1, r1, root', held, asked, born)
    <3>1. e2.type # "Create"
      BY <1>10
    <3>2. \A d \in Managed : Waiting(q1, asked, d) /\ d \in ToSet(root') => d \in ToSet(root)
      BY <2>2
    <3> QED
      BY <1>9, <1>10, <2>2, <2>3, <2>5, <3>1, <3>2, SnapshotsMore
  <2>7. r1[0] = p
    BY <1>12
  <2>8. \A type, w : Ahead(q, 0, type, w) => Ahead(q1, 0, type, w)
    BY <1>2, <1>10, <1>11, AheadOfMore
  <2> HIDE DEF q1, r1
  <2>9. Explained(q1, p, list2, held)
    BY <1>13, <1>15, <2>8 DEF Explained
  <2>10. Heard(plan, q1, root', list2, held, asked, born)
    BY <1>8, <2>6, <2>7, <2>9 DEF Heard
  <2> QED
    BY <1>1, <2>1, <2>10
<1>16. PutAbove(list, c, list2)
  BY <1>5 DEF PutAbove, f
<1>17. Heard(plan, events', root', list2, framed', asked', born')
  BY <1>14, <1>15
<1> QED
  BY <1>16, <1>17 DEF list2

-----------------------------------------------------------------------------
(* What else the events under way say                                      *)

(* A frame that compiz has not heard of is still its client's: the client's*)
(* unmapping and its end are reported after the frame.                     *)
Announced ==
    \A c \in Managed : Pending("Create", FrameOf[c]) =>
        /\ c \in framed \ unmapHeld
        /\ \A i, j \in DOMAIN events :
              /\ events[i].type \in {"Unmap", "Destroy"} /\ events[i].win = c
              /\ events[j].type = "Create" /\ events[j].win = FrameOf[c]
              => j < i

(* A frame whose client is gone is there only until compiz hears of it.    *)
Mourned == \A c \in framed \ wrapped : Pending("Destroy", c)

(* A client that is put back into the order stays a window until then.     *)
PutBack ==
    \A i \in DOMAIN events : events[i].type = "Configure" /\ events[i].win \in Managed =>
        /\ events[i].win \notin framed /\ events[i].win \in ToSet(windows)
        /\ Ahead(events, i, "Destroy", FrameOf[events[i].win])
        /\ \A j \in DOMAIN events :
              events[j].type = "Destroy" /\ events[j].win = events[i].win => i < j

LEMMA PendingIsAhead ==
  ASSUME events \in Seq(Event), NEW type, NEW w
  PROVE  Pending(type, w) <=> Ahead(events, 0, type, w)
<1>1. \A i \in DOMAIN events : 0 < i
  OBVIOUS
<1> QED
  BY <1>1 DEF Pending, Ahead

LEMMA StillPending ==
  ASSUME events \in Seq(Event), events # << >>, NEW type, NEW w
  PROVE  /\ Ahead(Tail(events), 0, type, w) => Pending(type, w)
         /\ Pending(type, w) => Ahead(Tail(events), 0, type, w)
                                \/ (Head(events).type = type /\ Head(events).win = w)
BY PendingIsAhead, AheadOfTail

LEMMA HandleCreateHeard ==
  ASSUME StackInv, Announced, NEW plan, NEW list,
         Heard(plan, events, root, list, framed, asked, born),
         ListOK(list), ToSet(list) \subseteq Listed, HandleCreate
  PROVE  LET x     == Subject
             list2 == IF x \in Clients THEN Append(list, x) ELSE list
         IN  /\ Heard(plan, events', root', list2, framed', asked', born')
             /\ x \in Ids /\ x \notin ToSet(list)
             /\ UNCHANGED framed
             /\ IF x \in Clients
                THEN windows' = Append(windows, x) /\ serverWindows' = Append(serverWindows, x)
                ELSE UNCHANGED <<windows, serverWindows>>
<1> DEFINE x == Subject
           owners == {w \in framed : FrameOf[w] = x}
           list2 == IF x \in Clients THEN Append(list, x) ELSE list
<1>1. /\ Reads("Create") /\ events' = Tail(events)
      /\ IF owners # {} THEN UNCHANGED <<windows, serverWindows>>
         ELSE windows' = Append(windows, x) /\ serverWindows' = Append(serverWindows, x)
      /\ UNCHANGED <<root, framed, asked, born>>
  BY DEF HandleCreate, serverVars
<1>2. /\ 1 \in DOMAIN events /\ events[1].type = "Create" /\ events[1].win = x
      /\ Head(events) = events[1] /\ x \in Ids /\ events # << >>
      /\ Head(events).win = x
  BY <1>1, InvFacts, ReadsFirst DEF Reads
<1> HIDE DEF x
<1>3. x \notin ToSet(list)
  BY <1>2, InvFacts DEF Introduced
<1>4. \A c \in Managed : FrameOf[c] = x => c \in framed
  BY <1>2 DEF Announced, Pending
<1>5. Heard(plan, Tail(events), root, list2, framed, asked, born)
  BY <1>2, <1>3, <1>4, CreateHeard
<1>6. IF x \in Clients
      THEN windows' = Append(windows, x) /\ serverWindows' = Append(serverWindows, x)
      ELSE UNCHANGED <<windows, serverWindows>>
  <2>1. CASE x \in Clients
    <3>1. \A c \in framed : FrameOf[c] # x
      BY <2>1, InvFacts, FrameIds DEF OthersOK
    <3> QED
      BY <1>1, <2>1, <3>1
  <2>2. CASE x \notin Clients
    <3>1. PICK c \in Managed : FrameOf[c] = x
      BY <1>2, <2>2 DEF Ids, Frames
    <3> QED
      BY <1>1, <1>4, <2>2, <3>1
  <2> QED
    BY <2>1, <2>2
<1> QED
  BY <1>1, <1>2, <1>3, <1>5, <1>6 DEF x

LEMMA HandleUnmapHeard ==
  ASSUME StackInv, Announced, Mourned, NEW plan, NEW list,
         Heard(plan, events, root, list, framed, asked, born),
         ListOK(list), ToSet(list) \subseteq Listed, NEW with \in SUBSET framed,
         NEW held \in BOOLEAN, HandleUnmap(held)
  PROVE  IF Subject \in framed /\ ~ held
         THEN /\ Heard(plan, events', root', WithFrame(list, Subject, with),
                       framed', asked', born')
              /\ PutAbove(list, Subject, WithFrame(list, Subject, with))
         ELSE Heard(plan, events', root', list, framed', asked', born')
<1> DEFINE c == Subject
<1>1. /\ Reads("Unmap")
      /\ IF c \in framed /\ ~ held THEN Unreparent(c, Tail(events))
         ELSE events' = Tail(events) /\ UNCHANGED <<root, framed, asked, born>>
  BY DEF HandleUnmap, LosesFrame, serverVars, listVars
<1>2. /\ 1 \in DOMAIN events /\ events[1].type = "Unmap" /\ events[1].win = c
      /\ Head(events) = events[1] /\ c \in Ids /\ events # << >> /\ events \in Seq(Event)
  BY <1>1, InvFacts, ReadsFirst DEF Reads
<1> HIDE DEF c
<1>3. Heard(plan, Tail(events), root, list, framed, asked, born)
  BY <1>2, ReadQuietly
<1>4. CASE ~ (c \in framed /\ ~ held)
  BY <1>1, <1>3, <1>4 DEF c
<1>5. CASE c \in framed /\ ~ held
  <2>1. c \in Managed
    BY <1>5, InvFacts DEF OthersOK
  <2>2. ~ Pending("Create", FrameOf[c])
    <3>1. \A j \in DOMAIN events : ~ (j < 1)
      BY <1>2
    <3> QED
      BY <1>2, <2>1, <3>1 DEF Announced, Pending
  <2>3. c \in known
    BY <1>5, <2>2, InvFacts DEF FramesApart
  <2>4. ~ Ahead(Tail(events), 0, "Create", FrameOf[c])
    BY <1>2, <2>2, StillPending
  <2>5. c \in wrapped \/ Ahead(Tail(events), 0, "Destroy", c)
    <3>1. c \in wrapped \/ Pending("Destroy", c)
      BY <1>5 DEF Mourned
    <3> QED
      BY <1>2, <3>1, StillPending
  <2>6. Unreparent(c, Tail(events))
    BY <1>1, <1>5
  <2>7. /\ Heard(plan, events', root', WithFrame(list, c, with), framed', asked', born')
        /\ PutAbove(list, c, WithFrame(list, c, with))
    BY <1>3, <1>5, <2>3, <2>4, <2>5, <2>6, UnreparentHeard
  <2> QED
    BY <1>5, <2>7 DEF c
<1> QED
  BY <1>4, <1>5

LEMMA PluginUnmapsHeard ==
  ASSUME StackInv, Announced, Mourned, NEW plan, NEW list,
         Heard(plan, events, root, list, framed, asked, born),
         ListOK(list), ToSet(list) \subseteq Listed, NEW with \in SUBSET framed,
         NEW c \in Managed, PluginUnmaps(c)
  PROVE  /\ Heard(plan, events', root', WithFrame(list, c, with), framed', asked', born')
         /\ PutAbove(list, c, WithFrame(list, c, with))
<1>1. c \in unmapHeld /\ c \in framed /\ Unreparent(c, events) /\ events \in Seq(Event)
  BY InvFacts DEF PluginUnmaps, OthersOK
<1>2. ~ Pending("Create", FrameOf[c])
  BY <1>1 DEF Announced
<1>3. c \in known
  BY <1>1, <1>2, InvFacts DEF FramesApart
<1>4. ~ Ahead(events, 0, "Create", FrameOf[c])
  BY <1>1, <1>2, PendingIsAhead
<1>5. c \in wrapped \/ Ahead(events, 0, "Destroy", c)
  <2>1. c \in wrapped \/ Pending("Destroy", c)
    BY <1>1 DEF Mourned
  <2> QED
    BY <1>1, <2>1, PendingIsAhead
<1> QED
  BY <1>1, <1>3, <1>4, <1>5, UnreparentHeard

LEMMA HandleDestroyHeard ==
  ASSUME StackInv, Announced, NEW plan, NEW list,
         Heard(plan, events, root, list, framed, asked, born),
         ListOK(list), ToSet(list) \subseteq ToSet(windows), NEW with \in SUBSET framed,
         NEW keep \in BOOLEAN, HandleDestroy(keep)
  PROVE  LET list1 == WithFrame(list, Subject, with)
             list2 == Unhooked(list1, Subject)
         IN  /\ Heard(plan, events', root', list2, framed', asked', born')
             /\ IF Subject \in framed THEN PutAbove(list, Subject, list1) ELSE list1 = list
             /\ ~ Contains(windows, Subject) => list2 = list
<1> DEFINE w == Subject
           list1 == WithFrame(list, w, with)
           list2 == Unhooked(list1, w)
<1>1. /\ Reads("Destroy") /\ events' = Tail(events)
      /\ IF Contains(windows, w) THEN framed' = framed \ {w} ELSE UNCHANGED framed
      /\ UNCHANGED <<root, asked, born>>
  BY DEF HandleDestroy, serverVars, listVars
<1>2. /\ 1 \in DOMAIN events /\ events[1].type = "Destroy" /\ events[1].win = w
      /\ Head(events) = events[1] /\ w \in Ids /\ events # << >> /\ events \in Seq(Event)
      /\ w = Head(events).win /\ Head(events).type = "Destroy"
  BY <1>1, InvFacts, ReadsFirst DEF Reads
<1> HIDE DEF w
<1>3. /\ known \in SUBSET framed /\ framed \in SUBSET Managed
      /\ \A d \in framed : FrameOf[d] \notin ToSet(list)
  BY InvFacts DEF OthersOK, FramesApart, Listed
<1>4. w \in framed => w \in known /\ ~ Ahead(events, 0, "Create", FrameOf[w])
  <2> SUFFICES ASSUME w \in framed
               PROVE  w \in known /\ ~ Ahead(events, 0, "Create", FrameOf[w])
    OBVIOUS
  <2>1. \A j \in DOMAIN events : ~ (j < 1)
    BY <1>2
  <2>2. ~ Pending("Create", FrameOf[w])
    BY <1>2, <1>3, <2>1 DEF Announced, Pending
  <2>3. w \in known
    BY <2>2, InvFacts DEF FramesApart
  <2> QED
    BY <1>2, <2>2, <2>3, PendingIsAhead
<1>5. Heard(plan, Tail(events), root, list2, framed \ {w}, asked, born)
  BY <1>2, <1>3, <1>4, DestroyHeard
<1>6. IF w \in framed THEN PutAbove(list, w, list1) ELSE list1 = list
  <2>1. CASE w \in framed
    <3>1. w \in known /\ known \subseteq Managed /\ w \in ToSet(list) /\ FrameOf[w] \notin ToSet(list)
      BY <1>3, <1>4, <2>1, HeardFacts
    <3>2. with \in SUBSET Managed /\ \A d \in with : FrameOf[d] \notin ToSet(list)
      BY <1>3
    <3> QED
      BY <2>1, <3>1, <3>2, WithFrameOrder DEF PutAbove
  <2>2. CASE w \notin framed
    BY <1>3, <2>2 DEF WithFrame
  <2> QED
    BY <2>1, <2>2
<1>7. ~ Contains(windows, w) => list2 = list /\ framed \ {w} = framed
  <2> SUFFICES ASSUME w \notin ToSet(windows)
               PROVE  list2 = list /\ framed \ {w} = framed
    BY InvFacts, ContainsMember
  <2>1. w \notin framed
    BY HeardFacts
  <2>2. list1 = list
    BY <1>6, <2>1
  <2> QED
    BY <2>1, <2>2, NotThere
<1> HIDE DEF list2
<1>8. Heard(plan, events', root', list2, framed', asked', born')
  BY <1>1, <1>5, <1>7
<1> QED
  BY <1>6, <1>7, <1>8 DEF list2, w

(* A frame is given to a client whose place every order under way knows.   *)
LEMMA HandleMapRequestHeard ==
  ASSUME StackInv, NEW plan, NEW list,
         Heard(plan, events, root, list, framed, asked, born), HandleMapRequest
  PROVE  Heard(plan, events', root', list, framed', asked', born')
<1> DEFINE c == Subject
           f == FrameOf[c]
           t == Tail(events)
           e == [type |-> "Create", win |-> f]
<1>1. /\ Reads("MapRequest")
      /\ IF Contains(windows, c) /\ Contains(root, c)
         THEN /\ root' = ReplaceAll(root, c, f) /\ framed' = framed \cup {c}
              /\ events' = Append(t, e)
         ELSE events' = t /\ UNCHANGED <<root, framed>>
      /\ UNCHANGED <<asked, born>>
  BY DEF HandleMapRequest
<1>2. /\ 1 \in DOMAIN events /\ events[1].type = "MapRequest" /\ events[1].win = c
      /\ Head(events) = events[1] /\ c \in Ids /\ events # << >> /\ events \in Seq(Event)
  BY <1>1, InvFacts, ReadsFirst DEF Reads
<1> HIDE DEF c
<1>3. CASE ~ (Contains(windows, c) /\ Contains(root, c))
  <2>1. Heard(plan, t, root, list, framed, asked, born)
    BY <1>2, ReadQuietly
  <2> QED
    BY <1>1, <1>3, <2>1
<1>4. CASE Contains(windows, c) /\ Contains(root, c)
  <2>1. c \in ToSet(windows) /\ c \in ToSet(root)
    BY <1>4, InvFacts, ContainsMember
  <2>2. c \in asked /\ c \in Managed
    BY <1>2, InvFacts DEF OneRequest, OthersOK
  <2>3. /\ c \notin framed /\ f \notin ToSet(root) /\ f \notin ToSet(windows)
        /\ \A j \in DOMAIN events :
              events[j].type = "MapRequest" /\ events[j].win = c => j = 1
    BY <1>2, <2>2, InvFacts DEF OneRequest, Unheard, Listed
  <2>4. ~ Pending("Create", c)
    BY <2>1, InvFacts DEF Introduced, Listed, Pending
  <2>5. PICK r : /\ Snapshots(plan, events, r, root, framed, asked, born)
                 /\ Shows(r[0], list, framed) /\ Explained(events, r[0], list, framed)
    BY DEF Heard
  <2> DEFINE l == Later(r, events)
             m == Len(events)
             p == r[0]
  <2>6. /\ Snapshots(plan, t, l, root, framed, asked, born)
        /\ Tells(plan, Head(events), r[0], r[1]) /\ l[0] = r[1]
    BY <1>2, <2>5, SnapshotsLater
  <2>7. l[0] = p
    BY <1>2, <2>6 DEF Tells
  <2>8. /\ t \in Seq(Event) /\ Len(t) = m - 1 /\ m \in Nat \ {0}
    BY <1>2, AheadOfTail
  <2>9. Waiting(events, asked, c)
    <3>1. Pending("MapRequest", c)
      BY <1>2 DEF Pending
    <3> QED
      BY <1>2, <3>1, PendingIsAhead DEF Waiting
  <2>10. \A i \in 0 .. m : c \in ToSet(r[i]) /\ f \notin ToSet(r[i])
    <3>1. \A i \in 0 .. m : c \in ToSet(r[i]) \/ Ahead(events, i, "Create", c)
      BY <2>1, <2>2, <2>5, <2>9 DEF Snapshots, ClientsSeen
    <3>2. \A i \in 0 .. m : ~ Ahead(events, i, "Create", c)
      BY <2>4 DEF Ahead, Pending
    <3>3. \A i \in 0 .. m : f \in ToSet(r[i]) => ~ Waiting(events, asked, c)
      BY <2>2, <2>5 DEF Snapshots, NotYet
    <3> QED
      BY <2>9, <3>1, <3>2, <3>3
  <2>11. \A i \in 0 .. Len(t) : c \in ToSet(l[i]) /\ f \notin ToSet(l[i])
    <3>1. \A i \in 0 .. m - 1 : i + 1 \in 0 .. m
      BY <2>8
    <3>2. \A i \in 0 .. m - 1 : l[i] = r[i + 1]
      BY DEF Later
    <3> QED
      BY <2>8, <2>10, <3>1, <3>2
  <2>12. ~ Waiting(t, asked, c)
    <3>1. \A j \in 1 .. m - 1 : j + 1 \in 1 .. m /\ j + 1 # 1
      BY <2>8
    <3>2. DOMAIN events = 1 .. m /\ DOMAIN t = 1 .. m - 1
          /\ \A j \in 1 .. m - 1 : t[j] = events[j + 1]
      BY <1>2, <2>8, AheadOfTail
    <3>3. ~ Ahead(t, 0, "MapRequest", c)
      BY <2>3, <3>1, <3>2 DEF Ahead
    <3> QED
      BY <2>2, <3>3 DEF Waiting
  <2> HIDE DEF l, t, p
  <2>13. Snapshots(plan, Append(t, e), More(l, t, root'), root', framed \cup {c}, asked, born)
    <3>1. c \in Managed \ framed /\ FrameOf[c] \notin ToSet(root)
          /\ \A i \in 0 .. Len(t) : c \in ToSet(l[i]) /\ FrameOf[c] \notin ToSet(l[i])
      BY <2>2, <2>3, <2>11
    <3>2. Snapshots(plan, Append(t, [type |-> "Create", win |-> FrameOf[c]]),
                    More(l, t, ReplaceAll(root, c, FrameOf[c])),
                    ReplaceAll(root, c, FrameOf[c]), framed \cup {c}, asked, born)
      BY <2>1, <2>6, <2>12, <3>1, SnapshotsFramed
    <3>3. root' = ReplaceAll(root, c, FrameOf[c])
      BY <1>1, <1>4
    <3> QED
      BY <3>2, <3>3
  <2>14. More(l, t, root')[0] = p
    <3>1. 0 \in 0 .. Len(t) + 1 /\ 0 <= Len(t)
      BY <2>8
    <3> QED
      BY <2>7, <3>1 DEF More
  <2>15. f \notin ToSet(p)
    <3>1. 0 \in 0 .. m
      BY <2>8
    <3> QED
      BY <2>10, <3>1 DEF p
  <2>16. Shows(p, list, framed \cup {c})
    <3>1. framed \cup {c} \in SUBSET Managed /\ (framed \cup {c}) \ {c} = framed
      BY <2>2, <2>3, InvFacts DEF OthersOK
    <3>2. \A x : x # f => WindowIn(x, framed \cup {c}) = WindowIn(x, framed)
      BY <3>1, FewerWindows
    <3>3. \A x \in ToSet(p) : WindowIn(x, framed \cup {c}) = WindowIn(x, framed)
      BY <2>15, <3>2
    <3> QED
      BY <2>5, <3>3 DEF Shows, p
  <2>17. \A type, w : Ahead(events, 0, type, w) /\ type # "MapRequest"
                        => Ahead(Append(t, e), 0, type, w)
    <3>1. \A type, w : Ahead(events, 0, type, w) /\ type # "MapRequest" => Ahead(t, 0, type, w)
      BY <1>2, AheadOfTail DEF t
    <3>2. e \in Event
      BY <2>2, EventShapes, FrameIds
    <3>3. 0 \in 0 .. Len(t)
      BY <2>8
    <3> HIDE DEF e
    <3>4. \A type, w : Ahead(t, 0, type, w) => Ahead(Append(t, e), 0, type, w)
      BY <2>8, <3>2, <3>3, AheadOfMore
    <3> QED
      BY <3>1, <3>4
  <2> HIDE DEF e
  <2>18. Explained(Append(t, e), p, list, framed \cup {c})
    BY <2>5, <2>17 DEF Explained, p
  <2>19. Heard(plan, Append(t, e), root', list, framed \cup {c}, asked, born)
    BY <2>13, <2>14, <2>16, <2>18 DEF Heard
  <2> QED
    BY <1>1, <1>4, <2>19
<1> QED
  BY <1>3, <1>4

(* ConfigureNotify                                                         *)
LEMMA RestackShows ==
  ASSUME StackInv, NEW p, NEW p2, ListOK(p2), Shows(p, windows, framed), Apart(p2, framed),
         \A c \in framed : FrameOf[c] \in ToSet(p2) => c \in known,
         NEW x, x \notin framed, NEW above, Sits(p2, x, above),
         ToSet(p2) \ {x} \subseteq ToSet(p),
         \A a, b : a # x /\ b # x /\ Below(p2, a, b) => Below(p, a, b),
         WindowIn(x, framed) \in ToSet(windows), Restack(WindowIn(x, framed), above)
  PROVE  Shows(p2, windows', framed) /\ ToSet(windows') = ToSet(windows)
<1> DEFINE w == WindowIn(x, framed)
<1>1. /\ x \in ToSet(p2) /\ above # x /\ (above = Nothing \/ above \in ToSet(p2))
  BY DEF Sits
<1>2. framed \in SUBSET Managed /\ known \subseteq framed /\ ListOK(windows)
      /\ \A c \in framed : FrameOf[c] \notin ToSet(windows)
  BY InvFacts DEF OthersOK, ListOK, FramesApart, Listed
<1>3. x \in Ids /\ above \in Ids \cup {Nothing} /\ Nothing \notin ToSet(p2)
  BY <1>1, BelowFacts
<1>4. RootParent(w) = x
  <2>1. CASE \E c \in framed : FrameOf[c] = x
    BY <1>2, <2>1, WindowIs DEF RootParent
  <2>2. CASE \A c \in framed : FrameOf[c] # x
    BY <1>2, <2>2, WindowIs DEF RootParent
  <2> QED
    BY <2>1, <2>2
<1>5. above # w
  <2>1. CASE \E c \in framed : FrameOf[c] = x
    <3>1. PICK c \in framed : FrameOf[c] = x
      BY <2>1
    <3>2. w = c /\ c \notin ToSet(p2) /\ c # Nothing
      BY <1>1, <1>2, <3>1, WindowIs, FrameIds, IdsAssumption DEF Apart
    <3> QED
      BY <1>1, <3>2
  <2>2. CASE \A c \in framed : FrameOf[c] # x
    BY <1>1, <1>2, <2>2, WindowIs
  <2> QED
    BY <2>1, <2>2
<1>6. above # Nothing => WindowIn(above, known) = WindowIn(above, framed)
  <2> SUFFICES ASSUME above # Nothing
               PROVE  WindowIn(above, known) = WindowIn(above, framed)
    OBVIOUS
  <2>0. known \in SUBSET Managed /\ above \in ToSet(p2)
    BY <1>1, <1>2
  <2>1. CASE \E c \in framed : FrameOf[c] = above
    <3>1. PICK c \in framed : FrameOf[c] = above
      BY <2>1
    <3>2. c \in known
      BY <2>0, <3>1
    <3> QED
      BY <1>2, <2>0, <3>1, <3>2, WindowIs
  <2>2. CASE \A c \in framed : FrameOf[c] # above
    <3>1. \A c \in known : FrameOf[c] # above
      BY <1>2, <2>2
    <3> QED
      BY <1>2, <2>0, <2>2, <3>1, WindowIs
  <2> QED
    BY <2>1, <2>2
<1>7. Target(above, known) = Target(above, framed)
  BY <1>6 DEF Target
<1>8. above = Nothing \/ WindowIn(above, known) \in ToSet(windows) \ {w}
  <2> SUFFICES ASSUME above # Nothing
               PROVE  WindowIn(above, framed) \in ToSet(windows) \ {w}
    BY <1>6
  <2>1. above \in ToSet(p2) /\ above \in ToSet(p)
    BY <1>1
  <2>2. WindowIn(above, framed) \in ToSet(windows)
    BY <2>1 DEF Shows
  <2>3. WindowIn(above, framed) # w
    BY <1>1, <1>2, <2>1, WindowsApart
  <2> QED
    BY <2>2, <2>3
<1> HIDE DEF w
<1>9. /\ ListOK(windows') /\ ToSet(windows') = ToSet(windows)
      /\ \A a, b : a # w /\ b # w => (Below(windows', a, b) <=> Below(windows, a, b))
      /\ Sits(windows', w, Target(above, known))
  <2>1. above \notin {w, RootParent(w)}
    BY <1>1, <1>4, <1>5
  <2>2. w \in ToSet(windows) /\ Restack(w, above)
    BY DEF w
  <2>3. \A c \in known : FrameOf[c] \notin ToSet(windows)
    BY <1>2
  <2>4. framed \subseteq Managed
    BY <1>2
  <2> QED
    BY <1>2, <1>3, <1>8, <2>1, <2>2, <2>3, <2>4, RestackView
<1>10. Sits(windows', WindowIn(x, framed), Target(above, framed))
  BY <1>7, <1>9 DEF w
<1>11. /\ ToSet(windows) \subseteq ToSet(windows')
       /\ \A a, b : a # WindowIn(x, framed) /\ b # WindowIn(x, framed) /\ Below(windows, a, b)
                      => Below(windows', a, b)
  BY <1>9 DEF w
<1>12. Shows(p2, windows', framed)
  BY <1>2, <1>9, <1>10, <1>11, ShowsMoved
<1> QED
  BY <1>9, <1>12

LEMMA ConfigureShows ==
  ASSUME StackInv, PutBack, HandleConfigure, NEW r,
         Snapshots(FALSE, events, r, root, framed, asked, born),
         Shows(r[0], windows, framed), Explained(events, r[0], windows, framed)
  PROVE  /\ Snapshots(FALSE, events', Later(r, events), root', framed', asked', born')
         /\ Later(r, events)[0] = r[1] /\ ToSet(windows') = ToSet(windows)
         /\ Shows(r[1], windows', framed) /\ Explained(events', r[1], windows', framed)
         /\ ListOK(r[0]) /\ ListOK(r[1]) /\ Apart(r[1], framed)
         /\ Subject \notin Managed => ToSet(r[1]) = ToSet(r[0]) /\ r[1] # r[0]
<1> DEFINE x == Subject
           above == Head(events).above
           t == Tail(events)
           owners == {c \in known : FrameOf[c] = x /\ Contains(windows, c)}
           w == WindowIn(x, framed)
<1>1. /\ Reads("Configure") /\ events' = t
      /\ IF Contains(windows, x) /\ x \notin known THEN Restack(x, above)
         ELSE owners # {} => \E c \in owners : Restack(c, above)
      /\ UNCHANGED <<root, framed, asked, born>>
  BY DEF HandleConfigure, serverVars
<1>2. /\ 1 \in DOMAIN events /\ events[1].type = "Configure" /\ events[1].win = x
      /\ Head(events) = events[1] /\ x \in Ids /\ events # << >> /\ events \in Seq(Event)
      /\ Head(events).type = "Configure" /\ Head(events).win = x
  BY <1>1, InvFacts, ReadsFirst DEF Reads
<1>3. /\ framed \in SUBSET Managed /\ known \subseteq framed /\ windows \in Seq(Ids)
      /\ \A c \in framed : FrameOf[c] \notin ToSet(windows)
  BY InvFacts DEF OthersOK, FramesApart, Listed
<1> HIDE DEF x, above
<1>4. /\ Snapshots(FALSE, events, r, root, framed, asked, born)
      /\ Shows(r[0], windows, framed) /\ Explained(events, r[0], windows, framed)
  OBVIOUS
<1> DEFINE l == Later(r, events)
           p == r[0]
           p2 == r[1]
<1>5. /\ Snapshots(FALSE, t, l, root, framed, asked, born)
      /\ Tells(FALSE, Head(events), p, p2) /\ l[0] = p2 /\ ListOK(p) /\ ListOK(p2)
  BY <1>2, <1>4, SnapshotsLater
<1> HIDE DEF l
<1>6. /\ Apart(p2, framed)
      /\ \A c \in framed : IF Ahead(t, 0, "Create", FrameOf[c])
                          THEN c \in ToSet(p2) /\ FrameOf[c] \notin ToSet(p2)
                          ELSE c \notin ToSet(p2) /\ FrameOf[c] \in ToSet(p2)
  <2>1. /\ Apart(l[0], framed)
        /\ \A c \in framed : IF Ahead(t, 0, "Create", FrameOf[c])
                          THEN c \in ToSet(l[0]) /\ FrameOf[c] \notin ToSet(l[0])
                          ELSE c \notin ToSet(l[0]) /\ FrameOf[c] \in ToSet(l[0])
    <3> HIDE DEF p, p2, t
    <3> QED
      BY <1>5, SnapshotsLast
  <2> QED
    BY <1>5, <2>1
<1>7. \A c \in framed : FrameOf[c] \in ToSet(p2) => c \in known
  <2> SUFFICES ASSUME NEW c \in framed, FrameOf[c] \in ToSet(p2)
               PROVE  c \in known
    OBVIOUS
  <2>1. ~ Ahead(t, 0, "Create", FrameOf[c])
    BY <1>6
  <2>2. ~ Pending("Create", FrameOf[c])
    BY <1>2, <2>1, StillPending
  <2> QED
    BY <2>2, InvFacts DEF FramesApart
<1> HIDE DEF t, p, p2
<1>8. /\ x \notin framed /\ Sits(p2, x, above) /\ ToSet(p2) \ {x} \subseteq ToSet(p)
      /\ \A a, b : a # x /\ b # x /\ Below(p2, a, b) => Below(p, a, b)
      /\ w \in ToSet(windows) /\ Restack(w, above)
      /\ \A y \in ToSet(windows) : y \notin ToSet(p2) =>
            y \notin ToSet(p) \/ Ahead(t, 0, "Destroy", y)
  <2>1. CASE x \in Managed
    <3> DEFINE f == FrameOf[x]
    <3>1. /\ x \notin ToSet(p) /\ f \in ToSet(p) /\ p2 = ReplaceAll(p, f, x)
          /\ above = PrevIn(p2, x)
      BY <1>2, <1>5, <2>1 DEF Tells, above
    <3>2. x \notin framed /\ x \in ToSet(windows) /\ Ahead(events, 1, "Destroy", f)
      BY <1>2, <2>1 DEF PutBack
    <3> HIDE DEF f
    <3>3. /\ ToSet(p2) = (ToSet(p) \ {f}) \cup {x}
          /\ \A a, b : a # x /\ b # x => (Below(p2, a, b) <=> Below(p, a, b) /\ a # f /\ b # f)
      BY <1>2, <1>5, <3>1, ReplacedOrder
    <3>4. Sits(p2, x, above)
      BY <1>5, <3>1, <3>3, PrevSits
    <3>5. w = x
      <4>1. x \in Clients
        BY <2>1, FrameIds
      <4> QED
        BY <1>3, <4>1, WindowIs
    <3>6. Restack(x, above)
      BY <1>1, <1>3, <3>2, ContainsMember
    <3>7. Ahead(t, 0, "Destroy", f)
      <4>1. 0 \in 0 .. Len(events) - 1 /\ 0 + 1 = 1
        BY <1>2
      <4>2. Ahead(t, 0, "Destroy", f) <=> Ahead(events, 0 + 1, "Destroy", f)
        BY <1>2, <4>1, AheadOfTail DEF t
      <4> QED
        BY <3>2, <4>1, <4>2
    <3> HIDE DEF w
    <3> QED
      BY <3>2, <3>3, <3>4, <3>5, <3>6, <3>7
  <2>2. CASE x \notin Managed
    <3>1. /\ x \in ToSet(p) /\ above # x /\ (above = Nothing \/ above \in ToSet(p))
          /\ p2 = MovedAbove(p, x, above)
      BY <1>2, <1>5, <2>2 DEF Tells, above
    <3>2. /\ ToSet(p2) = ToSet(p) /\ Sits(p2, x, above)
          /\ \A a, b : a # x /\ b # x => (Below(p2, a, b) <=> Below(p, a, b))
      BY <1>5, <3>1, MovedOrder
    <3>3. w \in ToSet(windows)
      BY <1>4, <3>1 DEF Shows, p
    <3>4. Restack(w, above)
      <4>1. CASE \E c \in framed : FrameOf[c] = x
        <5>1. PICK c \in framed : FrameOf[c] = x
          BY <4>1
        <5>2. w = c /\ c \in known /\ x \notin ToSet(windows)
          BY <1>3, <1>7, <3>1, <3>2, <5>1, WindowIs
        <5>3. ~ Contains(windows, x) /\ Contains(windows, c)
          BY <1>3, <3>3, <5>2, ContainsMember
        <5>4. \A d \in owners : d = c
          BY <1>3, <5>1, FrameIds
        <5>5. c \in owners
          BY <5>1, <5>2, <5>3
        <5> QED
          BY <1>1, <5>2, <5>3, <5>4, <5>5
      <4>2. CASE \A c \in framed : FrameOf[c] # x
        <5>1. w = x
          BY <1>3, <4>2, WindowIs
        <5>2. Contains(windows, x) /\ x \notin known
          BY <1>3, <2>2, <3>3, <5>1, ContainsMember
        <5> QED
          BY <1>1, <5>1, <5>2
      <4> QED
        BY <4>1, <4>2
    <3>5. x \notin framed
      BY <1>3, <2>2
    <3> HIDE DEF w
    <3> QED
      BY <3>2, <3>3, <3>4, <3>5
  <2> QED
    BY <2>1, <2>2
<1>9. Shows(p2, windows', framed) /\ ToSet(windows') = ToSet(windows)
  BY <1>4, <1>5, <1>6, <1>7, <1>8, RestackShows DEF p
<1>10. Explained(t, p2, windows', framed)
  <2> SUFFICES ASSUME NEW y \in ToSet(windows), y \notin ToSet(p2), y \notin framed
               PROVE  \/ Ahead(t, 0, "Destroy", y)
                      \/ y \in Managed /\ Ahead(t, 0, "Configure", y)
    BY <1>9 DEF Explained
  <2>1. CASE Ahead(t, 0, "Destroy", y)
    BY <2>1
  <2>2. CASE y \notin ToSet(p)
    <3>1. Ahead(events, 0, "Destroy", y) \/ (y \in Managed /\ Ahead(events, 0, "Configure", y))
      BY <1>4, <2>2 DEF Explained, p
    <3>2. y # x
      BY <1>8 DEF Sits
    <3>3. \A type : Ahead(events, 0, type, y) => Ahead(t, 0, type, y)
      BY <1>2, <3>2, AheadOfTail DEF t
    <3> QED
      BY <3>1, <3>3
  <2> QED
    BY <1>8, <2>1, <2>2
<1>11. x \notin Managed => ToSet(p2) = ToSet(p) /\ p2 # p
  <2> SUFFICES ASSUME x \notin Managed
               PROVE  ToSet(p2) = ToSet(p) /\ p2 # p
    OBVIOUS
  <2>1. /\ x \in ToSet(p) /\ above # x /\ (above = Nothing \/ above \in ToSet(p))
        /\ p2 = MovedAbove(p, x, above) /\ p2 # p
    BY <1>2, <1>5 DEF Tells, above
  <2> QED
    BY <1>5, <2>1, MovedOrder
<1> QED
  BY <1>1, <1>5, <1>6, <1>9, <1>10, <1>11 DEF t, l, p, p2, x

LEMMA HandleConfigureTold ==
  ASSUME StackInv, Told, PutBack, HandleConfigure
  PROVE  Told'
<1>1. PICK r : /\ Snapshots(FALSE, events, r, root, framed, asked, born)
               /\ Shows(r[0], windows, framed) /\ Explained(events, r[0], windows, framed)
  BY DEF Told, Heard
<1>2. /\ Snapshots(FALSE, events', Later(r, events), root', framed', asked', born')
      /\ Later(r, events)[0] = r[1]
      /\ Shows(r[1], windows', framed) /\ Explained(events', r[1], windows', framed)
  BY <1>1, ConfigureShows
<1>3. framed' = framed
  BY DEF HandleConfigure
<1> QED
  BY <1>2, <1>3 DEF Told, Heard

(* Two orders of the same windows that one list shows are the same.        *)
LEMMA ShownOnce ==
  ASSUME NEW held \in SUBSET Managed, NEW p, ListOK(p), NEW q, ListOK(q), ToSet(q) = ToSet(p),
         NEW list, ListOK(list), Shows(p, list, held), Shows(q, list, held), Apart(q, held)
  PROVE  q = p
<1>1. ASSUME NEW x \in ToSet(p), NEW y \in ToSet(p), Below(p, x, y)
      PROVE  Below(q, x, y)
  <2>1. x # y /\ Below(list, WindowIn(x, held), WindowIn(y, held))
    BY <1>1, BelowFacts DEF Shows
  <2>2. ~ Below(list, WindowIn(y, held), WindowIn(x, held))
    BY <2>1, BelowFacts
  <2>3. ~ Below(q, y, x)
    BY <2>2 DEF Shows
  <2> QED
    BY <2>1, <2>3, BelowFacts
<1>2. SameOrder(p, q)
  BY <1>1 DEF SameOrder
<1> QED
  BY <1>2, SameLists

(* A ConfigureNotify, but of a client put back, moves a window of compiz.  *)
LEMMA ConfigureMoves ==
  ASSUME StackInv, Told, PutBack, HandleConfigure, Subject \notin Managed
  PROVE  windows' # windows
<1>1. PICK r : /\ Snapshots(FALSE, events, r, root, framed, asked, born)
               /\ Shows(r[0], windows, framed) /\ Explained(events, r[0], windows, framed)
  BY DEF Told, Heard
<1>2. /\ Shows(r[1], windows', framed) /\ ListOK(r[0]) /\ ListOK(r[1]) /\ Apart(r[1], framed)
      /\ ToSet(r[1]) = ToSet(r[0]) /\ r[1] # r[0]
  BY <1>1, ConfigureShows
<1>3. framed \in SUBSET Managed /\ ListOK(windows)
  BY InvFacts DEF OthersOK, ListOK
<1> QED
  BY <1>1, <1>2, <1>3, ShownOnce

-----------------------------------------------------------------------------
(* The three facts about the queue hold after each step.                   *)

Orderly == Announced /\ Mourned /\ PutBack

(* What a step must do to keep them                                        *)
OrderlyStep(d) ==
    /\ EventsFollow(d)
    /\ \A i \in News(d) : \A c \in Managed :
          /\ events'[i].type = "Create" /\ events'[i].win = FrameOf[c] =>
                /\ c \in framed' \ unmapHeld'
                /\ \A j \in DOMAIN events' :
                      events'[j].type \in {"Unmap", "Destroy"} => events'[j].win # c
          /\ events'[i].type = "Configure" /\ events'[i].win = c =>
                /\ c \notin framed' /\ c \in ToSet(windows)'
                /\ \E j \in News(d) :
                      i < j /\ events'[j].type = "Destroy" /\ events'[j].win = FrameOf[c]
                /\ \A j \in DOMAIN events' : events'[j].type = "Destroy" => events'[j].win # c
    /\ \A c \in framed \ unmapHeld : c \in framed' \ unmapHeld' \/ c \in known
    /\ \A c \in framed' \ wrapped' :
          \/ /\ c \in framed \ wrapped
             /\ d = 1 => events[1].type # "Destroy" \/ events[1].win # c
          \/ \E i \in News(d) : events'[i].type = "Destroy" /\ events'[i].win = c
    /\ \A c \in framed' \ framed : \A i \in DOMAIN events :
          events[i].type = "Configure" => events[i].win # c
    /\ \A c \in ToSet(windows) : c \in ToSet(windows)' \/
          (d = 1 /\ events[1].type = "Destroy" /\ events[1].win = c)

LEMMA OrderlyStays ==
  ASSUME StackInv, Orderly, NEW d, OrderlyStep(d)
  PROVE  Orderly'
<1> USE DEF OrderlyStep
<1>1. events \in Seq(Event) /\ Announced /\ Mourned /\ PutBack /\ FramesApart
      /\ framed \subseteq Managed
  BY InvFacts DEF Orderly, OthersOK
<1>2. EventsFollow(d)
  OBVIOUS
<1>3. /\ \A i \in DOMAIN events' : i \in News(d) \/
            (i + d \in DOMAIN events /\ events'[i] = events[i + d])
      /\ \A i \in DOMAIN events : (d = 1 /\ i = 1) \/
            (i - d \in DOMAIN events' /\ events'[i - d] = events[i])
      /\ \A i \in DOMAIN events' : \A j \in News(d) : i \notin News(d) => i < j
      /\ \A i, j \in DOMAIN events' : (i < j => i + d < j + d) /\ (i + d = j + d => i = j)
  BY <1>1, <1>2, FollowPlaces
<1>4. /\ News(d) \subseteq DOMAIN events' /\ d \in {0, 1} /\ Len(events') \in Nat
      /\ DOMAIN events' = 1 .. Len(events') /\ DOMAIN events = 1 .. Len(events)
      /\ Len(events) \in Nat
  BY <1>1, <1>2 DEF News, EventsFollow
<1>5. /\ \A i, j \in DOMAIN events' : i + d < j + d => i < j
      /\ \A i \in DOMAIN events' : \A j \in DOMAIN events :
            i + d < j => i < j - d /\ ~ (d = 1 /\ j = 1)
  BY <1>4
<1>6. Announced'
  <2> SUFFICES ASSUME NEW c \in Managed, NEW j \in DOMAIN events',
                      events'[j].type = "Create", events'[j].win = FrameOf[c]
               PROVE  /\ c \in framed' \ unmapHeld'
                      /\ \A i \in DOMAIN events' :
                            events'[i].type \in {"Unmap", "Destroy"} /\ events'[i].win = c
                            => j < i
    BY DEF Announced, Pending
  <2>1. CASE j \in News(d)
    BY <2>1
  <2>2. CASE j \notin News(d)
    <3>1. j + d \in DOMAIN events /\ events'[j] = events[j + d]
      BY <1>3, <2>2
    <3>2. Pending("Create", FrameOf[c])
      BY <3>1 DEF Pending
    <3>3. /\ c \in framed \ unmapHeld
          /\ \A i \in DOMAIN events :
                events[i].type \in {"Unmap", "Destroy"} /\ events[i].win = c => j + d < i
      BY <1>1, <3>1, <3>2 DEF Announced
    <3>4. c \in framed' \ unmapHeld'
      BY <1>1, <3>2, <3>3 DEF FramesApart
    <3>5. ASSUME NEW i \in DOMAIN events',
                 events'[i].type \in {"Unmap", "Destroy"}, events'[i].win = c
          PROVE  j < i
      <4>1. CASE i \in News(d)
        BY <1>3, <2>2, <4>1
      <4>2. CASE i \notin News(d)
        <5>1. i + d \in DOMAIN events /\ events'[i] = events[i + d]
          BY <1>3, <4>2
        <5>2. j + d < i + d
          BY <3>3, <3>5, <5>1
        <5> QED
          BY <1>5, <5>2
      <4> QED
        BY <4>1, <4>2
    <3> QED
      BY <3>4, <3>5
  <2> QED
    BY <2>1, <2>2
<1>7. Mourned'
  <2> SUFFICES ASSUME NEW c \in framed' \ wrapped'
               PROVE  \E i \in DOMAIN events' :
                         events'[i].type = "Destroy" /\ events'[i].win = c
    BY DEF Mourned, Pending
  <2>1. CASE \E i \in News(d) : events'[i].type = "Destroy" /\ events'[i].win = c
    BY <1>4, <2>1
  <2>2. CASE /\ c \in framed \ wrapped
             /\ d = 1 => events[1].type # "Destroy" \/ events[1].win # c
    <3>1. PICK i \in DOMAIN events : events[i].type = "Destroy" /\ events[i].win = c
      BY <1>1, <2>2 DEF Mourned, Pending
    <3>2. i - d \in DOMAIN events' /\ events'[i - d] = events[i]
      BY <1>3, <2>2, <3>1
    <3> QED
      BY <3>1, <3>2
  <2> QED
    BY <2>1, <2>2
<1>8. PutBack'
  <2> SUFFICES ASSUME NEW i \in DOMAIN events', NEW c \in Managed,
                      events'[i].type = "Configure", events'[i].win = c
               PROVE  /\ c \notin framed' /\ c \in ToSet(windows)'
                      /\ \E j \in DOMAIN events' : i < j /\ events'[j].type = "Destroy"
                                                   /\ events'[j].win = FrameOf[c]
                      /\ \A j \in DOMAIN events' :
                            events'[j].type = "Destroy" /\ events'[j].win = c => i < j
    BY DEF PutBack, Ahead
  <2>1. CASE i \in News(d)
    BY <1>4, <2>1
  <2>2. CASE i \notin News(d)
    <3>1. i + d \in DOMAIN events /\ events'[i] = events[i + d]
      BY <1>3, <2>2
    <3>2. /\ c \notin framed /\ c \in ToSet(windows) /\ Ahead(events, i + d, "Destroy", FrameOf[c])
          /\ \A j \in DOMAIN events :
                events[j].type = "Destroy" /\ events[j].win = c => i + d < j
      BY <1>1, <3>1 DEF PutBack
    <3>3. c \notin framed'
      BY <3>1, <3>2
    <3>4. c \in ToSet(windows)'
      <4>1. ~ (d = 1 /\ events[1].type = "Destroy" /\ events[1].win = c)
        <5> SUFFICES ASSUME d = 1, events[1].type = "Destroy", events[1].win = c
                     PROVE  FALSE
          OBVIOUS
        <5>1. 1 \in DOMAIN events /\ ~ (i + d < 1)
          BY <1>4, <3>1
        <5> QED
          BY <3>2, <5>1
      <4> QED
        BY <3>2, <4>1
    <3>5. \E j \in DOMAIN events' : i < j /\ events'[j].type = "Destroy"
                                    /\ events'[j].win = FrameOf[c]
      <4>1. PICK j \in DOMAIN events : i + d < j /\ events[j].type = "Destroy"
                                       /\ events[j].win = FrameOf[c]
        BY <3>2 DEF Ahead
      <4>2. i < j - d /\ ~ (d = 1 /\ j = 1)
        BY <1>5, <4>1
      <4>3. j - d \in DOMAIN events' /\ events'[j - d] = events[j]
        BY <1>3, <4>2
      <4> QED
        BY <4>1, <4>2, <4>3
    <3>6. ASSUME NEW j \in DOMAIN events', events'[j].type = "Destroy", events'[j].win = c
          PROVE  i < j
      <4>1. CASE j \in News(d)
        BY <1>3, <2>2, <4>1
      <4>2. CASE j \notin News(d)
        <5>1. j + d \in DOMAIN events /\ events'[j] = events[j + d]
          BY <1>3, <4>2
        <5>2. i + d < j + d
          BY <3>2, <3>6, <5>1
        <5> QED
          BY <1>5, <5>2
      <4> QED
        BY <4>1, <4>2
    <3> QED
      BY <3>3, <3>4, <3>5, <3>6
  <2> QED
    BY <2>1, <2>2
<1> QED
  BY <1>6, <1>7, <1>8 DEF Orderly

(* A step of which only its news matters                                   *)
LEMMA QuietStays ==
  ASSUME StackInv, Orderly, NEW d, EventsFollow(d),
         \A i \in News(d) : events'[i].win \in Clients \/ events'[i].type # "Create",
         \A i \in News(d) : events'[i].win \notin Managed \/ events'[i].type # "Configure",
         \A c \in wrapped \ wrapped' : \E i \in News(d) :
            events'[i].type = "Destroy" /\ events'[i].win = c,
         d = 1 => events[1].type # "Destroy",
         framed' = framed, unmapHeld' = unmapHeld, ToSet(windows) \subseteq ToSet(windows)'
  PROVE  Orderly'
<1>1. \A i \in News(d) : \A c \in Managed :
         events'[i].type = "Create" => events'[i].win # FrameOf[c]
  BY FrameIds
<1>2. OrderlyStep(d)
  BY <1>1 DEF OrderlyStep
<1> QED
  BY <1>2, OrderlyStays

LEMMA ClientsStayOrderly ==
  ASSUME StackInv, Orderly, NEW c \in Clients,
         ClientCreates(c) \/ ClientMaps(c) \/ ClientUnmaps(c)
  PROVE  Orderly'
<1> DEFINE t == IF ClientCreates(c) THEN "Create"
                ELSE IF ClientMaps(c) THEN "MapRequest" ELSE "Unmap"
           e == [type |-> t, win |-> c]
<1>1. /\ events' = Append(events, e)
      /\ UNCHANGED <<wrapped, framed, unmapHeld, windows>>
  BY DEF ClientCreates, ClientMaps, ClientUnmaps, listVars
<1>2. e \in Event /\ e.win = c /\ e.type # "Configure"
  <2>1. c \in Ids /\ t \in {"Create", "MapRequest", "Unmap"}
    BY DEF Ids
  <2> HIDE DEF t
  <2> QED
    BY <2>1, EventShapes
<1> HIDE DEF e
<1>3. EventsFollow(0) /\ News(0) = {Len(events')} /\ events'[Len(events')] = e
  BY <1>1, <1>2, InvFacts, OneMore DEF EventsFollow
<1> QED
  BY <1>1, <1>2, <1>3, QuietStays

LEMMA OverrideMovesStaysOrderly ==
  ASSUME StackInv, Orderly, Told, NEW o \in Overrides, NEW above \in Ids \cup {Nothing},
         OverrideMoves(o, above)
  PROVE  Orderly'
<1> DEFINE e == Configure(root', o, 0)
<1>1. /\ Contains(root, o) /\ above # o
      /\ above = Nothing \/ Contains(root, above)
      /\ root' = MovedAbove(root, o, above) /\ events' = Append(events, e)
      /\ UNCHANGED <<wrapped, framed, unmapHeld, windows>>
  BY DEF OverrideMoves, listVars
<1>2. ListOK(root) /\ root \in Seq(Ids)
  BY InvFacts DEF ListOK
<1>3. o \in ToSet(root) /\ (above = Nothing \/ above \in ToSet(root)) /\ o \notin Managed
  BY <1>1, <1>2, ContainsMember, IdsAssumption
<1>4. ListOK(root') /\ ToSet(root') = ToSet(root)
  BY <1>1, <1>2, <1>3, MovedOrder
<1>5. e \in Event /\ e.type = "Configure" /\ e.win = o
  <2>1. root' \in Seq(Ids) /\ Distinct(root') /\ o \in ToSet(root') /\ 0 \in 0 .. MaxRequests
    BY <1>3, <1>4, IdsAssumption DEF ListOK
  <2> QED
    BY <2>1, ConfigureShape
<1> HIDE DEF e
<1>6. EventsFollow(0) /\ News(0) = {Len(events')} /\ events'[Len(events')] = e
  BY <1>1, <1>5, InvFacts, OneMore DEF EventsFollow
<1> QED
  BY <1>1, <1>3, <1>5, <1>6, QuietStays

LEMMA OneThenOther ==
  ASSUME events \in Seq(Event), NEW d \in {0, 1}, d <= Len(events),
         NEW e \in Event, NEW f \in Event, events' = Rest(d) \o <<e>> \o <<f>>
  PROVE  /\ EventsFollow(d)
         /\ \A i \in News(d) :
               events'[i] = f \/ (events'[i] = e /\ i < Len(events) - d + 2)
         /\ Len(events) - d + 2 \in News(d) /\ events'[Len(events) - d + 2] = f
<1> DEFINE k == Len(events) - d + 2
<1>1. /\ EventsFollow(d)
      /\ \A i \in News(d) : \/ events'[i] = e /\ i = Len(events) - d + 1
                            \/ events'[i] = f /\ i = Len(events')
      /\ k \in News(d) /\ events'[k] = f
  BY TwoMore
<1>2. Len(events) - d + 1 < k
  BY DEF EventsFollow
<1> HIDE DEF k
<1>3. \A i \in News(d) : events'[i] = f \/ (events'[i] = e /\ i < k)
  BY <1>1, <1>2
<1> QED
  BY <1>1, <1>3 DEF k

LEMMA ClientDestroysStaysOrderly ==
  ASSUME StackInv, Orderly, NEW c \in Clients, ClientDestroys(c)
  PROVE  Orderly'
<1> DEFINE u == [type |-> "Unmap", win |-> c]
           e == [type |-> "Destroy", win |-> c]
<1>1. /\ wrapped' = wrapped \ {c}
      /\ events' = events \o (IF c \in shown THEN <<u>> ELSE << >>) \o <<e>>
      /\ UNCHANGED <<framed, unmapHeld, windows>>
  BY DEF ClientDestroys, listVars
<1>2. /\ u \in Event /\ u.type = "Unmap" /\ u.win = c
      /\ e \in Event /\ e.type = "Destroy" /\ e.win = c
  BY EventShapes DEF Ids
<1>3. events \in Seq(Event) /\ Rest(0) = events /\ 0 <= Len(events)
  BY InvFacts
<1>4. /\ EventsFollow(0) /\ \A i \in News(0) : events'[i] = u \/ events'[i] = e
      /\ \E i \in News(0) : events'[i] = e
  <2>1. CASE c \in shown
    <3>1. events' = Rest(0) \o <<u>> \o <<e>>
      BY <1>1, <1>3, <2>1
    <3> HIDE DEF u, e
    <3>2. /\ EventsFollow(0)
          /\ \A i \in News(0) :
                events'[i] = e \/ (events'[i] = u /\ i < Len(events) - 0 + 2)
          /\ Len(events) - 0 + 2 \in News(0) /\ events'[Len(events) - 0 + 2] = e
      <4>1. 0 \in {0, 1}
        OBVIOUS
      <4> QED
        BY <1>2, <1>3, <3>1, <4>1, OneThenOther
    <3> QED
      BY <3>2
  <2>2. CASE c \notin shown
    <3>1. events' = Append(Rest(0), e)
      BY <1>1, <1>2, <1>3, <2>2
    <3> HIDE DEF u, e
    <3> QED
      BY <1>2, <1>3, <3>1, OneMore
  <2> QED
    BY <2>1, <2>2
<1> HIDE DEF u, e
<1>5. \A d \in wrapped \ wrapped' : d = c
  BY <1>1
<1>6. /\ \A i \in News(0) : events'[i].type \notin {"Create", "Configure"}
      /\ \E i \in News(0) : events'[i].type = "Destroy" /\ events'[i].win = c
  BY <1>2, <1>4
<1>7. /\ EventsFollow(0) /\ framed' = framed /\ unmapHeld' = unmapHeld
      /\ ToSet(windows) \subseteq ToSet(windows)'
  BY <1>1, <1>4
<1>8. \A d \in wrapped \ wrapped' : \E i \in News(0) :
         events'[i].type = "Destroy" /\ events'[i].win = d
  BY <1>5, <1>6
<1> QED
  BY <1>6, <1>7, <1>8, QuietStays

LEMMA RequestStaysOrderly ==
  ASSUME StackInv, Orderly, Told, NEW c \in framed, NEW sibling, sibling # FrameOf[c],
         sibling = Nothing \/ sibling \in ToSet(root), Request(c, sibling)
  PROVE  Orderly'
<1> DEFINE f == FrameOf[c]
           e == Configure(root', f, serial')
<1>1. /\ serial < MaxRequests /\ serial' = serial + 1
      /\ root' = MovedAbove(root, f, sibling)
      /\ events' = IF root' = root THEN events ELSE Append(events, e)
      /\ UNCHANGED <<wrapped, framed, unmapHeld, windows>>
  BY DEF Request
<1>2. /\ ListOK(root) /\ f \in ToSet(root) /\ c \in Managed
  BY HeardFacts DEF Told
<1>3. f \notin Managed
  BY <1>2, FrameIds DEF Clients
<1>4. ListOK(root') /\ ToSet(root') = ToSet(root)
  BY <1>1, <1>2, MovedOrder
<1>5. events \in Seq(Event) /\ Rest(0) = events /\ 0 <= Len(events)
  BY InvFacts
<1>6. CASE root' = root
  <2>1. EventsFollow(0) /\ News(0) = {}
    BY <1>1, <1>5, <1>6, NoneMore
  <2> QED
    BY <1>1, <2>1, QuietStays
<1>7. CASE root' # root
  <2>1. e \in Event /\ e.type = "Configure" /\ e.win = f
    <3>1. root' \in Seq(Ids) /\ Distinct(root') /\ f \in ToSet(root')
      BY <1>2, <1>4 DEF ListOK
    <3>2. serial' \in 0 .. MaxRequests
      BY <1>1, InvFacts, IdsAssumption DEF OthersOK
    <3> QED
      BY <3>1, <3>2, ConfigureShape
  <2> HIDE DEF e
  <2>2. EventsFollow(0) /\ News(0) = {Len(events')} /\ events'[Len(events')] = e
    BY <1>1, <1>5, <1>7, <2>1, OneMore
  <2> QED
    BY <1>1, <1>3, <2>1, <2>2, QuietStays
<1> QED
  BY <1>6, <1>7

LEMMA ReadsQuietly ==
  ASSUME StackInv, Orderly, events # << >>, Head(events).type # "Destroy",
         events' = Tail(events), UNCHANGED <<framed, wrapped, unmapHeld>>,
         ToSet(windows) \subseteq ToSet(windows)'
  PROVE  Orderly'
<1>1. events \in Seq(Event) /\ 1 <= Len(events) /\ Rest(1) = Tail(events)
      /\ Head(events) = events[1]
  BY InvFacts DEF Rest
<1>2. EventsFollow(1) /\ News(1) = {}
  BY <1>1, NoneMore
<1> QED
  BY <1>1, <1>2, QuietStays

LEMMA HandleCreateStaysOrderly ==
  ASSUME StackInv, Orderly, HandleCreate
  PROVE  Orderly'
<1>1. /\ events # << >> /\ Head(events).type = "Create" /\ events' = Tail(events)
      /\ windows' = windows \/ windows' = Append(windows, Subject)
      /\ UNCHANGED <<framed, wrapped, unmapHeld>>
  BY DEF HandleCreate, Reads, serverVars
<1>2. ToSet(windows) \subseteq ToSet(windows)'
  <2>1. /\ Subject \in Ids /\ windows \in Seq(Ids) /\ Distinct(windows)
        /\ 1 \in DOMAIN events /\ events[1].type = "Create" /\ events[1].win = Subject
    BY InvFacts, ReadsFirst DEF HandleCreate
  <2> HIDE DEF Subject
  <2>3. Subject \notin ToSet(windows)
    BY <2>1, InvFacts DEF Introduced, Listed
  <2>2. ToSet(Append(windows, Subject)) = ToSet(windows) \cup {Subject}
    BY <2>1, <2>3, AppendedMembers
  <2> QED
    BY <1>1, <2>2
<1> QED
  BY <1>1, <1>2, ReadsQuietly

LEMMA HandleConfigureStaysOrderly ==
  ASSUME StackInv, Orderly, HandleConfigure
  PROVE  Orderly'
<1> DEFINE x      == Subject
           above  == Head(events).above
           owners == {c \in known : FrameOf[c] = x /\ Contains(windows, c)}
<1>1. /\ events # << >> /\ Head(events).type = "Configure" /\ events' = Tail(events)
      /\ \/ Contains(windows, x) /\ Restack(x, above)
         \/ \E c \in owners : Restack(c, above)
         \/ UNCHANGED windows
      /\ UNCHANGED <<framed, wrapped, unmapHeld>>
  BY DEF HandleConfigure, Reads, serverVars
<1>2. 1 \in DOMAIN events /\ events[1] = Head(events)
  BY <1>1, InvFacts
<1> HIDE DEF x, above
<1>3. ASSUME NEW w, Contains(windows, w), Restack(w, above)
      PROVE  ToSet(windows)' = ToSet(windows)
  <2>1. w \in ToSet(windows)
    BY <1>3, InvFacts, ContainsMember
  <2> QED
    BY <1>1, <1>2, <1>3, <2>1, RestackLosesNothing DEF above
<1>4. ToSet(windows) \subseteq ToSet(windows)'
  BY <1>1, <1>3
<1> QED
  BY <1>1, <1>4, ReadsQuietly

LEMMA HandleMapRequestStaysOrderly ==
  ASSUME StackInv, Orderly, HandleMapRequest
  PROVE  Orderly'
<1> DEFINE c == Subject
           f == FrameOf[c]
           e == [type |-> "Create", win |-> f]
<1>1. /\ Reads("MapRequest") /\ UNCHANGED <<windows, unmapHeld>>
      /\ IF Contains(windows, c) /\ Contains(root, c)
         THEN /\ framed' = framed \cup {c} /\ wrapped' = wrapped \cup {c}
              /\ events' = Append(Tail(events), e)
         ELSE events' = Tail(events) /\ UNCHANGED <<framed, wrapped>>
  BY DEF HandleMapRequest
<1>2. /\ 1 \in DOMAIN events /\ 1 <= Len(events) /\ Rest(1) = Tail(events)
      /\ events[1].type = "MapRequest" /\ events[1].win = c
      /\ Head(events) = events[1] /\ events # << >> /\ events \in Seq(Event)
  BY <1>1, InvFacts, ReadsFirst DEF Reads
<1> HIDE DEF c
<1>3. CASE ~ (Contains(windows, c) /\ Contains(root, c))
  BY <1>1, <1>2, <1>3, ReadsQuietly
<1>4. CASE Contains(windows, c) /\ Contains(root, c)
  <2>1. c \in ToSet(root)
    BY <1>4, InvFacts, ContainsMember
  <2>2. c \in Managed /\ c \notin framed /\ Unheard(f)
    BY <1>2, InvFacts DEF OneRequest, OthersOK
  <2>3. e \in Event /\ e.type = "Create" /\ e.win = f /\ \A d \in Managed : FrameOf[d] = f => d = c
    BY <2>2, EventShapes, FrameIds
  <2> HIDE DEF e, f
  <2>4. EventsFollow(1) /\ News(1) = {Len(events')} /\ events'[Len(events')] = e
    BY <1>1, <1>2, <1>4, <2>3, OneMore
  <2>5. c \notin unmapHeld /\ unmapHeld \subseteq framed
    BY <2>2, InvFacts DEF OthersOK
  <2>6. \A j \in DOMAIN events : events[j].type \in {"Unmap", "Destroy"} => events[j].win # c
    BY <2>1, <2>2, InvFacts DEF OneUnmap, DestroyIsLast
  <2>7. \A j \in DOMAIN events' : events'[j].type \in {"Unmap", "Destroy"} => events'[j].win # c
    <3>1. \A j \in DOMAIN events' : j \in News(1) \/
             (j + 1 \in DOMAIN events /\ events'[j] = events[j + 1])
      BY <1>2, <2>4, FollowPlaces
    <3> QED
      BY <2>3, <2>4, <2>6, <3>1
  <2>8. \A i \in DOMAIN events : events[i].type = "Configure" => events[i].win # c
    <3> SUFFICES ASSUME NEW i \in DOMAIN events, events[i].type = "Configure", events[i].win = c
                 PROVE  FALSE
      OBVIOUS
    <3>1. Ahead(events, i, "Destroy", f)
      BY <2>2 DEF Orderly, PutBack, f
    <3> QED
      BY <2>2, <3>1 DEF Unheard, Names, Ahead
  <2>9. framed' = framed \cup {c} /\ wrapped' = wrapped \cup {c}
        /\ unmapHeld' = unmapHeld /\ windows' = windows
    BY <1>1, <1>4
  <2>10. /\ \A i \in News(1) : \A d \in Managed :
              events'[i].type = "Create" /\ events'[i].win = FrameOf[d] => d = c
         /\ \A i \in News(1) : events'[i].type # "Configure"
    BY <2>3, <2>4
  <2>11. \A d \in framed' \ wrapped' : d \in framed \ wrapped
    BY <2>9
  <2>12. \A d \in framed' \ framed : d = c
    BY <2>9
  <2>13. c \in framed' \ unmapHeld'
    BY <2>5, <2>9
  <2>14. OrderlyStep(1)
    BY <1>2, <2>4, <2>7, <2>8, <2>9, <2>10, <2>11, <2>12, <2>13 DEF OrderlyStep
  <2> QED
    BY <2>14, OrderlyStays
<1> QED
  BY <1>3, <1>4

LEMMA UnreparentStaysOrderly ==
  ASSUME StackInv, Told, Orderly, NEW d \in {0, 1}, d <= Len(events), NEW c \in framed,
         c \in known, d = 1 => events[1].type = "Unmap", Unreparent(c, Rest(d)),
         unmapHeld' = unmapHeld \ {c} \/ unmapHeld' = unmapHeld
  PROVE  Orderly'
<1> DEFINE f == FrameOf[c]
           below == InsertAt(root, IndexIn(root, f), c)
           e1 == Configure(below, c, 0)
           e2 == [type |-> "Destroy", win |-> f]
<1>1. /\ events' = Rest(d) \o (IF c \in wrapped THEN <<e1>> ELSE << >>) \o <<e2>>
      /\ windows' = WithFrame(windows, c, known)
      /\ framed' = framed \ {c} /\ wrapped' = wrapped \ {c}
  BY DEF Unreparent
<1>2. /\ events \in Seq(Event) /\ framed \in SUBSET Managed /\ ListOK(root)
      /\ c \in ToSet(windows) /\ c \in Managed /\ f \in ToSet(root) /\ c \notin ToSet(root)
  BY HeardFacts, InvFacts DEF Told
<1>3. /\ f \in Ids /\ f \notin Clients /\ c \in Ids /\ c \in Clients /\ c # f
  BY <1>2, FrameIds
<1>4. ToSet(windows') = ToSet(windows) \cup {f}
  <2>1. known \in SUBSET Managed /\ \A e \in known : FrameOf[e] \notin ToSet(windows)
        /\ ListOK(windows)
    BY <1>2, InvFacts DEF OthersOK, FramesApart, Listed, ListOK
  <2>2. FrameOf[c] \notin ToSet(windows)
    BY <2>1
  <2>3. WithFrame(windows, c, known) = windows'
    BY <1>1
  <2> QED
    BY <1>2, <2>1, <2>2, <2>3, WithFrameOrder
<1>5. e2 \in Event /\ e2.type = "Destroy" /\ e2.win = f
  BY <1>3, EventShapes
<1>6. e1 \in Event /\ e1.type = "Configure" /\ e1.win = c
  <2>1. ListOK(below) /\ ToSet(below) = ToSet(root) \cup {c}
    <3>1. root \in Seq(Ids)
      BY <1>2 DEF ListOK
    <3>2. IndexIn(root, f) \in 1 .. Len(root) /\ Len(root) \in Nat
      BY <1>2, <3>1, IndexIs
    <3>3. IndexIn(root, f) \in 1 .. Len(root) + 1
      BY <3>2
    <3> QED
      BY <1>2, <1>3, <3>3, InsertedOrder
  <2> HIDE DEF below
  <2>2. below \in Seq(Ids) /\ Distinct(below) /\ c \in ToSet(below) /\ 0 \in 0 .. MaxRequests
    BY <2>1, IdsAssumption DEF ListOK
  <2> QED
    BY <2>2, ConfigureShape
<1> HIDE DEF e1, e2, f
<1>7. Rest(d) \in Seq(Event)
  <2>1. d = 1 => events # << >>
    BY <1>2
  <2> QED
    BY <1>2, <2>1 DEF Rest
<1>8. /\ EventsFollow(d)
      /\ \A i \in News(d) : \/ events'[i] = e2
                            \/ /\ events'[i] = e1 /\ c \in wrapped
                               /\ \E j \in News(d) : i < j /\ events'[j] = e2
  <2>1. CASE c \in wrapped
    <3>1. events' = Rest(d) \o <<e1>> \o <<e2>>
      BY <1>1, <1>7, <2>1
    <3>2. e1 \in Event /\ e2 \in Event /\ events \in Seq(Event) /\ e1 # e2
      BY <1>2, <1>5, <1>6
    <3> DEFINE k == Len(events) - d + 2
    <3>3. /\ EventsFollow(d)
          /\ \A i \in News(d) : events'[i] = e2 \/ (events'[i] = e1 /\ i < k)
          /\ k \in News(d) /\ events'[k] = e2
      BY <3>1, <3>2, OneThenOther
    <3> HIDE DEF k
    <3> QED
      BY <2>1, <3>3
  <2>2. CASE c \notin wrapped
    <3>1. events' = Append(Rest(d), e2)
      BY <1>1, <1>5, <1>7, <2>2
    <3> QED
      BY <1>2, <1>5, <3>1, OneMore
  <2> QED
    BY <2>1, <2>2
<1>9. /\ c \notin framed' /\ c \in ToSet(windows)'
      /\ \A i \in News(d) : events'[i].type # "Create"
      /\ \A i \in News(d) : events'[i].type = "Configure" =>
            /\ events'[i].win = c /\ c \in wrapped
            /\ \E j \in News(d) : i < j /\ events'[j].type = "Destroy" /\ events'[j].win = f
  BY <1>1, <1>2, <1>4, <1>5, <1>6, <1>8
<1>10. c \in wrapped => \A j \in DOMAIN events' : events'[j].type = "Destroy" => events'[j].win # c
  <2> SUFFICES ASSUME c \in wrapped, NEW j \in DOMAIN events', events'[j].type = "Destroy"
               PROVE  events'[j].win # c
    OBVIOUS
  <2>1. CASE j \in News(d)
    BY <1>3, <1>5, <1>6, <1>8, <2>1
  <2>2. CASE j \notin News(d)
    <3>1. j + d \in DOMAIN events /\ events'[j] = events[j + d]
      BY <1>2, <1>8, <2>2, FollowPlaces
    <3> QED
      BY <1>2, <3>1, InvFacts DEF DestroyIsLast
  <2> QED
    BY <2>1, <2>2
<1>11. /\ \A e \in framed \ unmapHeld : e \in framed' \ unmapHeld' \/ e \in known
       /\ \A e \in framed' \ wrapped' : e \in framed \ wrapped
       /\ framed' \ framed = {} /\ ToSet(windows) \subseteq ToSet(windows)'
  BY <1>1, <1>4
<1>12. OrderlyStep(d)
  BY <1>8, <1>9, <1>10, <1>11 DEF OrderlyStep, f
<1> QED
  BY <1>12, OrderlyStays

LEMMA HandleUnmapStaysOrderly ==
  ASSUME StackInv, Told, Orderly, NEW held \in BOOLEAN, HandleUnmap(held)
  PROVE  Orderly'
<1> DEFINE c == Subject
<1>1. /\ Reads("Unmap")
      /\ IF c \in framed /\ ~ held
         THEN Unreparent(c, Tail(events)) /\ UNCHANGED unmapHeld
         ELSE /\ unmapHeld' = IF held THEN unmapHeld \cup ({c} \cap framed) ELSE unmapHeld
              /\ events' = Tail(events)
              /\ UNCHANGED <<windows, framed, wrapped>>
  BY DEF HandleUnmap, LosesFrame, serverVars, listVars
<1>2. /\ 1 \in DOMAIN events /\ 1 <= Len(events) /\ Rest(1) = Tail(events)
      /\ events[1].type = "Unmap" /\ events[1].win = c /\ events \in Seq(Event)
  BY <1>1, InvFacts, ReadsFirst
<1> HIDE DEF c
<1>3. c \in framed => c \in known
  <2> SUFFICES ASSUME c \in framed
               PROVE  c \in known
    OBVIOUS
  <2>1. \A j \in DOMAIN events : ~ (j < 1)
    BY <1>2
  <2>2. c \in Managed
    BY InvFacts DEF OthersOK
  <2>3. ~ Pending("Create", FrameOf[c])
    BY <1>2, <2>1, <2>2 DEF Orderly, Announced, Pending
  <2> QED
    BY <2>3, InvFacts DEF FramesApart
<1>4. CASE c \in framed /\ ~ held
  <2>1. Unreparent(c, Rest(1)) /\ unmapHeld' = unmapHeld
    BY <1>1, <1>2, <1>4
  <2> QED
    BY <1>2, <1>3, <1>4, <2>1, UnreparentStaysOrderly
<1>5. CASE ~ (c \in framed /\ ~ held)
  <2>1. EventsFollow(1) /\ News(1) = {}
    <3>1. events' = Rest(1)
      BY <1>1, <1>2, <1>5
    <3> QED
      BY <1>2, <3>1, NoneMore
  <2>2. /\ framed' = framed /\ wrapped' = wrapped /\ windows' = windows
        /\ unmapHeld' \subseteq unmapHeld \cup ({c} \cap framed)
    BY <1>1, <1>5
  <2>3. OrderlyStep(1)
    BY <1>2, <1>3, <2>1, <2>2 DEF OrderlyStep
  <2> QED
    BY <2>3, OrderlyStays
<1> QED
  BY <1>4, <1>5

LEMMA PluginUnmapsStaysOrderly ==
  ASSUME StackInv, Told, Orderly, NEW c \in Managed, PluginUnmaps(c)
  PROVE  Orderly'
<1>1. /\ c \in unmapHeld /\ c \in framed /\ Unreparent(c, Rest(0)) /\ events \in Seq(Event)
      /\ unmapHeld' = unmapHeld \ {c}
  BY InvFacts DEF PluginUnmaps, OthersOK
<1>2. ~ Pending("Create", FrameOf[c])
  BY <1>1 DEF Orderly, Announced
<1>3. c \in known
  BY <1>1, <1>2, InvFacts DEF FramesApart
<1>4. 0 <= Len(events)
  BY <1>1
<1> QED
  BY <1>1, <1>3, <1>4, UnreparentStaysOrderly

LEMMA HandleDestroyStaysOrderly ==
  ASSUME StackInv, Told, Orderly, NEW keep \in BOOLEAN, HandleDestroy(keep)
  PROVE  Orderly'
<1> DEFINE w == Subject
           list1 == WithFrame(windows, w, known)
<1>1. /\ Reads("Destroy") /\ events' = Tail(events) /\ wrapped' = wrapped
      /\ IF Contains(windows, w)
         THEN /\ windows' = Unhooked(list1, w) /\ framed' = framed \ {w}
              /\ unmapHeld' = unmapHeld \ {w}
         ELSE UNCHANGED <<windows, framed, unmapHeld>>
  BY DEF HandleDestroy, serverVars, listVars
<1>2. /\ 1 \in DOMAIN events /\ 1 <= Len(events) /\ Rest(1) = Tail(events)
      /\ events[1].type = "Destroy" /\ events[1].win = w /\ events \in Seq(Event)
  BY <1>1, InvFacts, ReadsFirst
<1> HIDE DEF w
<1>3. /\ known \in SUBSET Managed /\ known \subseteq framed /\ framed \subseteq Managed
      /\ \A e \in framed : FrameOf[e] \notin ToSet(windows)
      /\ ListOK(windows) /\ framed \subseteq ToSet(windows) /\ windows \in Seq(Ids)
  BY HeardFacts, InvFacts DEF Told, OthersOK, FramesApart, Listed, ListOK
<1>4. w \in framed => w \in known
  <2> SUFFICES ASSUME w \in framed
               PROVE  w \in known
    OBVIOUS
  <2>1. \A j \in DOMAIN events : ~ (j < 1)
    BY <1>2
  <2>2. ~ Pending("Create", FrameOf[w])
    BY <1>2, <1>3, <2>1 DEF Orderly, Announced, Pending
  <2> QED
    BY <2>2, InvFacts DEF FramesApart
<1>5. ListOK(list1) /\ ToSet(windows) \subseteq ToSet(list1)
  <2>1. CASE w \in known
    <3>1. w \in ToSet(windows) /\ FrameOf[w] \notin ToSet(windows)
          /\ \A e \in known : FrameOf[e] \notin ToSet(windows)
      BY <1>3, <2>1
    <3>2. ListOK(list1) /\ ToSet(list1) = ToSet(windows) \cup {FrameOf[w]}
      BY <1>3, <2>1, <3>1, WithFrameOrder
    <3> QED
      BY <3>2
  <2>2. CASE w \notin known
    BY <1>3, <2>2 DEF WithFrame
  <2> QED
    BY <2>1, <2>2
<1> HIDE DEF list1
<1>6. ToSet(Unhooked(list1, w)) = ToSet(list1) \ {w}
  BY <1>5, UnhookedOrder
<1>7. ToSet(windows) \ {w} \subseteq ToSet(windows)'
  BY <1>1, <1>5, <1>6
<1>8. framed' = framed \ {w} /\ unmapHeld' = unmapHeld \ {w}
  <2>1. CASE Contains(windows, w)
    BY <1>1, <2>1
  <2>2. CASE ~ Contains(windows, w)
    <3>1. w \notin ToSet(windows)
      BY <1>3, <2>2, ContainsMember
    <3>2. w \notin framed /\ w \notin unmapHeld
      BY <1>3, <3>1, InvFacts DEF OthersOK
    <3> QED
      BY <1>1, <2>2, <3>2
  <2> QED
    BY <2>1, <2>2
<1>9. EventsFollow(1) /\ News(1) = {}
  <2>1. events' = Rest(1)
    BY <1>1, <1>2
  <2> QED
    BY <1>2, <2>1, NoneMore
<1>10. OrderlyStep(1)
  BY <1>1, <1>2, <1>4, <1>7, <1>8, <1>9 DEF OrderlyStep
<1> QED
  BY <1>10, OrderlyStays

-----------------------------------------------------------------------------
(* Every step                                                              *)

ToldInv == StackInv /\ Told /\ Orderly

LEMMA ToldStarts == StackInit => ToldInv
<1> SUFFICES ASSUME StackInit
             PROVE  ToldInv
  OBVIOUS
<1>1. StackInv
  BY StackStarts
<1>2. /\ root = << >> /\ windows = << >> /\ framed = {} /\ asked = {} /\ born = {}
      /\ events = << >>
  BY DEF StackInit
<1>3. Orderly
  BY <1>2 DEF Orderly, Announced, Mourned, PutBack, Pending
<1>4. Told
  <2> DEFINE r == [i \in 0 .. 0 |-> << >>]
  <2>1. /\ r[0] = << >> /\ Len(events) = 0 /\ ToSet(<< >>) = {} /\ ListOK(<< >>)
        /\ events \in Seq(Event)
    BY <1>2 DEF ToSet, ListOK, Distinct
  <2>2. \A i \in 0 .. Len(events) : i = 0
    BY <2>1
  <2> HIDE DEF r
  <2>3. Telling(FALSE, events, r, root)
    <3>1. \A i \in 1 .. Len(events) : FALSE
      BY <2>1
    <3> QED
      BY <1>2, <2>1, <2>2, <3>1 DEF Telling
  <2>4. FramesSeen(events, r, framed)
    BY <1>2 DEF FramesSeen
  <2>5. ClientsSeen(events, r, asked, root)
    BY <1>2, <2>1 DEF ClientsSeen
  <2>6. NotYet(events, r, asked, born)
    BY <2>1, <2>2 DEF NotYet
  <2>7. Snapshots(FALSE, events, r, root, framed, asked, born)
    BY <1>2, <2>1, <2>3, <2>4, <2>5, <2>6 DEF Snapshots
  <2>8. Shows(r[0], windows, framed) /\ Explained(events, r[0], windows, framed)
    BY <1>2, <2>1 DEF Shows, Explained
  <2> QED
    BY <2>7, <2>8 DEF Told, Heard
<1> QED
  BY <1>1, <1>3, <1>4 DEF ToldInv

LEMMA ToldGoesOn ==
  ASSUME ToldInv, [StackNext]_stackVars
  PROVE  ToldInv'
<1>1. StackInv /\ Told /\ Orderly /\ Announced /\ Mourned /\ PutBack
  BY DEF ToldInv, Orderly
<1>2. StackInv'
  BY <1>1, StackGoesOn
<1>3. ASSUME UNCHANGED <<root, windows, framed, asked, born, events, wrapped, unmapHeld>>
      PROVE  Told' /\ Orderly'
  <2>1. Told'
    BY <1>1, <1>3 DEF Told
  <2>2. Announced' /\ Mourned'
    BY <1>1, <1>3 DEF Announced, Mourned, Pending
  <2>3. PutBack'
    BY <1>1, <1>3 DEF PutBack
  <2> QED
    BY <2>1, <2>2, <2>3 DEF Orderly
<1>0. /\ Heard(FALSE, events, root, windows, framed, asked, born)
      /\ ListOK(windows) /\ ToSet(windows) \subseteq Listed
      /\ known \in SUBSET framed
  BY <1>1, InvFacts DEF Told, Listed, ListOK, OthersOK
<1>4. Told' /\ Orderly'
  <2>1. ASSUME NEW c \in Clients,
               ClientCreates(c) \/ ClientMaps(c) \/ ClientUnmaps(c) \/ ClientDestroys(c)
        PROVE  Told' /\ Orderly'
    <3>1. Heard(FALSE, events', root', windows, framed', asked', born')
      BY <1>0, <1>1, <2>1, ClientCreatesHeard, ClientMapsHeard, ClientUnmapsHeard,
         ClientDestroysHeard
    <3>2. windows' = windows
      BY <2>1 DEF ClientCreates, ClientMaps, ClientUnmaps, ClientDestroys, listVars
    <3>3. Told'
      BY <3>1, <3>2 DEF Told
    <3> QED
      BY <1>1, <2>1, <3>3, ClientsStayOrderly, ClientDestroysStaysOrderly
  <2>2. ASSUME NEW o \in Overrides, NEW a \in Ids \cup {Nothing}, OverrideMoves(o, a)
        PROVE  Told' /\ Orderly'
    <3>1. Heard(FALSE, events', root', windows, framed', asked', born')
      BY <1>0, <1>1, <2>2, OverrideMovesHeard
    <3>2. windows' = windows
      BY <2>2 DEF OverrideMoves, listVars
    <3>3. Told'
      BY <3>1, <3>2 DEF Told
    <3> QED
      BY <1>1, <2>2, <3>3, OverrideMovesStaysOrderly
  <2>3. ASSUME NEW c \in Managed, Lower(c)
        PROVE  Told' /\ Orderly'
    <3>1. c \in framed /\ Request(c, Nothing)
      BY <2>3 DEF Lower, CanRestack
    <3>2. Nothing # FrameOf[c]
      BY FrameIds
    <3> QED
      BY <1>1, <3>1, <3>2, RequestTold, RequestStaysOrderly
  <2>4. ASSUME NEW c \in Managed, NEW s \in Managed, RestackAbove(c, s)
        PROVE  Told' /\ Orderly'
    <3>1. c \in framed /\ s \in framed /\ c # s /\ Request(c, FrameOf[s])
      BY <2>4 DEF RestackAbove, CanRestack, RootParent
    <3>2. FrameOf[s] # FrameOf[c]
      BY <3>1, FrameIds
    <3>3. FrameOf[s] \in ToSet(root)
      BY <1>1, <3>1, InvFacts DEF FramesStand
    <3> QED
      BY <1>1, <3>1, <3>2, <3>3, RequestTold, RequestStaysOrderly
  <2>5. ASSUME NEW c \in Managed, PluginUnmaps(c)
        PROVE  Told' /\ Orderly'
    <3>1. Heard(FALSE, events', root', WithFrame(windows, c, known), framed', asked', born')
      BY <1>0, <1>1, <2>5, PluginUnmapsHeard
    <3>2. windows' = WithFrame(windows, c, known)
      BY <2>5 DEF PluginUnmaps, Unreparent
    <3>3. Told'
      BY <3>1, <3>2 DEF Told
    <3> QED
      BY <1>1, <2>5, <3>3, PluginUnmapsStaysOrderly
  <2>6. CASE HandleCreate
    <3> DEFINE list2 == IF Subject \in Clients THEN Append(windows, Subject) ELSE windows
    <3>1. /\ Heard(FALSE, events', root', list2, framed', asked', born')
          /\ windows' = list2
      BY <1>0, <1>1, <2>6, HandleCreateHeard
    <3>2. Told'
      BY <3>1 DEF Told
    <3> QED
      BY <1>1, <2>6, <3>2, HandleCreateStaysOrderly
  <2>7. CASE HandleMapRequest
    <3>1. Heard(FALSE, events', root', windows, framed', asked', born')
      BY <1>0, <1>1, <2>7, HandleMapRequestHeard
    <3>2. windows' = windows
      BY <2>7 DEF HandleMapRequest
    <3>3. Told'
      BY <3>1, <3>2 DEF Told
    <3> QED
      BY <1>1, <2>7, <3>3, HandleMapRequestStaysOrderly
  <2>8. ASSUME NEW held \in BOOLEAN, HandleUnmap(held)
        PROVE  Told' /\ Orderly'
    <3>1. IF Subject \in framed /\ ~ held
          THEN Heard(FALSE, events', root', WithFrame(windows, Subject, known),
                     framed', asked', born')
          ELSE Heard(FALSE, events', root', windows, framed', asked', born')
      BY <1>0, <1>1, <2>8, HandleUnmapHeard
    <3>2. IF Subject \in framed /\ ~ held
          THEN windows' = WithFrame(windows, Subject, known) ELSE UNCHANGED windows
      BY <2>8 DEF HandleUnmap, LosesFrame, Unreparent, listVars
    <3>3. Told'
      BY <3>1, <3>2 DEF Told
    <3> QED
      BY <1>1, <2>8, <3>3, HandleUnmapStaysOrderly
  <2>9. ASSUME NEW keep \in BOOLEAN, HandleDestroy(keep)
        PROVE  Told' /\ Orderly'
    <3> DEFINE list2 == Unhooked(WithFrame(windows, Subject, known), Subject)
    <3>1. /\ Heard(FALSE, events', root', list2, framed', asked', born')
          /\ ~ Contains(windows, Subject) => list2 = windows
      BY <1>0, <1>1, <2>9, HandleDestroyHeard
    <3>2. IF Contains(windows, Subject) THEN windows' = list2 ELSE UNCHANGED windows
      BY <2>9 DEF HandleDestroy, listVars
    <3>3. Told'
      BY <3>1, <3>2 DEF Told
    <3> QED
      BY <1>1, <2>9, <3>3, HandleDestroyStaysOrderly
  <2>10. CASE HandleConfigure
    BY <1>1, <2>10, HandleConfigureTold, HandleConfigureStaysOrderly
  <2>11. ASSUME NEW i \in DOMAIN kept, PluginReleases(i)
         PROVE  Told' /\ Orderly'
    BY <1>3, <2>11 DEF PluginReleases, serverVars, listVars
  <2>12. CASE RemoveDestroyed
    BY <1>3, <2>12 DEF RemoveDestroyed, serverVars, listVars
  <2>13. CASE UNCHANGED stackVars
    BY <1>3, <2>13 DEF stackVars, serverVars, listVars
  <2> QED
    BY <2>1, <2>2, <2>3, <2>4, <2>5, <2>6, <2>7, <2>8, <2>9, <2>10, <2>11, <2>12, <2>13
       DEF StackNext
<1> QED
  BY <1>2, <1>4 DEF ToldInv

-----------------------------------------------------------------------------
(* With no event under way                                                 *)

LEMMA CalmAgrees ==
  ASSUME StackInv, NEW plan, NEW list, Heard(plan, events, root, list, framed, asked, born),
         ListOK(list), ToSet(list) \subseteq Listed, events = << >>
  PROVE  AsOnServer(list) = root
<1> DEFINE s == AsOnServer(list)
           W(x) == WindowIn(x, framed)
<1>2. PICK r : /\ Snapshots(plan, events, r, root, framed, asked, born)
               /\ Shows(r[0], list, framed) /\ Explained(events, r[0], list, framed)
  BY DEF Heard
<1>3. r[0] = root
  BY <1>2 DEF Snapshots, Telling
<1>4. \A w \in ToSet(list) : w \in ToSet(root) \/ w \in framed
  <2>1. \A type, w : ~ Ahead(events, 0, type, w)
    BY DEF Ahead
  <2> QED
    BY <1>2, <1>3, <2>1 DEF Explained
<1>5. /\ \A x \in ToSet(root) : W(x) \in ToSet(list)
      /\ \A x, y \in ToSet(root) : Below(root, x, y) => Below(list, W(x), W(y))
  BY <1>2, <1>3 DEF Shows
<1>6. /\ framed \in SUBSET Managed /\ ListOK(root) /\ ListOK(list)
      /\ \A c \in framed : /\ FrameOf[c] \in ToSet(root) /\ c \notin ToSet(root)
                           /\ FrameOf[c] \notin ToSet(list)
  BY HeardFacts, InvFacts DEF FramesApart
<1>7. \A x \in ToSet(root) : RootParent(W(x)) = x
  <2> SUFFICES ASSUME NEW x \in ToSet(root)
               PROVE  RootParent(W(x)) = x
    OBVIOUS
  <2>1. CASE \E c \in framed : FrameOf[c] = x
    BY <1>6, <2>1, WindowIs DEF RootParent
  <2>2. CASE \A c \in framed : FrameOf[c] # x
    <3>1. W(x) = x
      BY <1>6, <2>2, WindowIs
    <3>2. x \notin framed
      BY <1>6
    <3> QED
      BY <3>1, <3>2 DEF RootParent
  <2> QED
    BY <2>1, <2>2
<1>8. list \in Seq(Ids) /\ Len(list) \in Nat /\ DOMAIN list = 1 .. Len(list)
      /\ Distinct(list)
  BY <1>6 DEF ListOK
<1>9. \A i \in DOMAIN list : list[i] \in ToSet(list)
  BY DEF ToSet
<1>10. ASSUME NEW w \in ToSet(list)
       PROVE  RootParent(w) \in ToSet(root) /\ RootParent(w) \in Ids
  <2>1. RootParent(w) \in ToSet(root)
    BY <1>4, <1>6 DEF RootParent
  <2> QED
    BY <1>6, <2>1, BelowFacts
<1>11. ASSUME NEW v \in ToSet(list), NEW w \in ToSet(list), RootParent(v) = RootParent(w)
       PROVE  v = w
  <2>1. \A c, d \in framed : FrameOf[c] = FrameOf[d] => c = d
    BY <1>6, FrameIds
  <2> QED
    BY <1>6, <1>11, <2>1 DEF RootParent
<1>12. /\ s \in Seq(Ids) /\ Len(s) = Len(list) /\ DOMAIN s = DOMAIN list
       /\ \A i \in DOMAIN list : s[i] = RootParent(list[i])
  <2>1. s = [i \in 1 .. Len(list) |-> RootParent(list[i])]
    BY <1>8 DEF AsOnServer
  <2>2. \A i \in 1 .. Len(list) : RootParent(list[i]) \in Ids
    BY <1>8, <1>9, <1>10
  <2> QED
    BY <1>8, <2>1, <2>2
<1> HIDE DEF s
<1>13. ListOK(s)
  <2>1. Distinct(s)
    BY <1>8, <1>9, <1>11, <1>12 DEF Distinct
  <2> QED
    BY <1>12, <2>1 DEF ListOK
<1>14. ToSet(root) = ToSet(s)
  <2>1. \A x \in ToSet(s) : x \in ToSet(root)
    BY <1>9, <1>10, <1>12 DEF ToSet
  <2>2. ASSUME NEW x \in ToSet(root)
        PROVE  x \in ToSet(s)
    <3>1. PICK i \in DOMAIN list : list[i] = W(x)
      BY <1>5 DEF ToSet
    <3>2. s[i] = x /\ i \in DOMAIN s
      BY <1>7, <1>12, <3>1
    <3> QED
      BY <3>2 DEF ToSet
  <2> QED
    BY <2>1, <2>2
<1>15. ASSUME NEW x \in ToSet(root), NEW y \in ToSet(root), Below(root, x, y)
       PROVE  Below(s, x, y)
  <2>1. PICK i, j \in DOMAIN list : i < j /\ list[i] = W(x) /\ list[j] = W(y)
    BY <1>5, <1>15 DEF Below
  <2>2. s[i] = x /\ s[j] = y /\ i \in DOMAIN s /\ j \in DOMAIN s
    BY <1>7, <1>12, <2>1
  <2> QED
    BY <2>1, <2>2 DEF Below
<1>16. SameOrder(root, s)
  BY <1>14, <1>15 DEF SameOrder
<1> QED
  BY <1>6, <1>13, <1>16, SameLists DEF s

(* With no event left to read, compiz's order is the server's, however the *)
(* clients, compiz and the plugins came to be there: restack, frames that  *)
(* come and go in reparent, unreparent and manageFrameWindowSeparately,    *)
(* and windows destroyed before they were heard of.                        *)
THEOREM OrderStaysAgreed == StackSpec => []OrderAgrees
<1>1. ToldInv /\ [StackNext]_stackVars => ToldInv'
  BY ToldGoesOn
<1>2. ToldInv => OrderAgrees
  <2> SUFFICES ASSUME ToldInv, events = << >>
               PROVE  AsOnServer(windows) = root
    BY DEF OrderAgrees, Calm
  <2>1. StackInv /\ Heard(FALSE, events, root, windows, framed, asked, born)
    BY DEF ToldInv, Told
  <2>2. ListOK(windows) /\ ToSet(windows) \subseteq Listed
    BY <2>1, InvFacts DEF ListOK, Listed
  <2> QED
    BY <2>1, <2>2, CalmAgrees
<1> QED
  BY ToldStarts, <1>1, <1>2, PTL DEF StackSpec

-----------------------------------------------------------------------------
(* The order compiz plans with                                             *)

(* A window is not reported destroyed before it is gone, nor the frame of a*)
(* client before the client was put back.                                  *)
Ended == \A i \in DOMAIN events : events[i].type = "Destroy" => events[i].win \notin ToSet(root)

PutBackBefore ==
    \A i, j \in DOMAIN events :
        /\ events[i].type = "Configure" /\ events[i].win \in Managed
        /\ events[j].type = "Destroy" /\ events[j].win = FrameOf[events[i].win]
        => i < j

Gone == Ended /\ PutBackBefore

GoneStep(d) ==
    /\ EventsFollow(d)
    /\ \A i \in News(d) : events'[i].type = "Destroy" => events'[i].win \notin ToSet(root')
    /\ \A i \in DOMAIN events : events[i].type = "Destroy" /\ events[i].win \in ToSet(root') =>
          events[i].win \in ToSet(root)
    /\ \A i \in News(d) : \A c \in Managed : events'[i].type = "Configure" /\ events'[i].win = c =>
          /\ FrameOf[c] \in ToSet(root)
          /\ \A j \in News(d) :
                events'[j].type = "Destroy" /\ events'[j].win = FrameOf[c] => i < j

LEMMA GoneStays ==
  ASSUME StackInv, Gone, NEW d, GoneStep(d)
  PROVE  Gone'
<1>1. EventsFollow(d) /\ events \in Seq(Event) /\ Ended /\ PutBackBefore
  BY InvFacts DEF GoneStep, Gone
<1>2. /\ \A i \in DOMAIN events' : i \in News(d) \/
            (i + d \in DOMAIN events /\ events'[i] = events[i + d])
      /\ \A i \in DOMAIN events' : \A j \in News(d) : i \notin News(d) => i < j
  BY <1>1, FollowPlaces
<1>3. /\ DOMAIN events' = 1 .. Len(events') /\ Len(events') \in Nat /\ d \in {0, 1}
  BY <1>1 DEF EventsFollow
<1>4. ASSUME NEW i \in DOMAIN events', events'[i].type = "Destroy"
      PROVE  events'[i].win \notin ToSet(root')
  <2>1. CASE i \in News(d)
    BY <1>4, <2>1 DEF GoneStep
  <2>2. CASE i \notin News(d)
    <3>1. i + d \in DOMAIN events /\ events'[i] = events[i + d]
      BY <1>2, <2>2
    <3> DEFINE k == i + d
    <3>2. k \in DOMAIN events /\ events[k].type = "Destroy" /\ events'[i].win = events[k].win
      BY <1>4, <3>1
    <3> HIDE DEF k
    <3>3. events[k].win \notin ToSet(root)
      BY <1>1, <3>2 DEF Ended
    <3> QED
      BY <3>2, <3>3 DEF GoneStep
  <2> QED
    BY <2>1, <2>2
<1>5. ASSUME NEW i \in DOMAIN events', NEW j \in DOMAIN events', NEW c \in Managed,
             events'[i].type = "Configure", events'[i].win = c,
             events'[j].type = "Destroy", events'[j].win = FrameOf[c]
      PROVE  i < j
  <2>1. CASE i \in News(d)
    <3>1. /\ FrameOf[c] \in ToSet(root)
          /\ \A k \in News(d) :
                events'[k].type = "Destroy" /\ events'[k].win = FrameOf[c] => i < k
      BY <1>5, <2>1 DEF GoneStep
    <3>2. j \in News(d)
      <4> SUFFICES ASSUME j \notin News(d)
                   PROVE  FALSE
        OBVIOUS
      <4>1. j + d \in DOMAIN events /\ events'[j] = events[j + d]
        BY <1>2
      <4> QED
        BY <1>1, <1>5, <3>1, <4>1 DEF Ended
    <3> QED
      BY <1>5, <3>1, <3>2
  <2>2. CASE i \notin News(d) /\ j \in News(d)
    BY <1>2, <2>2
  <2>3. CASE i \notin News(d) /\ j \notin News(d)
    <3>1. /\ i + d \in DOMAIN events /\ events'[i] = events[i + d]
          /\ j + d \in DOMAIN events /\ events'[j] = events[j + d]
      BY <1>2, <2>3
    <3>2. i + d < j + d
      <4> DEFINE k == i + d
                 l == j + d
      <4>1. /\ k \in DOMAIN events /\ events[k].type = "Configure" /\ events[k].win = c
            /\ l \in DOMAIN events /\ events[l].type = "Destroy" /\ events[l].win = FrameOf[c]
        BY <1>5, <3>1
      <4> HIDE DEF k, l
      <4>2. k < l
        BY <1>1, <4>1 DEF PutBackBefore
      <4> QED
        BY <4>2 DEF k, l
    <3> QED
      BY <1>3, <3>2
  <2> QED
    BY <2>1, <2>2, <2>3
<1>6. Ended'
  BY <1>4 DEF Ended
<1>7. PutBackBefore'
  BY <1>5 DEF PutBackBefore
<1> QED
  BY <1>6, <1>7 DEF Gone

(* A step that ends nothing and brings nothing back                        *)
LEMMA QuietlyGone ==
  ASSUME StackInv, Gone, NEW d, EventsFollow(d),
         \A i \in News(d) : events'[i].type # "Destroy",
         \A i \in News(d) : events'[i].win \notin Managed \/ events'[i].type # "Configure",
         ToSet(root') \subseteq ToSet(root)
  PROVE  Gone'
<1>1. GoneStep(d)
  BY DEF GoneStep
<1> QED
  BY <1>1, GoneStays

LEMMA ReadsGone ==
  ASSUME StackInv, Gone, events # << >>, events' = Tail(events), root' = root
  PROVE  Gone'
<1>1. events \in Seq(Event) /\ 1 <= Len(events) /\ Rest(1) = Tail(events)
  BY InvFacts DEF Rest
<1>2. EventsFollow(1) /\ News(1) = {}
  BY <1>1, NoneMore
<1> QED
  BY <1>2, QuietlyGone

(* What the server and the clients add to the queue                        *)
LEMMA ClientsSay ==
  ASSUME StackInv, NEW c \in Clients, ClientCreates(c) \/ ClientMaps(c) \/ ClientUnmaps(c)
  PROVE  /\ EventsFollow(0)
         /\ \A i \in News(0) : events'[i].type \notin {"Configure", "Destroy"}
<1> DEFINE t == IF ClientCreates(c) THEN "Create"
                ELSE IF ClientMaps(c) THEN "MapRequest" ELSE "Unmap"
           e == [type |-> t, win |-> c]
<1>1. events' = Append(events, e)
  BY DEF ClientCreates, ClientMaps, ClientUnmaps
<1>2. e \in Event /\ e.type \notin {"Configure", "Destroy"}
  <2>1. c \in Ids /\ t \in {"Create", "MapRequest", "Unmap"}
    BY DEF Ids
  <2> HIDE DEF t
  <2> QED
    BY <2>1, EventShapes
<1> HIDE DEF e
<1>3. EventsFollow(0) /\ News(0) = {Len(events')} /\ events'[Len(events')] = e
  BY <1>1, <1>2, InvFacts, OneMore DEF EventsFollow
<1> QED
  BY <1>2, <1>3

LEMMA OverrideMovesSays ==
  ASSUME StackInv, NEW o \in Overrides, NEW above \in Ids \cup {Nothing}, OverrideMoves(o, above)
  PROVE  /\ EventsFollow(0) /\ ToSet(root') = ToSet(root)
         /\ \A i \in News(0) : events'[i].type = "Configure" /\ events'[i].win \notin Managed
<1> DEFINE e == Configure(root', o, 0)
<1>1. /\ Contains(root, o) /\ above # o
      /\ above = Nothing \/ Contains(root, above)
      /\ root' = MovedAbove(root, o, above) /\ events' = Append(events, e)
  BY DEF OverrideMoves
<1>2. ListOK(root) /\ root \in Seq(Ids)
  BY InvFacts DEF ListOK
<1>3. o \in ToSet(root) /\ (above = Nothing \/ above \in ToSet(root)) /\ o \notin Managed
  BY <1>1, <1>2, ContainsMember, IdsAssumption
<1>4. ListOK(root') /\ ToSet(root') = ToSet(root)
  BY <1>1, <1>2, <1>3, MovedOrder
<1>5. e \in Event /\ e.type = "Configure" /\ e.win = o
  <2>1. root' \in Seq(Ids) /\ Distinct(root') /\ o \in ToSet(root') /\ 0 \in 0 .. MaxRequests
    BY <1>3, <1>4, IdsAssumption DEF ListOK
  <2> QED
    BY <2>1, ConfigureShape
<1> HIDE DEF e
<1>6. EventsFollow(0) /\ News(0) = {Len(events')} /\ events'[Len(events')] = e
  BY <1>1, <1>5, InvFacts, OneMore DEF EventsFollow
<1> QED
  BY <1>3, <1>4, <1>5, <1>6

LEMMA ClientDestroysSays ==
  ASSUME StackInv, NEW c \in Clients, ClientDestroys(c)
  PROVE  /\ EventsFollow(0) /\ ToSet(root') = ToSet(root) \ {c}
         /\ \A i \in News(0) : events'[i].type \in {"Unmap", "Destroy"} /\ events'[i].win = c
<1> DEFINE u == [type |-> "Unmap", win |-> c]
           e == [type |-> "Destroy", win |-> c]
<1>1. /\ root' = Unhooked(root, c)
      /\ events' = events \o (IF c \in shown THEN <<u>> ELSE << >>) \o <<e>>
  BY DEF ClientDestroys
<1>2. /\ u \in Event /\ u.type = "Unmap" /\ u.win = c
      /\ e \in Event /\ e.type = "Destroy" /\ e.win = c
  BY EventShapes DEF Ids
<1>3. events \in Seq(Event) /\ Rest(0) = events /\ 0 <= Len(events)
  BY InvFacts
<1>4. EventsFollow(0) /\ \A i \in News(0) : events'[i] = u \/ events'[i] = e
  <2>1. CASE c \in shown
    <3>1. events' = Rest(0) \o <<u>> \o <<e>>
      BY <1>1, <1>3, <2>1
    <3> HIDE DEF u, e
    <3>2. /\ EventsFollow(0)
          /\ \A i \in News(0) :
                events'[i] = e \/ (events'[i] = u /\ i < Len(events) - 0 + 2)
          /\ Len(events) - 0 + 2 \in News(0) /\ events'[Len(events) - 0 + 2] = e
      <4>1. 0 \in {0, 1}
        OBVIOUS
      <4> QED
        BY <1>2, <1>3, <3>1, <4>1, OneThenOther
    <3> QED
      BY <3>2
  <2>2. CASE c \notin shown
    <3>1. events' = Append(Rest(0), e)
      BY <1>1, <1>2, <1>3, <2>2
    <3> HIDE DEF u, e
    <3> QED
      BY <1>2, <1>3, <3>1, OneMore
  <2> QED
    BY <2>1, <2>2
<1>5. ToSet(root') = ToSet(root) \ {c}
  <2>1. ListOK(root)
    BY InvFacts DEF ListOK
  <2> QED
    BY <1>1, <2>1, UnhookedOrder
<1> HIDE DEF u, e
<1> QED
  BY <1>2, <1>4, <1>5

LEMMA RequestSays ==
  ASSUME StackInv, Told, NEW c \in framed, NEW sibling, sibling # FrameOf[c],
         sibling = Nothing \/ sibling \in ToSet(root), Request(c, sibling)
  PROVE  /\ EventsFollow(0) /\ ToSet(root') = ToSet(root)
         /\ \A i \in News(0) : events'[i].type = "Configure" /\ events'[i].win = FrameOf[c]
<1> DEFINE f == FrameOf[c]
           e == Configure(root', f, serial')
<1>1. /\ serial < MaxRequests /\ serial' = serial + 1
      /\ root' = MovedAbove(root, f, sibling)
      /\ events' = IF root' = root THEN events ELSE Append(events, e)
  BY DEF Request
<1>2. /\ ListOK(root) /\ f \in ToSet(root) /\ c \in Managed
  BY HeardFacts DEF Told
<1>3. ListOK(root') /\ ToSet(root') = ToSet(root)
  BY <1>1, <1>2, MovedOrder
<1>4. events \in Seq(Event) /\ Rest(0) = events /\ 0 <= Len(events)
  BY InvFacts
<1>5. CASE root' = root
  <2>1. EventsFollow(0) /\ News(0) = {}
    BY <1>1, <1>4, <1>5, NoneMore
  <2> QED
    BY <1>3, <2>1
<1>6. CASE root' # root
  <2>1. e \in Event /\ e.type = "Configure" /\ e.win = f
    <3>1. root' \in Seq(Ids) /\ Distinct(root') /\ f \in ToSet(root')
      BY <1>2, <1>3 DEF ListOK
    <3>2. serial' \in 0 .. MaxRequests
      BY <1>1, InvFacts, IdsAssumption DEF OthersOK
    <3> QED
      BY <3>1, <3>2, ConfigureShape
  <2> HIDE DEF e
  <2>2. EventsFollow(0) /\ News(0) = {Len(events')} /\ events'[Len(events')] = e
    BY <1>1, <1>4, <1>6, <2>1, OneMore
  <2> QED
    BY <1>3, <2>1, <2>2
<1> QED
  BY <1>5, <1>6

LEMMA ClientsStayGone ==
  ASSUME StackInv, Gone, NEW c \in Clients, ClientCreates(c) \/ ClientMaps(c) \/ ClientUnmaps(c)
  PROVE  Gone'
<1>1. EventsFollow(0) /\ \A i \in News(0) : events'[i].type \notin {"Configure", "Destroy"}
  BY ClientsSay
<1>2. root' = root \/ (ClientCreates(c) /\ root' = Append(root, c))
  BY DEF ClientCreates, ClientMaps, ClientUnmaps
<1>3. CASE root' = root
  BY <1>1, <1>3, QuietlyGone
<1>4. CASE ClientCreates(c) /\ root' = Append(root, c)
  <2>1. Unheard(c) /\ c \in Ids
    BY <1>4, InvFacts DEF ClientCreates, NotBorn, Ids
  <2>2. ToSet(root') = ToSet(root) \cup {c}
    <3>1. c \notin ToSet(root)
      BY <2>1 DEF Unheard
    <3> QED
      BY <1>4, <2>1, <3>1, InvFacts, AppendedMembers
  <2>3. \A i \in DOMAIN events : events[i].win # c
    BY <2>1 DEF Unheard, Names
  <2>4. GoneStep(0)
    BY <1>1, <2>2, <2>3 DEF GoneStep
  <2> QED
    BY <2>4, GoneStays
<1> QED
  BY <1>2, <1>3, <1>4

LEMMA OverrideMovesStaysGone ==
  ASSUME StackInv, Gone, NEW o \in Overrides, NEW above \in Ids \cup {Nothing},
         OverrideMoves(o, above)
  PROVE  Gone'
<1>1. /\ EventsFollow(0) /\ ToSet(root') = ToSet(root)
      /\ \A i \in News(0) : events'[i].type = "Configure" /\ events'[i].win \notin Managed
  BY OverrideMovesSays
<1> QED
  BY <1>1, QuietlyGone

LEMMA ClientDestroysStaysGone ==
  ASSUME StackInv, Gone, NEW c \in Clients, ClientDestroys(c)
  PROVE  Gone'
<1>1. /\ EventsFollow(0) /\ ToSet(root') = ToSet(root) \ {c}
      /\ \A i \in News(0) : events'[i].type \in {"Unmap", "Destroy"} /\ events'[i].win = c
  BY ClientDestroysSays
<1>2. GoneStep(0)
  BY <1>1 DEF GoneStep
<1> QED
  BY <1>2, GoneStays

LEMMA RequestStaysGone ==
  ASSUME StackInv, Gone, Told, NEW c \in framed, NEW sibling, sibling # FrameOf[c],
         sibling = Nothing \/ sibling \in ToSet(root), Request(c, sibling)
  PROVE  Gone'
<1>1. /\ EventsFollow(0) /\ ToSet(root') = ToSet(root)
      /\ \A i \in News(0) : events'[i].type = "Configure" /\ events'[i].win = FrameOf[c]
  BY RequestSays
<1>2. FrameOf[c] \notin Managed
  <2>1. c \in Managed
    BY HeardFacts DEF Told
  <2> QED
    BY <2>1, FrameIds DEF Clients
<1> QED
  BY <1>1, <1>2, QuietlyGone

LEMMA HandleMapRequestStaysGone ==
  ASSUME StackInv, Gone, HandleMapRequest
  PROVE  Gone'
<1> DEFINE c == Subject
           f == FrameOf[c]
           e == [type |-> "Create", win |-> f]
<1>1. /\ Reads("MapRequest")
      /\ IF Contains(windows, c) /\ Contains(root, c)
         THEN root' = ReplaceAll(root, c, f) /\ events' = Append(Tail(events), e)
         ELSE events' = Tail(events) /\ root' = root
  BY DEF HandleMapRequest
<1>2. /\ 1 \in DOMAIN events /\ 1 <= Len(events) /\ Rest(1) = Tail(events)
      /\ events[1].type = "MapRequest" /\ events[1].win = c
      /\ events # << >> /\ events \in Seq(Event)
  BY <1>1, InvFacts, ReadsFirst DEF Reads
<1> HIDE DEF c
<1>3. CASE ~ (Contains(windows, c) /\ Contains(root, c))
  BY <1>1, <1>2, <1>3, ReadsGone
<1>4. CASE Contains(windows, c) /\ Contains(root, c)
  <2>1. c \in ToSet(root)
    BY <1>4, InvFacts, ContainsMember
  <2>2. c \in Managed /\ Unheard(f)
    BY <1>2, InvFacts DEF OneRequest, OthersOK
  <2>3. e \in Event /\ e.type = "Create" /\ e.win = f /\ f \in Ids
    BY <2>2, EventShapes, FrameIds
  <2> HIDE DEF e, f
  <2>4. EventsFollow(1) /\ News(1) = {Len(events')} /\ events'[Len(events')] = e
    BY <1>1, <1>2, <1>4, <2>3, OneMore
  <2>5. f \notin ToSet(root) /\ \A i \in DOMAIN events : events[i].win # f
    BY <2>2 DEF Unheard, Names
  <2>6. ToSet(root') \subseteq ToSet(root) \cup {f}
    <3>1. ListOK(root)
      BY InvFacts DEF ListOK
    <3>2. ToSet(ReplaceAll(root, c, f)) = (ToSet(root) \ {c}) \cup {f}
      BY <2>1, <2>3, <2>5, <3>1, ReplacedOrder
    <3> QED
      BY <1>1, <1>4, <3>2
  <2>7. GoneStep(1)
    BY <2>3, <2>4, <2>5, <2>6 DEF GoneStep
  <2> QED
    BY <2>7, GoneStays
<1> QED
  BY <1>3, <1>4

LEMMA UnreparentSays ==
  ASSUME StackInv, Told, NEW d \in {0, 1}, d <= Len(events), NEW c \in framed,
         Unreparent(c, Rest(d))
  PROVE  /\ EventsFollow(d)
         /\ \A i \in News(d) :
               \/ events'[i].type = "Destroy" /\ events'[i].win = FrameOf[c]
               \/ /\ events'[i].type = "Configure" /\ events'[i].win = c
                  /\ \A j \in News(d) : events'[j].type = "Destroy" => i < j
<1> DEFINE f == FrameOf[c]
           below == InsertAt(root, IndexIn(root, f), c)
           e1 == Configure(below, c, 0)
           e2 == [type |-> "Destroy", win |-> f]
<1>1. events' = Rest(d) \o (IF c \in wrapped THEN <<e1>> ELSE << >>) \o <<e2>>
  BY DEF Unreparent
<1>2. /\ events \in Seq(Event) /\ ListOK(root)
      /\ c \in Managed /\ f \in ToSet(root) /\ c \notin ToSet(root)
  BY HeardFacts, InvFacts DEF Told
<1>3. f \in Ids /\ c \in Ids
  BY <1>2, FrameIds
<1>4. e2 \in Event /\ e2.type = "Destroy" /\ e2.win = f
  BY <1>3, EventShapes
<1>5. e1 \in Event /\ e1.type = "Configure" /\ e1.win = c
  <2>1. ListOK(below) /\ ToSet(below) = ToSet(root) \cup {c}
    <3>1. root \in Seq(Ids)
      BY <1>2 DEF ListOK
    <3>2. IndexIn(root, f) \in 1 .. Len(root) /\ Len(root) \in Nat
      BY <1>2, <3>1, IndexIs
    <3>3. IndexIn(root, f) \in 1 .. Len(root) + 1
      BY <3>2
    <3> QED
      BY <1>2, <1>3, <3>3, InsertedOrder
  <2> HIDE DEF below
  <2>2. below \in Seq(Ids) /\ Distinct(below) /\ c \in ToSet(below) /\ 0 \in 0 .. MaxRequests
    BY <2>1, IdsAssumption DEF ListOK
  <2> QED
    BY <2>2, ConfigureShape
<1> HIDE DEF e1, e2
<1>6. Rest(d) \in Seq(Event)
  <2>1. d = 1 => events # << >>
    BY <1>2
  <2> QED
    BY <1>2, <2>1 DEF Rest
<1>7. CASE c \in wrapped
  <2>1. events' = Rest(d) \o <<e1>> \o <<e2>>
    BY <1>1, <1>6, <1>7
  <2> DEFINE k == Len(events) - d + 1
  <2>0. e1 \in Event /\ e2 \in Event /\ events \in Seq(Event)
    BY <1>2, <1>4, <1>5
  <2>2. /\ EventsFollow(d)
        /\ \A i \in News(d) : (events'[i] = e1 /\ i = k) \/ events'[i] = e2
    <3>1. /\ EventsFollow(d)
          /\ \A i \in News(d) : \/ events'[i] = e1 /\ i = Len(events) - d + 1
                                \/ events'[i] = e2 /\ i = Len(events')
          /\ \E i, j \in News(d) : events'[i] = e1 /\ events'[j] = e2
          /\ Len(events) - d + 2 \in News(d) /\ events'[Len(events) - d + 2] = e2
      <4> HIDE DEF k
      <4> QED
        BY <2>0, <2>1, TwoMore
    <3> QED
      BY <3>1
  <2>3. \A j \in News(d) : j = k \/ k < j
    BY <2>2 DEF News, EventsFollow
  <2> HIDE DEF k
  <2>4. ASSUME NEW i \in News(d), events'[i] # e2
        PROVE  /\ events'[i] = e1
               /\ \A j \in News(d) : events'[j].type = "Destroy" => i < j
    <3>1. events'[i] = e1 /\ i = k
      BY <2>2, <2>4
    <3>2. \A j \in News(d) : events'[j].type = "Destroy" => j # k
      BY <1>5, <3>1
    <3> QED
      BY <2>3, <3>1, <3>2
  <2> QED
    BY <1>4, <1>5, <2>2, <2>4 DEF f
<1>8. CASE c \notin wrapped
  <2>1. events' = Append(Rest(d), e2)
    BY <1>1, <1>4, <1>6, <1>8
  <2>2. EventsFollow(d) /\ News(d) = {Len(events')} /\ events'[Len(events')] = e2
    BY <1>2, <1>4, <2>1, OneMore
  <2> QED
    BY <1>4, <2>2
<1> QED
  BY <1>7, <1>8

LEMMA UnreparentStaysGone ==
  ASSUME StackInv, Told, Gone, NEW d \in {0, 1}, d <= Len(events), NEW c \in framed,
         Unreparent(c, Rest(d))
  PROVE  Gone'
<1> DEFINE f == FrameOf[c]
<1>1. root' = IF c \in wrapped THEN ReplaceAll(root, f, c) ELSE Unhooked(root, f)
  BY DEF Unreparent
<1>2. /\ events \in Seq(Event) /\ ListOK(root)
      /\ c \in Managed /\ f \in ToSet(root) /\ c \notin ToSet(root)
  BY HeardFacts, InvFacts DEF Told
<1>3. c \in Ids /\ c # f
  BY <1>2, FrameIds
<1>4. ToSet(root') \subseteq (ToSet(root) \ {f}) \cup (IF c \in wrapped THEN {c} ELSE {})
  <2>1. CASE c \in wrapped
    <3>1. ToSet(ReplaceAll(root, f, c)) = (ToSet(root) \ {f}) \cup {c}
      BY <1>2, <1>3, ReplacedOrder
    <3> QED
      BY <1>1, <2>1, <3>1
  <2>2. CASE c \notin wrapped
    <3>1. ToSet(Unhooked(root, f)) = ToSet(root) \ {f}
      BY <1>2, UnhookedOrder
    <3> QED
      BY <1>1, <2>2, <3>1
  <2> QED
    BY <2>1, <2>2
<1>5. /\ EventsFollow(d)
      /\ \A i \in News(d) :
            \/ events'[i].type = "Destroy" /\ events'[i].win = f
            \/ /\ events'[i].type = "Configure" /\ events'[i].win = c
               /\ \A j \in News(d) : events'[j].type = "Destroy" => i < j
  BY UnreparentSays
<1> HIDE DEF f
<1>6. \A i \in News(d) : events'[i].type = "Destroy" => events'[i].win \notin ToSet(root')
  BY <1>3, <1>4, <1>5
<1>7. \A i \in DOMAIN events : events[i].type = "Destroy" /\ events[i].win \in ToSet(root') =>
         events[i].win \in ToSet(root)
  <2>1. \A i \in DOMAIN events : events[i].type = "Destroy" /\ events[i].win = c => c \notin wrapped
    BY <1>2, InvFacts DEF DestroyIsLast
  <2> QED
    BY <1>4, <2>1
<1>8. \A i \in News(d) : \A b \in Managed : events'[i].type = "Configure" /\ events'[i].win = b =>
         /\ FrameOf[b] \in ToSet(root)
         /\ \A j \in News(d) :
               events'[j].type = "Destroy" /\ events'[j].win = FrameOf[b] => i < j
  BY <1>2, <1>5 DEF f
<1>9. GoneStep(d)
  BY <1>5, <1>6, <1>7, <1>8 DEF GoneStep
<1> QED
  BY <1>9, GoneStays

LEMMA HandleUnmapStaysGone ==
  ASSUME StackInv, Told, Gone, NEW held \in BOOLEAN, HandleUnmap(held)
  PROVE  Gone'
<1> DEFINE c == Subject
<1>1. /\ Reads("Unmap")
      /\ IF c \in framed /\ ~ held THEN Unreparent(c, Tail(events))
         ELSE events' = Tail(events) /\ root' = root
  BY DEF HandleUnmap, LosesFrame, serverVars
<1>2. 1 <= Len(events) /\ Rest(1) = Tail(events) /\ events # << >>
  BY <1>1, InvFacts, ReadsFirst DEF Reads
<1> HIDE DEF c
<1>3. CASE c \in framed /\ ~ held
  BY <1>1, <1>2, <1>3, UnreparentStaysGone
<1>4. CASE ~ (c \in framed /\ ~ held)
  BY <1>1, <1>2, <1>4, ReadsGone
<1> QED
  BY <1>3, <1>4

LEMMA PluginUnmapsStaysGone ==
  ASSUME StackInv, Told, Gone, NEW c \in Managed, PluginUnmaps(c)
  PROVE  Gone'
<1>1. c \in framed /\ Unreparent(c, Rest(0)) /\ 0 <= Len(events)
  BY InvFacts DEF PluginUnmaps, OthersOK
<1> QED
  BY <1>1, UnreparentStaysGone

(* c and f, which sits above it, stay together when another window is put  *)
(* above y, when one is appended, and when one is erased.                  *)
LEMMA SitsBeside ==
  ASSUME NEW s, ListOK(s), NEW t, ListOK(t), NEW f, NEW c, Sits(s, f, c), c # Nothing,
         NEW x, x \notin {f, c}, NEW y, y # c, Sits(t, x, y), ToSet(t) = ToSet(s) \cup {x},
         \A a, b : a # x /\ b # x => (Below(t, a, b) <=> Below(s, a, b))
  PROVE  Sits(t, f, c)
<1>1. f \in ToSet(t) /\ c \in ToSet(t) /\ c # f /\ f \in ToSet(s) /\ c \in ToSet(s)
  BY DEF Sits
<1>2. \A a \in ToSet(s) : a # f => (Below(s, a, f) <=> a = c \/ Below(s, a, c))
  BY DEF Sits
<1>3. \A a \in ToSet(t) : a # x => (Below(t, a, x) <=> y # Nothing /\ (a = y \/ Below(t, a, y)))
  BY DEF Sits
<1>4. y = Nothing \/ y \in ToSet(t) \ {x}
  BY DEF Sits
<1>5. /\ \A a, b : Below(t, a, b) => a # b /\ ~ Below(t, b, a)
      /\ \A a, b \in ToSet(t) : a = b \/ Below(t, a, b) \/ Below(t, b, a)
  BY BelowFacts
<1>6. \A a \in ToSet(t) : a # f /\ a # x => (Below(t, a, f) <=> a = c \/ Below(t, a, c))
  BY <1>1, <1>2
<1>7. Below(t, x, f) <=> Below(t, x, c)
  <2>1. Below(t, f, x) <=> y # Nothing /\ (f = y \/ Below(t, f, y))
    BY <1>1, <1>3
  <2>2. Below(t, c, x) <=> y # Nothing /\ Below(t, c, y)
    BY <1>1, <1>3
  <2>3. Below(t, c, f)
    BY <1>1, <1>6
  <2>4. y # Nothing /\ y # f => (Below(t, y, f) <=> Below(t, y, c))
    BY <1>4, <1>6
  <2>5. Below(t, f, x) <=> Below(t, c, x)
    <3>1. CASE y = Nothing
      BY <2>1, <2>2, <3>1
    <3>2. CASE y = f
      BY <2>1, <2>2, <2>3, <3>2
    <3>3. CASE y # Nothing /\ y # f
      <4>1. (Below(t, f, y) <=> ~ Below(t, y, f)) /\ (Below(t, c, y) <=> ~ Below(t, y, c))
        BY <1>1, <1>4, <1>5, <3>3
      <4> QED
        BY <2>1, <2>2, <2>4, <3>3, <4>1
    <3> QED
      BY <3>1, <3>2, <3>3
  <2>6. x \in ToSet(t)
    OBVIOUS
  <2> QED
    BY <1>1, <1>5, <2>5, <2>6
<1>8. x # c
  OBVIOUS
<1> QED
  BY <1>1, <1>6, <1>7, <1>8 DEF Sits

LEMMA SitsBelow ==
  ASSUME NEW s, ListOK(s), NEW f, NEW c, Sits(s, f, c), c # Nothing,
         NEW x \in Ids, x \notin ToSet(s)
  PROVE  Sits(Append(s, x), f, c)
<1> DEFINE t == Append(s, x)
<1>1. /\ ToSet(t) = ToSet(s) \cup {x}
      /\ \A a, b : Below(t, a, b) <=> Below(s, a, b) \/ (a \in ToSet(s) /\ b = x)
  BY AppendedOrder
<1> HIDE DEF t
<1>2. f \in ToSet(s) /\ c \in ToSet(s) /\ c # f
      /\ \A a \in ToSet(s) : a # f => (Below(s, a, f) <=> a = c \/ Below(s, a, c))
  BY DEF Sits
<1>3. ~ Below(s, x, f) /\ ~ Below(s, x, c) /\ x # f /\ x # c
  BY <1>2, BelowFacts
<1>4. ASSUME NEW a \in ToSet(t), a # f
      PROVE  Below(t, a, f) <=> a = c \/ Below(t, a, c)
  <2>1. (Below(t, a, f) <=> Below(s, a, f)) /\ (Below(t, a, c) <=> Below(s, a, c))
    BY <1>1, <1>3
  <2> QED
    BY <1>1, <1>2, <1>3, <1>4, <2>1
<1>5. Sits(t, f, c)
  BY <1>1, <1>2, <1>4 DEF Sits
<1> QED
  BY <1>5 DEF t

LEMMA SitsWithout ==
  ASSUME NEW s, ListOK(s), NEW f, NEW c, Sits(s, f, c), c # Nothing, NEW e, e \notin {f, c}
  PROVE  Sits(Unhooked(s, e), f, c)
<1> DEFINE t == Unhooked(s, e)
<1>1. /\ ToSet(t) = ToSet(s) \ {e}
      /\ \A a, b : Below(t, a, b) <=> Below(s, a, b) /\ a # e /\ b # e
  BY UnhookedOrder
<1> HIDE DEF t
<1>2. f \in ToSet(s) /\ c \in ToSet(s) /\ c # f
      /\ \A a \in ToSet(s) : a # f => (Below(s, a, f) <=> a = c \/ Below(s, a, c))
  BY DEF Sits
<1>3. ASSUME NEW a \in ToSet(t), a # f
      PROVE  Below(t, a, f) <=> a = c \/ Below(t, a, c)
  BY <1>1, <1>2, <1>3
<1>4. Sits(t, f, c)
  BY <1>1, <1>2, <1>3 DEF Sits
<1> QED
  BY <1>4 DEF t

(* The clients that will be put back                                       *)
Resting(q, list) ==
    \A i \in DOMAIN q : q[i].type = "Configure" /\ q[i].win \in Managed =>
        Sits(list, FrameOf[q[i].win], q[i].win)

(* The plan is right as long as no request was computed on a stale order.  *)
Planned ==
    raced \/ /\ Heard(TRUE, events, root, serverWindows, framed, asked, born)
             /\ Resting(events, serverWindows)
             /\ ToSet(serverWindows) = ToSet(windows)

PlanInv == ToldInv /\ Gone /\ Planned

(* What is pending stays at rest.                                          *)
LEMMA RestingStays ==
  ASSUME events \in Seq(Event), Resting(events, serverWindows), NEW d, EventsFollow(d), NEW list,
         \A i \in News(d) : events'[i].type # "Configure" \/ events'[i].win \notin Managed
                            \/ Sits(list, FrameOf[events'[i].win], events'[i].win),
         \A c \in Managed : \A i \in DOMAIN events :
            /\ d = 1 => i # 1
            /\ events[i].type = "Configure" /\ events[i].win = c
            /\ Sits(serverWindows, FrameOf[c], c)
            => Sits(list, FrameOf[c], c)
  PROVE  Resting(events', list)
<1>1. \A i \in DOMAIN events' : i \in News(d) \/
         (i + d \in DOMAIN events /\ events'[i] = events[i + d])
  BY FollowPlaces
<1>2. DOMAIN events' = 1 .. Len(events') /\ Len(events') \in Nat /\ d \in {0, 1}
  BY DEF EventsFollow
<1>3. ASSUME NEW i \in DOMAIN events', events'[i].type = "Configure", events'[i].win \in Managed
      PROVE  Sits(list, FrameOf[events'[i].win], events'[i].win)
  <2>1. CASE i \in News(d)
    BY <1>3, <2>1
  <2>2. CASE i \notin News(d)
    <3> DEFINE k == i + d
               c == events'[i].win
    <3>1. k \in DOMAIN events /\ events'[i] = events[k]
      BY <1>1, <2>2
    <3>2. d = 1 => k # 1
      BY <1>2
    <3> HIDE DEF k
    <3>3. c \in Managed /\ events[k].type = "Configure" /\ events[k].win = c
      BY <1>3, <3>1
    <3>4. Sits(serverWindows, FrameOf[c], c)
      BY <3>1, <3>3 DEF Resting
    <3> HIDE DEF c
    <3>5. Sits(list, FrameOf[c], c)
      BY <3>1, <3>2, <3>3, <3>4
    <3> QED
      BY <3>5 DEF c
  <2> QED
    BY <2>1, <2>2
<1> QED
  BY <1>3 DEF Resting

LEMMA QuietlyPlanned ==
  ASSUME StackInv, ~ raced, Planned, NEW d, EventsFollow(d),
         \A i \in News(d) : events'[i].type # "Configure" \/ events'[i].win \notin Managed,
         Heard(TRUE, events', root', serverWindows, framed', asked', born'),
         UNCHANGED <<windows, serverWindows>>
  PROVE  Planned'
<1>1. Resting(events, serverWindows) /\ ToSet(serverWindows) = ToSet(windows)
  BY DEF Planned
<1>2. Resting(events', serverWindows)
  BY <1>1, InvFacts, RestingStays
<1> QED
  BY <1>1, <1>2 DEF Planned

LEMMA ClientsKeepPlan ==
  ASSUME StackInv, Told, Planned, ~ raced', NEW c \in Clients,
         ClientCreates(c) \/ ClientMaps(c) \/ ClientUnmaps(c)
  PROVE  Planned'
<1>1. ~ raced /\ UNCHANGED <<windows, serverWindows>>
  BY DEF ClientCreates, ClientMaps, ClientUnmaps, listVars
<1>2. Heard(TRUE, events, root, serverWindows, framed, asked, born)
  BY <1>1 DEF Planned
<1>3. Heard(TRUE, events', root', serverWindows, framed', asked', born')
  BY <1>2, ClientCreatesHeard, ClientMapsHeard, ClientUnmapsHeard
<1>4. EventsFollow(0) /\ \A i \in News(0) : events'[i].type \notin {"Configure", "Destroy"}
  BY ClientsSay
<1> QED
  BY <1>1, <1>3, <1>4, QuietlyPlanned

LEMMA OverrideMovesKeepsPlan ==
  ASSUME StackInv, Planned, ~ raced', NEW o \in Overrides, NEW above \in Ids \cup {Nothing},
         OverrideMoves(o, above)
  PROVE  Planned'
<1>1. ~ raced /\ UNCHANGED <<windows, serverWindows>>
  BY DEF OverrideMoves, listVars
<1>2. Heard(TRUE, events, root, serverWindows, framed, asked, born)
  BY <1>1 DEF Planned
<1>3. Heard(TRUE, events', root', serverWindows, framed', asked', born')
  BY <1>2, OverrideMovesHeard
<1>4. /\ EventsFollow(0)
      /\ \A i \in News(0) : events'[i].type = "Configure" /\ events'[i].win \notin Managed
  BY OverrideMovesSays
<1> QED
  BY <1>1, <1>3, <1>4, QuietlyPlanned

LEMMA ClientDestroysKeepsPlan ==
  ASSUME StackInv, Planned, ~ raced', NEW c \in Clients, ClientDestroys(c)
  PROVE  Planned'
<1>1. ~ raced /\ UNCHANGED <<windows, serverWindows>>
  BY DEF ClientDestroys, listVars
<1>2. Heard(TRUE, events, root, serverWindows, framed, asked, born)
  BY <1>1 DEF Planned
<1>3. Heard(TRUE, events', root', serverWindows, framed', asked', born')
  BY <1>2, ClientDestroysHeard
<1>4. /\ EventsFollow(0)
      /\ \A i \in News(0) : events'[i].type \in {"Unmap", "Destroy"} /\ events'[i].win = c
  BY ClientDestroysSays
<1> QED
  BY <1>1, <1>3, <1>4, QuietlyPlanned

LEMMA HandleMapRequestKeepsPlan ==
  ASSUME StackInv, Planned, ~ raced', HandleMapRequest
  PROVE  Planned'
<1> DEFINE f == FrameOf[Subject]
           e == [type |-> "Create", win |-> f]
<1>1. /\ ~ raced /\ UNCHANGED <<windows, serverWindows>> /\ Reads("MapRequest")
      /\ events' = Tail(events) \/ events' = Append(Tail(events), e)
  BY DEF HandleMapRequest
<1>2. Heard(TRUE, events, root, serverWindows, framed, asked, born)
  BY <1>1 DEF Planned
<1>3. Heard(TRUE, events', root', serverWindows, framed', asked', born')
  BY <1>2, HandleMapRequestHeard
<1>4. /\ 1 <= Len(events) /\ Rest(1) = Tail(events) /\ events \in Seq(Event)
      /\ 1 \in DOMAIN events /\ events[1].type = "MapRequest" /\ events[1].win = Subject
  BY <1>1, InvFacts, ReadsFirst DEF Reads
<1>5. e \in Event /\ e.type # "Configure"
  <2>1. Subject \in Managed
    BY <1>4, InvFacts DEF OneRequest, OthersOK
  <2> QED
    BY <2>1, FrameIds, EventShapes
<1> HIDE DEF e
<1>6. EventsFollow(1) /\ \A i \in News(1) : events'[i].type # "Configure"
  <2>1. CASE events' = Tail(events)
    BY <1>4, <2>1, NoneMore
  <2>2. CASE events' = Append(Tail(events), e)
    <3>1. EventsFollow(1) /\ News(1) = {Len(events')} /\ events'[Len(events')] = e
      BY <1>4, <1>5, <2>2, OneMore
    <3> QED
      BY <1>5, <3>1
  <2> QED
    BY <1>1, <2>1, <2>2
<1> QED
  BY <1>1, <1>3, <1>6, QuietlyPlanned

LEMMA HandleCreateKeepsPlan ==
  ASSUME StackInv, Announced, Planned, ~ raced', HandleCreate
  PROVE  Planned'
<1>1. ~ raced /\ Reads("Create") /\ events' = Tail(events)
  BY DEF HandleCreate
<1>2. /\ Heard(TRUE, events, root, serverWindows, framed, asked, born)
      /\ Resting(events, serverWindows) /\ ToSet(serverWindows) = ToSet(windows)
  BY <1>1 DEF Planned
<1> DEFINE x     == Subject
           list2 == IF x \in Clients THEN Append(serverWindows, x) ELSE serverWindows
<1>3. ListOK(serverWindows) /\ ToSet(serverWindows) \subseteq Listed /\ ListOK(windows)
  BY InvFacts DEF ListOK, Listed
<1>4. /\ Heard(TRUE, events', root', list2, framed', asked', born')
      /\ x \in Ids /\ x \notin ToSet(serverWindows)
      /\ IF x \in Clients
         THEN windows' = Append(windows, x) /\ serverWindows' = Append(serverWindows, x)
         ELSE UNCHANGED <<windows, serverWindows>>
  BY <1>2, <1>3, HandleCreateHeard
<1>5. EventsFollow(1) /\ News(1) = {}
  <2>1. events \in Seq(Event) /\ 1 <= Len(events) /\ events' = Rest(1)
    BY <1>1, InvFacts, ReadsFirst DEF Rest
  <2> QED
    BY <2>1, NoneMore
<1> HIDE DEF x
<1>6. CASE x \in Clients
  <2>1. serverWindows' = Append(serverWindows, x) /\ windows' = Append(windows, x)
        /\ Heard(TRUE, events', root', serverWindows', framed', asked', born')
    BY <1>4, <1>6
  <2>2. ToSet(serverWindows') = ToSet(windows')
    <3>1. ToSet(serverWindows') = ToSet(serverWindows) \cup {x}
      BY <1>3, <1>4, <2>1, AppendedOrder
    <3>2. ToSet(windows') = ToSet(windows) \cup {x}
      BY <1>2, <1>3, <1>4, <2>1, AppendedOrder
    <3> QED
      BY <1>2, <3>1, <3>2
  <2>3. Resting(events', serverWindows')
    <3>1. ASSUME NEW c \in Managed, Sits(serverWindows, FrameOf[c], c)
          PROVE  Sits(serverWindows', FrameOf[c], c)
      <4>1. c # Nothing
        BY FrameIds, IdsAssumption
      <4> QED
        BY <1>3, <1>4, <2>1, <3>1, <4>1, SitsBelow
    <3> QED
      BY <1>2, <1>5, <3>1, InvFacts, RestingStays
  <2> QED
    BY <2>1, <2>2, <2>3 DEF Planned
<1>7. CASE x \notin Clients
  BY <1>1, <1>4, <1>5, <1>7, QuietlyPlanned
<1> QED
  BY <1>6, <1>7

(* The frame of c becomes a window; a client put back sits below it.       *)
LEMMA PutAbovePlanned ==
  ASSUME StackInv, PutBack, Planned, ~ raced, NEW c \in framed, NEW d, EventsFollow(d),
         \A i \in News(d) : events'[i].type # "Configure" \/ events'[i].win = c,
         PutAbove(serverWindows, c, serverWindows'), PutAbove(windows, c, windows'),
         Heard(TRUE, events', root', serverWindows', framed', asked', born')
  PROVE  Planned'
<1>1. /\ Resting(events, serverWindows) /\ ToSet(serverWindows) = ToSet(windows)
      /\ c \in Managed /\ ListOK(serverWindows)
  BY InvFacts DEF Planned, OthersOK, ListOK
<1>2. ToSet(serverWindows') = ToSet(windows')
  BY <1>1 DEF PutAbove
<1>3. ASSUME NEW b \in Managed, NEW i \in DOMAIN events,
             events[i].type = "Configure", events[i].win = b, Sits(serverWindows, FrameOf[b], b)
      PROVE  Sits(serverWindows', FrameOf[b], b)
  <2>1. b # c
    BY <1>3 DEF PutBack
  <2>2. b # Nothing /\ FrameOf[c] \notin {FrameOf[b], b}
    BY <1>1, <2>1, FrameIds, IdsAssumption
  <2>3. /\ ListOK(serverWindows') /\ ToSet(serverWindows') = ToSet(serverWindows) \cup {FrameOf[c]}
        /\ \A a, e : a # FrameOf[c] /\ e # FrameOf[c] =>
              (Below(serverWindows', a, e) <=> Below(serverWindows, a, e))
        /\ Sits(serverWindows', FrameOf[c], c)
    BY DEF PutAbove
  <2> QED
    BY <1>1, <1>3, <2>1, <2>2, <2>3, SitsBeside
<1>4. Sits(serverWindows', FrameOf[c], c)
  BY DEF PutAbove
<1>5. Resting(events', serverWindows')
  BY <1>1, <1>3, <1>4, InvFacts, RestingStays
<1> QED
  BY <1>2, <1>5 DEF Planned

LEMMA HandleUnmapKeepsPlan ==
  ASSUME StackInv, Told, Orderly, Planned, ~ raced', NEW held \in BOOLEAN, HandleUnmap(held)
  PROVE  Planned'
<1> DEFINE c == Subject
<1>1. /\ Reads("Unmap")
      /\ IF c \in framed /\ ~ held
         THEN /\ Unreparent(c, Tail(events)) /\ windows' = WithFrame(windows, c, known)
              /\ serverWindows' = WithFrame(serverWindows, c, framed) /\ raced' = raced
         ELSE events' = Tail(events) /\ UNCHANGED <<windows, serverWindows, raced>>
  BY DEF HandleUnmap, LosesFrame, Unreparent, listVars
<1>2. ~ raced /\ Announced /\ Mourned /\ PutBack
  BY <1>1 DEF Orderly
<1>3. /\ Heard(TRUE, events, root, serverWindows, framed, asked, born)
      /\ Heard(FALSE, events, root, windows, framed, asked, born)
  BY <1>2 DEF Planned, Told
<1>4. /\ ListOK(serverWindows) /\ ToSet(serverWindows) \subseteq Listed
      /\ ListOK(windows) /\ ToSet(windows) \subseteq Listed
      /\ framed \in SUBSET framed /\ known \in SUBSET framed
  BY InvFacts DEF ListOK, Listed, OthersOK
<1>5. /\ 1 <= Len(events) /\ Rest(1) = Tail(events) /\ events \in Seq(Event)
  BY <1>1, InvFacts, ReadsFirst DEF Reads
<1>6. IF c \in framed /\ ~ held
      THEN /\ Heard(TRUE, events', root', WithFrame(serverWindows, c, framed),
                    framed', asked', born')
           /\ PutAbove(serverWindows, c, WithFrame(serverWindows, c, framed))
      ELSE Heard(TRUE, events', root', serverWindows, framed', asked', born')
  BY <1>2, <1>3, <1>4, HandleUnmapHeard
<1>7. c \in framed /\ ~ held => PutAbove(windows, c, WithFrame(windows, c, known))
  BY <1>2, <1>3, <1>4, HandleUnmapHeard
<1> HIDE DEF c
<1>8. CASE c \in framed /\ ~ held
  <2>1. Unreparent(c, Rest(1))
    BY <1>1, <1>5, <1>8
  <2>2. EventsFollow(1)
        /\ \A i \in News(1) : events'[i].type = "Destroy" \/ events'[i].win = c
    BY <1>5, <1>8, <2>1, UnreparentSays
  <2>3. /\ Heard(TRUE, events', root', serverWindows', framed', asked', born')
        /\ PutAbove(serverWindows, c, serverWindows') /\ PutAbove(windows, c, windows')
    BY <1>1, <1>6, <1>7, <1>8
  <2> QED
    BY <1>2, <1>8, <2>2, <2>3, PutAbovePlanned
<1>9. CASE ~ (c \in framed /\ ~ held)
  <2>1. EventsFollow(1) /\ News(1) = {}
    BY <1>1, <1>5, <1>9, NoneMore
  <2> QED
    BY <1>1, <1>2, <1>6, <1>9, <2>1, QuietlyPlanned
<1> QED
  BY <1>8, <1>9

LEMMA PluginUnmapsKeepsPlan ==
  ASSUME StackInv, Told, Orderly, Planned, ~ raced', NEW c \in Managed, PluginUnmaps(c)
  PROVE  Planned'
<1>1. /\ c \in framed /\ Unreparent(c, Rest(0)) /\ 0 <= Len(events)
      /\ windows' = WithFrame(windows, c, known)
      /\ serverWindows' = WithFrame(serverWindows, c, framed) /\ raced' = raced
  BY InvFacts DEF PluginUnmaps, Unreparent, OthersOK
<1>2. ~ raced /\ Announced /\ Mourned /\ PutBack
  BY <1>1 DEF Orderly
<1>3. /\ Heard(TRUE, events, root, serverWindows, framed, asked, born)
      /\ Heard(FALSE, events, root, windows, framed, asked, born)
  BY <1>2 DEF Planned, Told
<1>4. /\ ListOK(serverWindows) /\ ToSet(serverWindows) \subseteq Listed
      /\ ListOK(windows) /\ ToSet(windows) \subseteq Listed
      /\ framed \in SUBSET framed /\ known \in SUBSET framed
  BY InvFacts DEF ListOK, Listed, OthersOK
<1>5. /\ Heard(TRUE, events', root', WithFrame(serverWindows, c, framed), framed', asked', born')
      /\ PutAbove(serverWindows, c, WithFrame(serverWindows, c, framed))
  BY <1>2, <1>3, <1>4, PluginUnmapsHeard
<1>6. PutAbove(windows, c, WithFrame(windows, c, known))
  BY <1>2, <1>3, <1>4, PluginUnmapsHeard
<1>7. EventsFollow(0)
      /\ \A i \in News(0) : events'[i].type = "Destroy" \/ events'[i].win = c
  BY <1>1, UnreparentSays
<1>8. /\ Heard(TRUE, events', root', serverWindows', framed', asked', born')
      /\ PutAbove(serverWindows, c, serverWindows') /\ PutAbove(windows, c, windows')
  BY <1>1, <1>5, <1>6
<1>9. \A i \in News(0) : events'[i].type # "Configure" \/ events'[i].win = c
  BY <1>7
<1> QED
  BY <1>1, <1>2, <1>7, <1>8, <1>9, PutAbovePlanned

(* The frame of a destroyed client becomes a window, then the client goes. *)
LEMMA HandleDestroyKeepsPlan ==
  ASSUME StackInv, Told, Orderly, Gone, Planned, ~ raced', NEW keep \in BOOLEAN,
         HandleDestroy(keep)
  PROVE  Planned'
<1> DEFINE w  == Subject
           s1 == WithFrame(serverWindows, w, framed)
           s2 == Unhooked(s1, w)
           w1 == WithFrame(windows, w, known)
           w2 == Unhooked(w1, w)
<1>1. /\ Reads("Destroy") /\ events' = Tail(events) /\ raced' = raced
      /\ IF Contains(windows, w) THEN windows' = w2 /\ serverWindows' = s2
         ELSE UNCHANGED <<windows, serverWindows>>
  BY DEF HandleDestroy, listVars
<1>2. ~ raced /\ Announced /\ Mourned /\ PutBack /\ PutBackBefore
  BY <1>1 DEF Orderly, Gone
<1>3. /\ Heard(TRUE, events, root, serverWindows, framed, asked, born)
      /\ Heard(FALSE, events, root, windows, framed, asked, born)
      /\ Resting(events, serverWindows) /\ ToSet(serverWindows) = ToSet(windows)
  BY <1>2 DEF Planned, Told
<1>4. /\ ListOK(serverWindows) /\ ToSet(serverWindows) \subseteq ToSet(windows)
      /\ ListOK(windows) /\ ToSet(windows) \subseteq ToSet(windows)
      /\ framed \in SUBSET framed /\ known \in SUBSET framed /\ framed \in SUBSET Managed
  BY <1>3, InvFacts DEF ListOK, OthersOK
<1>5. /\ Heard(TRUE, events', root', s2, framed', asked', born')
      /\ IF w \in framed THEN PutAbove(serverWindows, w, s1) ELSE s1 = serverWindows
      /\ ~ Contains(windows, w) => s2 = serverWindows
  BY <1>2, <1>3, <1>4, HandleDestroyHeard
<1>6. /\ IF w \in framed THEN PutAbove(windows, w, w1) ELSE w1 = windows
      /\ ~ Contains(windows, w) => w2 = windows
  BY <1>2, <1>3, <1>4, HandleDestroyHeard
<1>7. /\ 1 \in DOMAIN events /\ 1 <= Len(events) /\ Rest(1) = Tail(events)
      /\ events[1].type = "Destroy" /\ events[1].win = w /\ events \in Seq(Event)
  BY <1>1, InvFacts, ReadsFirst
<1> HIDE DEF w, s1, w1
<1>8. serverWindows' = s2 /\ windows' = w2
  BY <1>1, <1>5, <1>6
<1>9. ListOK(s1) /\ ListOK(w1) /\ ToSet(s1) = ToSet(w1)
  BY <1>3, <1>4, <1>5, <1>6 DEF PutAbove
<1>10. ToSet(serverWindows') = ToSet(windows')
  <2>1. ToSet(s2) = ToSet(s1) \ {w} /\ ToSet(w2) = ToSet(w1) \ {w}
    BY <1>9, UnhookedOrder
  <2> QED
    BY <1>8, <1>9, <2>1
<1>11. ASSUME NEW b \in Managed, NEW i \in DOMAIN events, i # 1,
              events[i].type = "Configure", events[i].win = b, Sits(serverWindows, FrameOf[b], b)
       PROVE  Sits(serverWindows', FrameOf[b], b)
  <2>1. ~ (i < 1)
    BY <1>7
  <2>2. w # b
    BY <1>2, <1>7, <1>11, <2>1 DEF PutBack
  <2>3. w # FrameOf[b]
    BY <1>2, <1>7, <1>11, <2>1 DEF PutBackBefore
  <2>4. b # Nothing
    BY FrameIds, IdsAssumption
  <2>5. Sits(s1, FrameOf[b], b)
    <3>1. CASE w \in framed
      <4>1. FrameOf[w] \notin {FrameOf[b], b}
        BY <1>4, <2>2, <3>1, FrameIds
      <4>2. /\ ListOK(s1) /\ ToSet(s1) = ToSet(serverWindows) \cup {FrameOf[w]}
            /\ \A a, e : a # FrameOf[w] /\ e # FrameOf[w] =>
                  (Below(s1, a, e) <=> Below(serverWindows, a, e))
            /\ Sits(s1, FrameOf[w], w)
        BY <1>5, <3>1 DEF PutAbove
      <4> QED
        BY <1>4, <1>11, <2>2, <2>4, <4>1, <4>2, SitsBeside
    <3>2. CASE w \notin framed
      BY <1>5, <1>11, <3>2
    <3> QED
      BY <3>1, <3>2
  <2>6. Sits(Unhooked(s1, w), FrameOf[b], b)
    BY <1>9, <2>2, <2>3, <2>4, <2>5, SitsWithout
  <2> QED
    BY <1>8, <2>6
<1>12. EventsFollow(1) /\ News(1) = {}
  <2>1. events' = Rest(1)
    BY <1>1, <1>7
  <2> QED
    BY <1>7, <2>1, NoneMore
<1> HIDE DEF s2, w2
<1>13. Resting(events', serverWindows')
  BY <1>3, <1>7, <1>11, <1>12, RestingStays
<1> QED
  BY <1>5, <1>8, <1>10, <1>13 DEF Planned

(* A client that will be put back is in no order before.                   *)
LEMMA NotBackYet ==
  ASSUME StackInv, Announced, PutBack, NEW plan, NEW r,
         Snapshots(plan, events, r, root, framed, asked, born),
         NEW b \in Managed, NEW i \in DOMAIN events,
         events[i].type = "Configure", events[i].win = b
  PROVE  b \notin ToSet(r[0])
<1>1. /\ events \in Seq(Event) /\ DOMAIN events = 1 .. Len(events) /\ Len(events) \in Nat
      /\ b \notin framed /\ b \in Clients
  BY InvFacts, FrameIds DEF PutBack
<1>2. /\ \A n \in 0 .. Len(events) : ListOK(r[n])
      /\ \A n \in 1 .. Len(events) : Tells(plan, events[n], r[n - 1], r[n])
  BY DEF Snapshots, Telling
<1>3. SUFFICES ASSUME b \in ToSet(r[0])
               PROVE  FALSE
  OBVIOUS
<1> DEFINE J == {n \in 0 .. i - 1 : b \in ToSet(r[n])}
<1>4. i - 1 \in Nat /\ 0 \in J
  BY <1>1, <1>3
<1>5. ASSUME NEW n \in 1 .. i - 1, n - 1 \in J
      PROVE  n \in J
  <2> DEFINE e == events[n]
             p == r[n - 1]
             q == r[n]
  <2>1. /\ n \in 1 .. Len(events) /\ n - 1 \in 0 .. Len(events) /\ n \in 0 .. Len(events)
        /\ ~ (i < n) /\ n \in DOMAIN events
    BY <1>1
  <2>2. ListOK(p) /\ ListOK(q) /\ Tells(plan, e, p, q) /\ b \in ToSet(p)
    BY <1>2, <1>5, <2>1
  <2>3. e.type = "Destroy" => e.win # b
    BY <2>1 DEF PutBack
  <2>4. e.type = "Create" => e.win # FrameOf[b]
    <3>1. ~ Pending("Create", FrameOf[b])
      BY <1>1 DEF Announced
    <3> QED
      BY <2>1, <3>1 DEF Pending
  <2>5. e \in Event
    BY <1>1, <2>1
  <2>6. b \in ToSet(q)
    <3> HIDE DEF e, p, q
    <3>0. e.win \in Ids /\ e.type \in {"Create", "MapRequest", "Unmap", "Destroy", "Configure"}
      BY <2>5, EventFields
    <3>1. CASE e.type = "Create" /\ e.win \in Clients
      <4>1. e.win \notin ToSet(p) /\ q = Append(p, e.win)
        BY <2>2, <3>1 DEF Tells
      <4> QED
        BY <2>2, <3>0, <4>1, AppendedOrder
    <3>2. CASE e.type = "Create" /\ e.win \notin Clients
      <4>1. PICK c \in Managed : FrameOf[c] = e.win
        BY <3>0, <3>2 DEF Ids, Frames
      <4>2. c \in ToSet(p) /\ e.win \notin ToSet(p) /\ q = ReplaceAll(p, c, e.win) /\ c # b
        BY <2>2, <2>4, <3>2, <4>1 DEF Tells
      <4>3. ToSet(q) = (ToSet(p) \ {c}) \cup {e.win}
        BY <2>2, <3>0, <4>2, ReplacedOrder
      <4> QED
        BY <2>2, <4>2, <4>3
    <3>3. CASE e.type = "Destroy"
      <4>1. q = Unhooked(p, e.win)
        BY <2>2, <3>3 DEF Tells
      <4>2. ToSet(q) = ToSet(p) \ {e.win}
        BY <2>2, <4>1, UnhookedOrder
      <4> QED
        BY <2>2, <2>3, <3>3, <4>2
    <3>4. CASE e.type = "Configure" /\ e.win \in Managed
      <4>1. /\ e.win \notin ToSet(p) /\ FrameOf[e.win] \in ToSet(p)
            /\ q = ReplaceAll(p, FrameOf[e.win], e.win)
        BY <2>2, <3>4 DEF Tells
      <4>2. ToSet(q) = (ToSet(p) \ {FrameOf[e.win]}) \cup {e.win}
        BY <2>2, <3>0, <4>1, ReplacedOrder
      <4>3. FrameOf[e.win] # b
        BY <1>1, <3>4, FrameIds
      <4> QED
        BY <2>2, <4>2, <4>3
    <3>5. CASE e.type = "Configure" /\ e.win \notin Managed
      <4>1. CASE q = p
        BY <2>2, <4>1
      <4>2. CASE q # p
        <5>1. /\ e.win \in ToSet(p) /\ e.above # e.win
              /\ (e.above = Nothing \/ e.above \in ToSet(p))
              /\ q = MovedAbove(p, e.win, e.above)
          BY <2>2, <3>5, <4>2 DEF Tells
        <5>2. ToSet(q) = ToSet(p)
          BY <2>2, <5>1, MovedOrder
        <5> QED
          BY <2>2, <5>2
      <4> QED
        BY <4>1, <4>2
    <3>6. CASE e.type \in {"MapRequest", "Unmap"}
      BY <2>2, <3>6 DEF Tells
    <3> QED
      BY <3>0, <3>1, <3>2, <3>3, <3>4, <3>5, <3>6
  <2>7. n \in 0 .. i - 1
    BY <1>4
  <2> QED
    BY <2>6, <2>7 DEF q
<1>6. \A n \in 0 .. i - 1 : n \in J
  <2> HIDE DEF J
  <2> QED
    BY <1>4, <1>5, CountingUp
<1>7. b \in ToSet(r[i - 1])
  BY <1>4, <1>6
<1>8. Tells(plan, events[i], r[i - 1], r[i])
  BY <1>1, <1>2
<1> QED
  BY <1>7, <1>8 DEF Tells

(* What a ConfigureNotify does to the plan: only override-redirect windows *)
(* move in it.                                                             *)
LEMMA ConfigurePlans ==
  ASSUME StackInv, Told, Orderly, ~ raced', HandleConfigure
  PROVE  /\ ~ raced /\ ToSet(windows') = ToSet(windows)
         /\ IF Subject \in Overrides
            THEN serverWindows' = Inserted(Unhooked(serverWindows, Subject), Subject,
                                           Head(events).above, framed)
            ELSE UNCHANGED serverWindows
<1> DEFINE x == Subject
           above == Head(events).above
           owners == {c \in known : FrameOf[c] = x /\ Contains(windows, c)}
<1>1. /\ Reads("Configure")
      /\ IF Contains(windows, x) /\ x \notin known
         THEN Restack(x, above) /\ raced' = (raced \/ (x \in Frames /\ windows' # windows))
         ELSE IF owners # {} THEN \E c \in owners : Restack(c, above) /\ UNCHANGED raced
         ELSE UNCHANGED <<windows, serverWindows, raced>>
  BY DEF HandleConfigure
<1>2. PutBack
  BY DEF Orderly
<1>3. x \notin Managed => windows' # windows
  BY <1>2, ConfigureMoves
<1>4. ToSet(windows') = ToSet(windows)
  <2>1. PICK r : /\ Snapshots(FALSE, events, r, root, framed, asked, born)
                 /\ Shows(r[0], windows, framed) /\ Explained(events, r[0], windows, framed)
    BY DEF Told, Heard
  <2> QED
    BY <1>2, <2>1, ConfigureShows
<1>5. /\ x \in Ids /\ framed \subseteq Managed /\ known \subseteq framed
  BY <1>1, InvFacts, ReadsFirst DEF OthersOK
<1> HIDE DEF x, above
<1>6. ASSUME NEW c \in owners, Restack(c, above)
      PROVE  x \in Frames /\ UNCHANGED serverWindows
  <2>1. c \in Managed /\ FrameOf[c] = x
    BY <1>5
  <2>2. c \notin Overrides \cup Frames
    BY <2>1, FrameIds, IdsAssumption
  <2> QED
    BY <1>6, <2>1, <2>2, FrameIds DEF Restack, RestackUnchecked
<1>7. CASE x \in Overrides
  <2>1. x \notin Managed /\ x \notin Frames
    BY <1>7, IdsAssumption DEF Clients
  <2>2. Contains(windows, x) /\ x \notin known
    <3>1. owners = {}
      BY <1>5, <2>1, FrameIds
    <3> QED
      BY <1>1, <1>3, <2>1, <3>1
  <2>3. Restack(x, above) /\ ~ raced
    <3>1. Restack(x, above) /\ raced' = (raced \/ (x \in Frames /\ windows' # windows))
      BY <1>1, <2>2
    <3> QED
      BY <3>1
  <2>4. RestackUnchecked(x, above)
    BY <1>3, <2>1, <2>3 DEF Restack
  <2>5. serverWindows' = Inserted(Unhooked(serverWindows, x), x, above, framed)
    BY <1>7, <2>4 DEF RestackUnchecked
  <2> QED
    BY <1>4, <1>7, <2>3, <2>5 DEF x, above
<1>8. CASE x \notin Overrides
  <2>1. ~ raced /\ UNCHANGED serverWindows
    <3>1. CASE Contains(windows, x) /\ x \notin known
      <4>1. Restack(x, above) /\ raced' = (raced \/ (x \in Frames /\ windows' # windows))
        BY <1>1, <3>1
      <4>2. x \notin Frames
        <5>1. x \in Frames => x \notin Managed
          BY IdsAssumption DEF Clients
        <5> QED
          BY <1>3, <4>1, <5>1
      <4> QED
        BY <1>8, <4>1, <4>2 DEF Restack, RestackUnchecked
    <3>2. CASE ~ (Contains(windows, x) /\ x \notin known)
      <4>1. CASE owners # {}
        <5>1. PICK c \in owners : Restack(c, above) /\ UNCHANGED raced
          BY <1>1, <3>2, <4>1
        <5> QED
          BY <1>6, <5>1
      <4>2. CASE owners = {}
        BY <1>1, <3>2, <4>2
      <4> QED
        BY <4>1, <4>2
    <3> QED
      BY <3>1, <3>2
  <2> QED
    BY <1>4, <1>8, <2>1 DEF x
<1> QED
  BY <1>7, <1>8

(* A client that sits below its frame takes its place in the order.        *)
LEMMA ShowsPutBack ==
  ASSUME NEW held \in SUBSET Managed, NEW p, ListOK(p), NEW x \in Managed \ held,
         x \notin ToSet(p), NEW f \in ToSet(p), f = FrameOf[x],
         NEW list, ListOK(list), Shows(p, list, held), Sits(list, f, x),
         NEW p2, p2 = ReplaceAll(p, f, x), Apart(p2, held)
  PROVE  Shows(p2, list, held)
<1> DEFINE W(y) == WindowIn(y, held)
<1>1. /\ x \in Ids /\ x \in Clients /\ x # Nothing /\ f # x
      /\ \A c \in held : FrameOf[c] # f
  BY FrameIds, IdsAssumption
<1>2. W(f) = f /\ W(x) = x
  BY <1>1, WindowIs
<1>3. /\ ToSet(p2) = (ToSet(p) \ {f}) \cup {x}
      /\ \A a, b : a # x /\ b # x => (Below(p2, a, b) <=> Below(p, a, b) /\ a # f /\ b # f)
      /\ \A a : a # x => (Below(p2, a, x) <=> Below(p, a, f))
      /\ \A b : b # x => (Below(p2, x, b) <=> Below(p, f, b))
      /\ ListOK(p2)
  BY <1>1, ReplacedOrder
<1>4. /\ \A a \in ToSet(p) : W(a) \in ToSet(list)
      /\ \A a, b \in ToSet(p) : Below(p, a, b) => Below(list, W(a), W(b))
  BY DEF Shows
<1>5. /\ f \in ToSet(list) /\ x \in ToSet(list)
      /\ \A a \in ToSet(list) : a # f => (Below(list, a, f) <=> a = x \/ Below(list, a, x))
  BY <1>1 DEF Sits
<1>6. \A a \in ToSet(p2) : W(a) = x => a = x
  BY <1>2, <1>3, WindowsApart
<1> HIDE DEF W
<1>7. \A a \in ToSet(p2) : W(a) \in ToSet(list)
  BY <1>2, <1>3, <1>4, <1>5
<1>8. ASSUME NEW a \in ToSet(p2), NEW b \in ToSet(p2), Below(p2, a, b)
      PROVE  Below(list, W(a), W(b))
  <2>0. a # b
    BY <1>3, <1>8, BelowFacts
  <2>1. CASE a # x /\ b # x
    BY <1>3, <1>4, <1>8, <2>1
  <2>2. CASE b = x
    <3>1. a \in ToSet(p) /\ Below(p, a, f) /\ W(a) # x
      BY <1>3, <1>6, <1>8, <2>0, <2>2
    <3>2. Below(list, W(a), f)
      BY <1>2, <1>4, <3>1
    <3>3. W(a) \in ToSet(list) /\ W(a) # f
      BY <3>2, BelowFacts
    <3>4. Below(list, W(a), x)
      BY <1>5, <3>1, <3>2, <3>3
    <3> QED
      BY <1>2, <2>2, <3>4
  <2>3. CASE a = x
    <3>1. b \in ToSet(p) /\ Below(p, f, b)
      BY <1>3, <1>8, <2>0, <2>3
    <3>2. Below(list, f, W(b))
      BY <1>2, <1>4, <3>1
    <3>3. Below(list, x, f)
      BY <1>1, <1>5
    <3>4. Below(list, x, W(b))
      BY <3>2, <3>3, BelowFacts
    <3> QED
      BY <1>2, <2>3, <3>4
  <2> QED
    BY <2>1, <2>2, <2>3
<1> QED
  BY <1>7, <1>8 DEF Shows, W

(* A window is restacked in the order and in the list alike.               *)
LEMMA ShowsInserted ==
  ASSUME NEW held \in SUBSET Managed, NEW p, ListOK(p), NEW list, ListOK(list),
         Shows(p, list, held), Apart(p, held), \A c \in held : FrameOf[c] \notin ToSet(list),
         NEW x \in ToSet(p), NEW above, above # x, above = Nothing \/ above \in ToSet(p),
         NEW w, w = WindowIn(x, held), NEW list2, list2 = Inserted(Unhooked(list, w), w, above, held)
  PROVE  /\ Shows(MovedAbove(p, x, above), list2, held)
         /\ ListOK(list2) /\ ToSet(list2) = ToSet(list) /\ w \in ToSet(list)
         /\ \A a, b : a # w /\ b # w => (Below(list2, a, b) <=> Below(list, a, b))
         /\ Sits(list2, w, Target(above, held))
<1> DEFINE s == Unhooked(list, w)
           q == MovedAbove(p, x, above)
<1>1. /\ w \in ToSet(list) /\ w \in Ids /\ above \in Ids \cup {Nothing}
      /\ above # Nothing => WindowIn(above, held) \in ToSet(list) /\ WindowIn(above, held) # w
  <2>1. w \in ToSet(list)
    BY DEF Shows
  <2>2. above # Nothing => WindowIn(above, held) \in ToSet(list)
    BY DEF Shows
  <2>3. above # Nothing => WindowIn(above, held) # w
    BY WindowsApart
  <2>4. ToSet(p) \subseteq Ids /\ ToSet(list) \subseteq Ids
    BY BelowFacts
  <2> QED
    BY <2>1, <2>2, <2>3, <2>4
<1>2. /\ ListOK(s) /\ ToSet(s) = ToSet(list) \ {w}
      /\ \A a, b : Below(s, a, b) <=> Below(list, a, b) /\ a # w /\ b # w
  BY UnhookedOrder
<1> HIDE DEF s
<1>3. /\ ListOK(Inserted(s, w, above, held))
      /\ ToSet(Inserted(s, w, above, held)) = ToSet(s) \cup {w}
      /\ \A a, b : a # w /\ b # w => (Below(Inserted(s, w, above, held), a, b) <=> Below(s, a, b))
      /\ Sits(Inserted(s, w, above, held), w, Target(above, held))
  BY <1>1, <1>2, InsertedView
<1>4. /\ ListOK(list2) /\ ToSet(list2) = ToSet(list)
      /\ \A a, b : a # w /\ b # w => (Below(list2, a, b) <=> Below(list, a, b))
      /\ Sits(list2, w, Target(above, held))
  <2>1. list2 = Inserted(s, w, above, held)
    BY DEF s
  <2> HIDE DEF Inserted
  <2> QED
    BY <1>1, <1>2, <1>3, <2>1
<1>5. /\ ListOK(q) /\ ToSet(q) = ToSet(p) /\ Sits(q, x, above)
      /\ \A a, b : a # x /\ b # x => (Below(q, a, b) <=> Below(p, a, b))
  BY MovedOrder
<1> HIDE DEF q
<1>6. Apart(q, held)
  BY <1>5 DEF Apart
<1>7. Shows(q, list2, held)
  BY <1>4, <1>5, <1>6, ShowsMoved
<1> QED
  BY <1>1, <1>4, <1>7 DEF q

LEMMA HandleConfigureKeepsPlan ==
  ASSUME StackInv, Told, Orderly, Planned, ~ raced', HandleConfigure
  PROVE  Planned'
<1> DEFINE x == Subject
           above == Head(events).above
           t == Tail(events)
           sw == serverWindows
           sw2 == serverWindows'
<1>1. /\ ~ raced /\ ToSet(windows') = ToSet(windows)
      /\ IF x \in Overrides THEN sw2 = Inserted(Unhooked(sw, x), x, above, framed) ELSE sw2 = sw
  BY ConfigurePlans
<1>2. /\ Reads("Configure") /\ events' = t /\ UNCHANGED <<root, framed, asked, born>>
  BY DEF HandleConfigure, serverVars
<1>3. /\ 1 \in DOMAIN events /\ events[1].type = "Configure" /\ events[1].win = x
      /\ Head(events) = events[1] /\ x \in Ids /\ events # << >> /\ events \in Seq(Event)
      /\ Head(events).type = "Configure" /\ Head(events).win = x
  BY <1>2, InvFacts, ReadsFirst DEF Reads
<1>4. /\ framed \in SUBSET Managed /\ ListOK(sw) /\ \A c \in framed : FrameOf[c] \notin ToSet(sw)
      /\ Announced /\ PutBack
  BY InvFacts DEF OthersOK, FramesApart, Listed, ListOK, Orderly
<1>5. /\ Heard(TRUE, events, root, sw, framed, asked, born)
      /\ Resting(events, sw) /\ ToSet(sw) = ToSet(windows)
  BY <1>1 DEF Planned
<1>6. PICK r : /\ Snapshots(TRUE, events, r, root, framed, asked, born)
               /\ Shows(r[0], sw, framed) /\ Explained(events, r[0], sw, framed)
  BY <1>5 DEF Heard
<1> DEFINE l == Later(r, events)
           p == r[0]
           p2 == r[1]
<1> HIDE DEF x, above, sw, sw2
<1>7. /\ Snapshots(TRUE, t, l, root, framed, asked, born)
      /\ Tells(TRUE, Head(events), p, p2) /\ l[0] = p2 /\ ListOK(p) /\ ListOK(p2)
  BY <1>3, <1>6, SnapshotsLater
<1> HIDE DEF l
<1>8. Apart(p2, framed) /\ Apart(p, framed)
  <2>1. Apart(l[0], framed)
    <3> HIDE DEF p, p2, t
    <3> QED
      BY <1>7, SnapshotsLast
  <2>2. Apart(p, framed)
    BY <1>6, SnapshotsLast
  <2> QED
    BY <1>7, <2>1, <2>2
<1>9. /\ EventsFollow(1) /\ News(1) = {}
  <2>1. 1 <= Len(events) /\ events' = Rest(1)
    BY <1>2, <1>3 DEF Rest
  <2> QED
    BY <1>3, <2>1, NoneMore
<1> HIDE DEF t, p, p2
<1>10. /\ Shows(p2, sw2, framed) /\ ToSet(sw2) = ToSet(sw)
       /\ \A y \in ToSet(sw) : y \notin ToSet(p2) => y \notin ToSet(p) \/ Ahead(t, 0, "Destroy", y)
       /\ x \in ToSet(p2) \/ x \notin Managed
       /\ \A b \in Managed : \A i \in DOMAIN events :
             i # 1 /\ events[i].type = "Configure" /\ events[i].win = b
             /\ Sits(sw, FrameOf[b], b) => Sits(sw2, FrameOf[b], b)
  <2>1. CASE x \in Managed
    <3> DEFINE f == FrameOf[x]
    <3>1. x \notin ToSet(p) /\ f \in ToSet(p) /\ p2 = ReplaceAll(p, f, x)
      BY <1>3, <1>7, <2>1 DEF Tells
    <3>2. x \notin framed /\ Ahead(events, 1, "Destroy", f)
      BY <1>3, <1>4, <2>1 DEF PutBack
    <3>3. Sits(sw, f, x)
      BY <1>3, <1>5, <2>1 DEF Resting
    <3>4. sw2 = sw
      <4>1. x \notin Overrides
        BY <2>1, IdsAssumption
      <4> QED
        BY <1>1, <4>1
    <3>5. Ahead(t, 0, "Destroy", f)
      <4>1. 0 \in 0 .. Len(events) - 1 /\ 0 + 1 = 1
        BY <1>3
      <4>2. Ahead(t, 0, "Destroy", f) <=> Ahead(events, 0 + 1, "Destroy", f)
        BY <1>3, <4>1, AheadOfTail DEF t
      <4> QED
        BY <3>2, <4>1, <4>2
    <3> HIDE DEF f
    <3>6. Shows(p, sw, framed)
      BY <1>6 DEF p
    <3>7. Shows(p2, sw, framed)
      BY <1>4, <1>7, <1>8, <2>1, <3>1, <3>2, <3>3, <3>6, ShowsPutBack DEF f
    <3>8. ToSet(p2) = (ToSet(p) \ {f}) \cup {x}
      BY <1>3, <1>7, <3>1, ReplacedOrder
    <3> QED
      BY <3>4, <3>5, <3>7, <3>8
  <2>2. CASE x \in Overrides
    <3>0. x \notin Managed /\ x \notin Frames /\ x \in Clients
      BY <2>2, IdsAssumption DEF Clients
    <3>1. /\ x \in ToSet(p) /\ above # x /\ (above = Nothing \/ above \in ToSet(p))
          /\ p2 = MovedAbove(p, x, above)
      BY <1>3, <1>7, <3>0 DEF Tells, above
    <3>2. sw2 = Inserted(Unhooked(sw, x), x, above, framed)
      BY <1>1, <2>2
    <3>3. x = WindowIn(x, framed)
      BY <1>4, <3>0, WindowIs
    <3>4. Shows(p, sw, framed)
      BY <1>6 DEF p
    <3>5. /\ Shows(MovedAbove(p, x, above), sw2, framed)
          /\ ListOK(sw2) /\ ToSet(sw2) = ToSet(sw) /\ x \in ToSet(sw)
          /\ \A a, b : a # x /\ b # x => (Below(sw2, a, b) <=> Below(sw, a, b))
          /\ Sits(sw2, x, Target(above, framed))
      BY <1>4, <1>7, <1>8, <3>1, <3>2, <3>3, <3>4, ShowsInserted
    <3>6. ToSet(p2) = ToSet(p)
      BY <1>7, <3>1, MovedOrder
    <3>7. ASSUME NEW b \in Managed, NEW i \in DOMAIN events,
                 events[i].type = "Configure", events[i].win = b, Sits(sw, FrameOf[b], b)
          PROVE  Sits(sw2, FrameOf[b], b)
      <4>1. b \notin ToSet(p) /\ b \notin framed
        BY <1>4, <1>6, <3>7, NotBackYet DEF p, PutBack
      <4>2. b # Nothing /\ x \notin {FrameOf[b], b}
        BY <2>2, <3>0, FrameIds, IdsAssumption
      <4>3. Target(above, framed) # b
        <5>1. CASE above = Nothing
          BY <4>2, <5>1 DEF Target
        <5>2. CASE above # Nothing /\ \E c \in framed : FrameOf[c] = above
          <6>1. PICK c \in framed : FrameOf[c] = above
            BY <5>2
          <6>2. WindowIn(above, framed) = c
            BY <1>4, <6>1, WindowIs
          <6> QED
            BY <4>1, <5>2, <6>2 DEF Target
        <5>3. CASE above # Nothing /\ \A c \in framed : FrameOf[c] # above
          <6>1. WindowIn(above, framed) = above
            BY <1>4, <5>3, WindowIs
          <6> QED
            BY <3>1, <4>1, <5>3, <6>1 DEF Target
        <5> QED
          BY <5>1, <5>2, <5>3
      <4>4. ToSet(sw2) = ToSet(sw) \cup {x}
        BY <3>5
      <4> QED
        BY <1>4, <3>5, <3>7, <4>2, <4>3, <4>4, SitsBeside
    <3>8. Shows(p2, sw2, framed)
      BY <3>1, <3>5
    <3> QED
      BY <3>0, <3>5, <3>6, <3>7, <3>8
  <2>3. CASE x \notin Managed /\ x \notin Overrides
    <3>1. x \in Frames
      BY <1>3, <2>3 DEF Ids, Clients
    <3>2. p2 = p
      BY <1>3, <1>7, <2>3, <3>1 DEF Tells
    <3>3. sw2 = sw /\ Shows(p, sw, framed)
      BY <1>1, <1>6, <2>3 DEF p
    <3> QED
      BY <2>3, <3>2, <3>3
  <2> QED
    BY <2>1, <2>2, <2>3
<1>11. Explained(t, p2, sw2, framed)
  <2> SUFFICES ASSUME NEW y \in ToSet(sw), y \notin ToSet(p2), y \notin framed
               PROVE  \/ Ahead(t, 0, "Destroy", y)
                      \/ y \in Managed /\ Ahead(t, 0, "Configure", y)
    BY <1>10 DEF Explained
  <2>1. CASE Ahead(t, 0, "Destroy", y)
    BY <2>1
  <2>2. CASE y \notin ToSet(p)
    <3>1. Ahead(events, 0, "Destroy", y) \/ (y \in Managed /\ Ahead(events, 0, "Configure", y))
      BY <1>6, <2>2 DEF Explained, p
    <3>2. y # x \/ y \notin Managed
      BY <1>10
    <3>3. /\ Ahead(events, 0, "Destroy", y) => Ahead(t, 0, "Destroy", y)
          /\ y # x /\ Ahead(events, 0, "Configure", y) => Ahead(t, 0, "Configure", y)
      BY <1>3, AheadOfTail DEF t
    <3> QED
      BY <3>1, <3>2, <3>3
  <2> QED
    BY <1>10, <2>1, <2>2
<1>12. Heard(TRUE, events', root', serverWindows', framed', asked', born')
  <2>1. Heard(TRUE, t, root, sw2, framed, asked, born)
    BY <1>7, <1>10, <1>11 DEF Heard
  <2> QED
    BY <1>2, <2>1 DEF sw2
<1>13. Resting(events', serverWindows')
  <2>1. \A b \in Managed : \A i \in DOMAIN events :
            /\ 1 = 1 => i # 1
            /\ events[i].type = "Configure" /\ events[i].win = b
            /\ Sits(serverWindows, FrameOf[b], b)
            => Sits(sw2, FrameOf[b], b)
    BY <1>10 DEF sw
  <2>2. Resting(events, serverWindows)
    BY <1>5 DEF sw
  <2>3. Resting(events', sw2)
    BY <1>3, <1>9, <2>1, <2>2, RestingStays
  <2> QED
    BY <2>3 DEF sw2
<1>14. ToSet(serverWindows') = ToSet(windows')
  BY <1>1, <1>5, <1>10 DEF sw2
<1> QED
  BY <1>12, <1>13, <1>14 DEF Planned

(* Events that tell the plan nothing but what is gone from it              *)
OnlyLosses(q) ==
    \A i \in DOMAIN q : /\ q[i].type # "Create"
                        /\ q[i].type = "Configure" => q[i].win \in Frames

(* Before a request that is not computed on a stale order, what is still   *)
(* to be read only takes windows out of the server's order.                *)
LEMMA OnlyLost ==
  ASSUME NEW q, OnlyLosses(q), NEW r, NEW rt, NEW held, NEW as, NEW bn,
         Snapshots(TRUE, q, r, rt, held, as, bn)
  PROVE  /\ ToSet(rt) \subseteq ToSet(r[0])
         /\ \A a, b : Below(rt, a, b) => Below(r[0], a, b)
         /\ \A w \in ToSet(r[0]) : w \in ToSet(rt) \/ Ahead(q, 0, "Destroy", w)
<1>1. /\ q \in Seq(Event) /\ DOMAIN q = 1 .. Len(q) /\ Len(q) \in Nat /\ r[Len(q)] = rt
      /\ \A n \in 0 .. Len(q) : ListOK(r[n])
      /\ \A n \in 1 .. Len(q) : Tells(TRUE, q[n], r[n - 1], r[n])
  <2>1. q \in Seq(Event) /\ Telling(TRUE, q, r, rt)
    BY DEF Snapshots
  <2>2. DOMAIN q = 1 .. Len(q) /\ Len(q) \in Nat
    BY <2>1
  <2> QED
    BY <2>1, <2>2 DEF Telling
<1> DEFINE Lost(n) == /\ ToSet(r[n]) \subseteq ToSet(r[0])
                      /\ \A a, b : Below(r[n], a, b) => Below(r[0], a, b)
                      /\ \A w \in ToSet(r[0]) : w \in ToSet(r[n]) \/ Ahead(q, 0, "Destroy", w)
           J == {n \in 0 .. Len(q) : Lost(n)}
<1>2. 0 \in J
  BY <1>1
<1>3. ASSUME NEW n \in 1 .. Len(q), n - 1 \in J
      PROVE  n \in J
  <2> DEFINE e == q[n]
             p == r[n - 1]
             p2 == r[n]
  <2>1. /\ n - 1 \in 0 .. Len(q) /\ n \in 0 .. Len(q) /\ n \in DOMAIN q /\ 0 < n
    BY <1>1
  <2>2. ListOK(p) /\ ListOK(p2) /\ Tells(TRUE, e, p, p2) /\ Lost(n - 1)
    BY <1>1, <1>3, <2>1
  <2>3. e \in Event /\ e.type # "Create" /\ (e.type = "Configure" => e.win \in Frames)
    BY <1>1, <2>1 DEF OnlyLosses
  <2>4. p2 = p \/ (e.type = "Destroy" /\ p2 = Unhooked(p, e.win))
    <3> HIDE DEF e, p, p2
    <3>1. e.win \in Ids /\ e.type \in {"MapRequest", "Unmap", "Destroy", "Configure"}
      BY <2>3, EventFields
    <3>2. e.win \in Frames => e.win \notin Managed
      BY IdsAssumption DEF Clients
    <3>3. CASE e.type = "Configure"
      BY <2>2, <2>3, <3>2, <3>3 DEF Tells
    <3>4. CASE e.type # "Configure"
      BY <2>2, <3>1, <3>4 DEF Tells
    <3> QED
      BY <3>3, <3>4
  <2>5. CASE p2 = p
    <3>1. Lost(n)
      BY <2>2, <2>5
    <3> QED
      BY <2>1, <3>1
  <2>6. CASE e.type = "Destroy" /\ p2 = Unhooked(p, e.win)
    <3>1. /\ ToSet(p2) = ToSet(p) \ {e.win}
          /\ \A a, b : Below(p2, a, b) => Below(p, a, b)
      <4> HIDE DEF p, e, Lost
      <4> QED
        BY <2>2, <2>6, UnhookedOrder
    <3>2. Ahead(q, 0, "Destroy", e.win)
      BY <2>1, <2>6 DEF Ahead
    <3>3. /\ ToSet(p) \subseteq ToSet(r[0])
          /\ \A a, b : Below(p, a, b) => Below(r[0], a, b)
          /\ \A w \in ToSet(r[0]) : w \in ToSet(p) \/ Ahead(q, 0, "Destroy", w)
      BY <2>2
    <3> HIDE DEF p, e, p2
    <3>4. /\ ToSet(p2) \subseteq ToSet(r[0])
          /\ \A a, b : Below(p2, a, b) => Below(r[0], a, b)
          /\ \A w \in ToSet(r[0]) : w \in ToSet(p2) \/ Ahead(q, 0, "Destroy", w)
      BY <3>1, <3>2, <3>3
    <3>5. Lost(n)
      BY <3>4 DEF p2
    <3> QED
      BY <2>1, <3>5
  <2> QED
    BY <2>4, <2>5, <2>6
<1>4. \A n \in 0 .. Len(q) : n \in J
  <2> HIDE DEF J
  <2> QED
    BY <1>1, <1>2, <1>3, CountingUp
<1>5. Lost(Len(q))
  <2>1. Len(q) \in J
    BY <1>1, <1>4
  <2> HIDE DEF Lost
  <2> QED
    BY <2>1
<1> QED
  BY <1>1, <1>5

(* A queue that takes nothing out of the order leaves it as it is.         *)
LEMMA NothingMoreLost ==
  ASSUME NEW q \in Seq(Event), OnlyLosses(q), NEW rt, ListOK(rt),
         \A i \in DOMAIN q : q[i].type = "Destroy" => q[i].win \notin ToSet(rt),
         NEW held \in SUBSET Managed, NEW as, NEW bn,
         \A c \in held : FrameOf[c] \in ToSet(rt) /\ c \notin ToSet(rt),
         \A c \in Managed : FrameOf[c] \in ToSet(rt) => ~ Waiting(q, as, c),
         ToSet(rt) \cap Clients \subseteq bn
  PROVE  LET r == [i \in 0 .. Len(q) |-> rt]
         IN  r[0] = rt /\ Snapshots(TRUE, q, r, rt, held, as, bn)
<1> DEFINE r == [i \in 0 .. Len(q) |-> rt]
<1>1. /\ Len(q) \in Nat /\ DOMAIN q = 1 .. Len(q) /\ 0 \in 0 .. Len(q) /\ Len(q) \in 0 .. Len(q)
      /\ \A i \in 0 .. Len(q) : r[i] = rt
      /\ \A i \in 1 .. Len(q) : i - 1 \in 0 .. Len(q) /\ i \in 0 .. Len(q) /\ i \in DOMAIN q
  OBVIOUS
<1> HIDE DEF r
<1>2. ASSUME NEW i \in DOMAIN q
      PROVE  Tells(TRUE, q[i], rt, rt)
  <2> DEFINE e == q[i]
  <2>1. /\ e \in Event /\ e.type # "Create" /\ (e.type = "Configure" => e.win \in Frames)
        /\ e.type = "Destroy" => e.win \notin ToSet(rt)
    BY DEF OnlyLosses
  <2> HIDE DEF e
  <2>2. e.win \in Frames => e.win \notin Managed
    BY IdsAssumption DEF Clients
  <2>3. e.type = "Destroy" => Unhooked(rt, e.win) = rt
    BY <2>1, NotThere
  <2>4. Tells(TRUE, e, rt, rt)
    BY <2>1, <2>2, <2>3 DEF Tells
  <2> QED
    BY <2>4 DEF e
<1>3. Telling(TRUE, q, r, rt)
  BY <1>1, <1>2 DEF Telling
<1>4. FramesSeen(q, r, held)
  <2>1. \A i, c : ~ Ahead(q, i, "Create", FrameOf[c])
    BY DEF Ahead, OnlyLosses
  <2> QED
    BY <1>1, <2>1 DEF FramesSeen
<1>5. ClientsSeen(q, r, as, rt) /\ NotYet(q, r, as, bn)
  BY <1>1 DEF ClientsSeen, NotYet
<1> QED
  BY <1>1, <1>3, <1>4, <1>5 DEF Snapshots, r

LEMMA RequestKeepsPlan ==
  ASSUME StackInv, Told, Gone, Planned, ~ raced', NEW c \in framed, NEW sibling,
         sibling # FrameOf[c], sibling = Nothing \/ sibling \in ToSet(root), Request(c, sibling)
  PROVE  Planned'
<1> DEFINE f == FrameOf[c]
           e == Configure(root', f, serial')
           sw == serverWindows
           sw2 == serverWindows'
           q == events'
<1>1. /\ serial < MaxRequests /\ serial' = serial + 1
      /\ root' = MovedAbove(root, f, sibling)
      /\ q = events \/ q = Append(events, e)
      /\ sw2 = Inserted(Unhooked(sw, c), c, sibling, framed)
      /\ UNCHANGED <<windows, framed, asked, born>>
      /\ ~ raced /\ ~ Stale
  BY DEF Request
<1>2. /\ ListOK(root) /\ f \in ToSet(root) /\ c \in Managed /\ framed \in SUBSET Managed
      /\ \A d \in framed : FrameOf[d] \in ToSet(root) /\ d \notin ToSet(root)
      /\ \A d \in Managed : FrameOf[d] \in ToSet(root) => ~ Waiting(events, asked, d)
      /\ ToSet(root) \cap Clients \subseteq born /\ events \in Seq(Event)
  BY HeardFacts DEF Told
<1>3. /\ ListOK(sw) /\ \A d \in framed : FrameOf[d] \notin ToSet(sw)
  BY InvFacts DEF FramesApart, Listed, ListOK
<1>4. PICK r : /\ Snapshots(TRUE, events, r, root, framed, asked, born)
               /\ Shows(r[0], sw, framed) /\ Explained(events, r[0], sw, framed)
  BY <1>1 DEF Planned, Heard
<1>5. OnlyLosses(events)
  BY <1>1 DEF Stale, OnlyLosses
<1>6. /\ ToSet(root) \subseteq ToSet(r[0])
      /\ \A a, b : Below(root, a, b) => Below(r[0], a, b)
      /\ \A w \in ToSet(r[0]) : w \in ToSet(root) \/ Ahead(events, 0, "Destroy", w)
  BY <1>4, <1>5, OnlyLost
<1>7. Shows(root, sw, framed)
  BY <1>4, <1>6 DEF Shows
<1>8. Apart(root, framed) /\ c = WindowIn(f, framed)
  BY <1>2, WindowIs DEF Apart
<1> HIDE DEF f, sw, sw2
<1>9. /\ Shows(MovedAbove(root, f, sibling), sw2, framed)
      /\ ListOK(sw2) /\ ToSet(sw2) = ToSet(sw)
  <2>1. /\ sibling # f /\ (sibling = Nothing \/ sibling \in ToSet(root))
        /\ framed \in SUBSET Managed /\ ListOK(root) /\ ListOK(sw) /\ Shows(root, sw, framed)
        /\ Apart(root, framed) /\ \A d \in framed : FrameOf[d] \notin ToSet(sw)
        /\ f \in ToSet(root) /\ c = WindowIn(f, framed)
    BY <1>2, <1>3, <1>7, <1>8 DEF f
  <2>2. sw2 = Inserted(Unhooked(sw, c), c, sibling, framed)
    BY <1>1
  <2> QED
    BY <2>1, <2>2, ShowsInserted
<1>10. ListOK(root') /\ ToSet(root') = ToSet(root)
  <2>1. sibling # f
    BY DEF f
  <2> QED
    BY <1>1, <1>2, <2>1, MovedOrder
<1>11. e \in Event /\ e.type = "Configure" /\ e.win = f /\ f \in Frames
  <2>1. root' \in Seq(Ids) /\ Distinct(root') /\ f \in ToSet(root')
    BY <1>2, <1>10 DEF ListOK
  <2>2. serial' \in 0 .. MaxRequests
    BY <1>1, InvFacts, IdsAssumption DEF OthersOK
  <2> QED
    BY <1>2, <2>1, <2>2, ConfigureShape, FrameIds DEF f
<1> HIDE DEF e, q
<1>12. /\ q \in Seq(Event)
       /\ \A i \in DOMAIN q : (i \in DOMAIN events /\ q[i] = events[i]) \/ q[i] = e
       /\ \A type, w : Ahead(events, 0, type, w) => Ahead(q, 0, type, w)
       /\ \A d : Waiting(q, asked, d) <=> Waiting(events, asked, d)
  <2>1. CASE q = events
    BY <1>2, <2>1
  <2>2. CASE q = Append(events, e)
    <3>1. /\ q \in Seq(Event) /\ Len(q) = Len(events) + 1 /\ Len(events) \in Nat
          /\ q[Len(events) + 1] = e /\ \A i \in 1 .. Len(events) : q[i] = events[i]
          /\ \A type, w : \A i \in 0 .. Len(events) :
               Ahead(q, i, type, w) <=> Ahead(events, i, type, w) \/ (e.type = type /\ e.win = w)
      BY <1>2, <1>11, <2>2, AheadOfMore
    <3>2. \A i \in DOMAIN q : (i \in DOMAIN events /\ q[i] = events[i]) \/ q[i] = e
      <4>1. DOMAIN q = 1 .. Len(events) + 1 /\ DOMAIN events = 1 .. Len(events)
        BY <1>2, <3>1
      <4> QED
        BY <3>1, <4>1
    <3>3. \A d : Waiting(q, asked, d) <=> Waiting(events, asked, d)
      <4>1. e.type # "MapRequest"
        BY <1>11
      <4> QED
        BY <1>2, <1>11, <2>2, <4>1, WaitingSame
    <3>4. \A type, w : Ahead(events, 0, type, w) => Ahead(q, 0, type, w)
      BY <3>1
    <3> QED
      BY <3>1, <3>2, <3>3, <3>4
  <2> QED
    BY <1>1, <2>1, <2>2
<1>13. /\ OnlyLosses(q)
       /\ \A i \in DOMAIN q : q[i].type = "Destroy" => q[i].win \notin ToSet(root')
  <2>1. \A i \in DOMAIN events : events[i].type = "Destroy" => events[i].win \notin ToSet(root)
    BY DEF Gone, Ended
  <2>2. \A i \in DOMAIN q : /\ q[i].type # "Create"
                            /\ q[i].type = "Configure" => q[i].win \in Frames
    BY <1>5, <1>11, <1>12 DEF OnlyLosses
  <2>3. \A i \in DOMAIN q : q[i].type = "Destroy" => q[i].win \notin ToSet(root')
    BY <1>10, <1>11, <1>12, <2>1
  <2> QED
    BY <2>2, <2>3 DEF OnlyLosses
<1> DEFINE r2 == [i \in 0 .. Len(q) |-> root']
<1>14. r2[0] = root' /\ Snapshots(TRUE, q, r2, root', framed, asked, born)
  <2>1. /\ \A d \in framed : FrameOf[d] \in ToSet(root') /\ d \notin ToSet(root')
        /\ \A d \in Managed : FrameOf[d] \in ToSet(root') => ~ Waiting(q, asked, d)
        /\ ToSet(root') \cap Clients \subseteq born
    BY <1>2, <1>10, <1>12
  <2> QED
    BY <1>2, <1>10, <1>12, <1>13, <2>1, NothingMoreLost
<1> HIDE DEF r2
<1>15. Shows(root', sw2, framed)
  BY <1>1, <1>9
<1>16. Explained(q, root', sw2, framed)
  <2> SUFFICES ASSUME NEW y \in ToSet(sw), y \notin ToSet(root), y \notin framed
               PROVE  \/ Ahead(q, 0, "Destroy", y)
                      \/ y \in Managed /\ Ahead(q, 0, "Configure", y)
    BY <1>9, <1>10 DEF Explained
  <2>1. \/ Ahead(events, 0, "Destroy", y)
        \/ y \in Managed /\ Ahead(events, 0, "Configure", y)
    BY <1>4, <1>6 DEF Explained
  <2> QED
    BY <1>12, <2>1
<1>17. Heard(TRUE, events', root', serverWindows', framed', asked', born')
  <2>1. Heard(TRUE, q, root', sw2, framed, asked, born)
    BY <1>14, <1>15, <1>16 DEF Heard
  <2> QED
    BY <1>1, <2>1 DEF q, sw2
<1>18. Resting(events', serverWindows')
  <2>1. \A i \in DOMAIN q : q[i].type = "Configure" => q[i].win \notin Managed
    BY <1>13, IdsAssumption DEF OnlyLosses, Clients
  <2> QED
    BY <2>1 DEF Resting, q
<1>19. ToSet(serverWindows') = ToSet(windows')
  BY <1>1, <1>9 DEF Planned, sw, sw2
<1> QED
  BY <1>17, <1>18, <1>19 DEF Planned

LEMMA PlanStarts == StackInit => PlanInv
<1> SUFFICES ASSUME StackInit
             PROVE  PlanInv
  OBVIOUS
<1>1. ToldInv
  BY ToldStarts
<1>2. /\ root = << >> /\ windows = << >> /\ serverWindows = << >> /\ framed = {}
      /\ asked = {} /\ born = {} /\ events = << >> /\ DOMAIN events = {}
  BY DEF StackInit
<1>3. Gone
  BY <1>2 DEF Gone, Ended, PutBackBefore
<1>4. Planned
  <2>1. events \in Seq(Event) /\ OnlyLosses(events)
    BY <1>2 DEF OnlyLosses
  <2>2. ToSet(root) = {} /\ ListOK(root) /\ ToSet(serverWindows) = {}
    BY <1>2 DEF ToSet, ListOK, Distinct
  <2> DEFINE r == [i \in 0 .. Len(events) |-> root]
  <2>3. r[0] = root /\ Snapshots(TRUE, events, r, root, framed, asked, born)
    <3>1. /\ \A i \in DOMAIN events : events[i].type = "Destroy" => events[i].win \notin ToSet(root)
          /\ framed \in SUBSET Managed
          /\ \A c \in framed : FrameOf[c] \in ToSet(root) /\ c \notin ToSet(root)
          /\ \A c \in Managed : FrameOf[c] \in ToSet(root) => ~ Waiting(events, asked, c)
          /\ ToSet(root) \cap Clients \subseteq born
      BY <1>2, <2>2
    <3> QED
      BY <2>1, <2>2, <3>1, NothingMoreLost
  <2> HIDE DEF r
  <2>4. Shows(r[0], serverWindows, framed) /\ Explained(events, r[0], serverWindows, framed)
    BY <2>2, <2>3 DEF Shows, Explained
  <2>5. Heard(TRUE, events, root, serverWindows, framed, asked, born)
    BY <2>3, <2>4 DEF Heard
  <2>6. Resting(events, serverWindows) /\ ToSet(serverWindows) = ToSet(windows)
    BY <1>2 DEF Resting
  <2> QED
    BY <2>5, <2>6 DEF Planned
<1> QED
  BY <1>1, <1>3, <1>4 DEF PlanInv

LEMMA PlanGoesOn ==
  ASSUME PlanInv, [StackNext]_stackVars
  PROVE  PlanInv'
<1>1. /\ ToldInv /\ StackInv /\ Told /\ Orderly /\ Announced /\ Gone /\ Planned
  BY DEF PlanInv, ToldInv, Orderly
<1>2. ToldInv'
  BY <1>1, ToldGoesOn
<1>3. raced' => Planned'
  BY DEF Planned
<1>4. ASSUME UNCHANGED <<root, windows, serverWindows, framed, asked, born, events, raced>>
      PROVE  Gone' /\ Planned'
  <2>1. Gone'
    BY <1>1, <1>4 DEF Gone, Ended, PutBackBefore
  <2>2. Planned'
    BY <1>1, <1>4 DEF Planned, Resting
  <2> QED
    BY <2>1, <2>2
<1>5. Gone' /\ Planned'
  <2>1. ASSUME NEW c \in Clients, ClientCreates(c) \/ ClientMaps(c) \/ ClientUnmaps(c)
        PROVE  Gone' /\ Planned'
    BY <1>1, <1>3, <2>1, ClientsStayGone, ClientsKeepPlan
  <2>2. ASSUME NEW c \in Clients, ClientDestroys(c)
        PROVE  Gone' /\ Planned'
    BY <1>1, <1>3, <2>2, ClientDestroysStaysGone, ClientDestroysKeepsPlan
  <2>3. ASSUME NEW o \in Overrides, NEW a \in Ids \cup {Nothing}, OverrideMoves(o, a)
        PROVE  Gone' /\ Planned'
    BY <1>1, <1>3, <2>3, OverrideMovesStaysGone, OverrideMovesKeepsPlan
  <2>4. ASSUME NEW c \in Managed, Lower(c)
        PROVE  Gone' /\ Planned'
    <3>1. c \in framed /\ Request(c, Nothing)
      BY <2>4 DEF Lower, CanRestack
    <3>2. Nothing # FrameOf[c]
      BY FrameIds
    <3> QED
      BY <1>1, <1>3, <3>1, <3>2, RequestStaysGone, RequestKeepsPlan
  <2>5. ASSUME NEW c \in Managed, NEW s \in Managed, RestackAbove(c, s)
        PROVE  Gone' /\ Planned'
    <3>1. c \in framed /\ s \in framed /\ c # s /\ Request(c, FrameOf[s])
      BY <2>5 DEF RestackAbove, CanRestack, RootParent
    <3>2. FrameOf[s] # FrameOf[c]
      BY <3>1, FrameIds
    <3>3. FrameOf[s] \in ToSet(root)
      BY <1>1, <3>1, InvFacts DEF FramesStand
    <3> QED
      BY <1>1, <1>3, <3>1, <3>2, <3>3, RequestStaysGone, RequestKeepsPlan
  <2>6. ASSUME NEW c \in Managed, PluginUnmaps(c)
        PROVE  Gone' /\ Planned'
    BY <1>1, <1>3, <2>6, PluginUnmapsStaysGone, PluginUnmapsKeepsPlan
  <2>7. CASE HandleCreate
    <3>1. events # << >> /\ events' = Tail(events) /\ root' = root
      BY <2>7 DEF HandleCreate, Reads, serverVars
    <3> QED
      BY <1>1, <1>3, <2>7, <3>1, ReadsGone, HandleCreateKeepsPlan
  <2>8. CASE HandleMapRequest
    BY <1>1, <1>3, <2>8, HandleMapRequestStaysGone, HandleMapRequestKeepsPlan
  <2>9. ASSUME NEW held \in BOOLEAN, HandleUnmap(held)
        PROVE  Gone' /\ Planned'
    BY <1>1, <1>3, <2>9, HandleUnmapStaysGone, HandleUnmapKeepsPlan
  <2>10. ASSUME NEW keep \in BOOLEAN, HandleDestroy(keep)
         PROVE  Gone' /\ Planned'
    <3>1. events # << >> /\ events' = Tail(events) /\ root' = root
      BY <2>10 DEF HandleDestroy, Reads, serverVars
    <3> QED
      BY <1>1, <1>3, <2>10, <3>1, ReadsGone, HandleDestroyKeepsPlan
  <2>11. CASE HandleConfigure
    <3>1. events # << >> /\ events' = Tail(events) /\ root' = root
      BY <2>11 DEF HandleConfigure, Reads, serverVars
    <3> QED
      BY <1>1, <1>3, <2>11, <3>1, ReadsGone, HandleConfigureKeepsPlan
  <2>12. ASSUME NEW i \in DOMAIN kept, PluginReleases(i)
         PROVE  Gone' /\ Planned'
    BY <1>4, <2>12 DEF PluginReleases, serverVars, listVars
  <2>13. CASE RemoveDestroyed
    BY <1>4, <2>13 DEF RemoveDestroyed, serverVars, listVars
  <2>14. CASE UNCHANGED stackVars
    BY <1>4, <2>14 DEF stackVars, serverVars, listVars
  <2> QED
    BY <2>1, <2>2, <2>3, <2>4, <2>5, <2>6, <2>7, <2>8, <2>9, <2>10, <2>11, <2>12, <2>13, <2>14
       DEF StackNext
<1> QED
  BY <1>2, <1>5 DEF PlanInv

(* With no event left to read, the order compiz plans its next requests    *)
(* with (serverWindows) is the server's, provided no request was computed  *)
(* while a CreateNotify or a client's restack waited: requests that are    *)
(* obeyed at once, frames that come and go and windows that died before    *)
(* they were heard of do it no harm (addWindowStackChanges, restack).      *)
THEOREM PlanStaysAgreed == StackSpec => []PlanAgrees
<1>1. PlanInv /\ [StackNext]_stackVars => PlanInv'
  BY PlanGoesOn
<1>2. PlanInv => PlanAgrees
  <2> SUFFICES ASSUME PlanInv, events = << >>, ~ raced
               PROVE  AsOnServer(serverWindows) = root
    BY DEF PlanAgrees, Calm
  <2>1. StackInv /\ Heard(TRUE, events, root, serverWindows, framed, asked, born)
    BY DEF PlanInv, ToldInv, Planned
  <2>2. ListOK(serverWindows) /\ ToSet(serverWindows) \subseteq Listed
    BY <2>1, InvFacts DEF ListOK, Listed
  <2> QED
    BY <2>1, <2>2, CalmAgrees
<1> QED
  BY PlanStarts, <1>1, <1>2, PTL DEF StackSpec
=============================================================================
