--------------------------- MODULE WindowMapProofs ---------------------------
(***************************************************************************)
(* Theorems about WindowMap for any bounds and desktops.                   *)
(*                                                                         *)
(* The events under way tell a story: they start from what compiz has      *)
(* heard, each says the opposite of the one before, and the last one says  *)
(* what the server has.  Everything that is known of the window once all   *)
(* is heard follows from that and from the count of the unmap references.  *)
(***************************************************************************)
EXTENDS WindowMap, SequenceTheorems, TLAPS

Known == [win : Windows, server : Servers, kept : 0 .. MaxKept]

(* compiz takes the client window for mapped.                              *)
Heard(s) == s.win.viewable /\ s.kept = 0

Told == {"MapNotify", "UnmapNotify"}

(* No event between places i and j tells of the client window.             *)
Silent(q, i, j) == \A k \in DOMAIN q : i < k /\ k < j => q[k] \notin Told

(* Each event that tells of the client window says the opposite of the one *)
(* before it; the first says the opposite of what was heard, and the last  *)
(* what the server has.                                                    *)
Alternates(q) ==
    \A i, j \in DOMAIN q :
        i < j /\ q[i] \in Told /\ q[j] \in Told /\ Silent(q, i, j) => q[i] # q[j]

FirstIsNews(q, heard) ==
    \A i \in DOMAIN q :
        q[i] \in Told /\ Silent(q, 0, i) => (q[i] = "MapNotify" <=> ~ heard)

LastIsTrue(q, client) ==
    /\ client \in BOOLEAN
    /\ \A i \in DOMAIN q :
          q[i] \in Told /\ Silent(q, i, Len(q) + 1) => (q[i] = "MapNotify" <=> client)

(* A synthetic UnmapNotify comes while the window is unmapped.             *)
WithdrawnUnmapped(q, heard) ==
    \A j \in DOMAIN q : q[j] = "SyntheticUnmap" =>
        /\ \A i \in DOMAIN q :
              i < j /\ q[i] \in Told /\ Silent(q, i, j) => q[i] = "UnmapNotify"
        /\ Silent(q, 0, j) => ~ heard

Story(q, heard, client) ==
    /\ Alternates(q)
    /\ FirstIsNews(q, heard)
    /\ LastIsTrue(q, client)
    /\ Silent(q, 0, Len(q) + 1) => (heard <=> client)
    /\ WithdrawnUnmapped(q, heard)

(* One reference is the window's own, as long as it is not unmapped; the   *)
(* others are the plugins'.                                                *)
RefsCounted(s) ==
    /\ Heard(s) => s.win.unmapRefCnt = 1
    /\ s.kept > 0 => s.win.viewable /\ s.win.unmapRefCnt = s.kept

View(s) ==
    /\ RefsCounted(s)
    /\ Heard(s) <=> s.win.wmState = "Normal"
    /\ Story(s.server.events, Heard(s), s.server.client)

MapInv == TypeOK /\ View(Now)

-----------------------------------------------------------------------------
(* What an event added or read does to the story                           *)

LEMMA StoryOfNothing ==
  ASSUME NEW heard \in BOOLEAN, NEW client \in BOOLEAN
  PROVE  /\ Story(<<>>, heard, client) => (heard <=> client)
         /\ (heard <=> client) => Story(<<>>, heard, client)
BY DEF Story, Alternates, FirstIsNews, LastIsTrue, Silent, WithdrawnUnmapped

LEMMA StoryGoesOn ==
  ASSUME NEW q \in Seq(Events), NEW heard \in BOOLEAN, NEW client \in BOOLEAN,
         NEW e \in Events, Story(q, heard, client)
  PROVE  LET r == Append(q, e)
         IN  /\ e = "MapRequest" => Story(r, heard, client)
             /\ e = "SyntheticUnmap" /\ ~ client => Story(r, heard, client)
             /\ e = "MapNotify" /\ ~ client => Story(r, heard, TRUE)
             /\ e = "UnmapNotify" /\ client => Story(r, heard, FALSE)
<1> DEFINE r == Append(q, e)
           n == Len(q)
<1>1. /\ n \in Nat /\ Len(r) = n + 1 /\ DOMAIN q = 1 .. n /\ DOMAIN r = 1 .. (n + 1)
      /\ r[n + 1] = e /\ \A i \in 1 .. n : r[i] = q[i] /\ i \in Nat
  OBVIOUS
<1> HIDE DEF r, n
<1>2. \A i \in 0 .. n, j \in 1 .. (n + 1) : Silent(r, i, j) <=> Silent(q, i, j)
  <2> TAKE i \in 0 .. n, j \in 1 .. (n + 1)
  <2> QED
    BY <1>1 DEF Silent
<1>3. \A i \in 0 .. n : Silent(r, i, n + 2) <=> Silent(q, i, n + 1) /\ e \notin Told
  <2> TAKE i \in 0 .. n
  <2> QED
    BY <1>1 DEF Silent
<1>4. Silent(r, n + 1, n + 2)
  BY <1>1 DEF Silent
<1>5. /\ Alternates(q) /\ FirstIsNews(q, heard) /\ LastIsTrue(q, client)
      /\ Silent(q, 0, n + 1) => (heard <=> client)
      /\ WithdrawnUnmapped(q, heard)
  BY DEF Story, n
<1>6. ASSUME e \in Told => (e = "MapNotify" <=> ~ client)
      PROVE  Alternates(r) /\ FirstIsNews(r, heard)
  <2>1. ASSUME NEW i \in DOMAIN r, NEW j \in DOMAIN r,
               i < j, r[i] \in Told, r[j] \in Told, Silent(r, i, j)
        PROVE  r[i] # r[j]
    <3>1. i \in 1 .. n /\ i \in 0 .. n /\ r[i] = q[i] /\ Silent(q, i, j)
      BY <1>1, <1>2, <2>1
    <3>2. CASE j = n + 1
      BY <1>1, <1>5, <1>6, <2>1, <3>1, <3>2 DEF LastIsTrue, n, Told
    <3>3. CASE j \in 1 .. n
      BY <1>1, <1>5, <2>1, <3>1, <3>3 DEF Alternates
    <3> QED
      BY <1>1, <3>2, <3>3
  <2>2. ASSUME NEW i \in DOMAIN r, r[i] \in Told, Silent(r, 0, i)
        PROVE  r[i] = "MapNotify" <=> ~ heard
    <3>1. i \in 1 .. (n + 1) /\ 0 \in 0 .. n /\ Silent(q, 0, i)
      BY <1>1, <1>2, <2>2
    <3>2. CASE i = n + 1
      BY <1>1, <1>5, <1>6, <2>2, <3>1, <3>2
    <3>3. CASE i \in 1 .. n
      BY <1>1, <1>5, <2>2, <3>1, <3>3 DEF FirstIsNews
    <3> QED
      BY <1>1, <3>1, <3>2, <3>3
  <2> QED
    BY <2>1, <2>2 DEF Alternates, FirstIsNews
<1>7. ASSUME NEW after \in BOOLEAN,
             IF e \in Told THEN after <=> e = "MapNotify" ELSE after <=> client
      PROVE  /\ LastIsTrue(r, after)
             /\ Silent(r, 0, Len(r) + 1) => (heard <=> after)
  <2>1. ASSUME NEW i \in DOMAIN r, r[i] \in Told, Silent(r, i, Len(r) + 1)
        PROVE  r[i] = "MapNotify" <=> after
    <3>1. CASE i = n + 1
      BY <1>1, <1>7, <2>1, <3>1
    <3>2. CASE i \in 1 .. n
      <4>1. i \in 0 .. n /\ Len(r) + 1 = n + 2
        BY <1>1, <3>2
      <4>2. Silent(q, i, n + 1) /\ e \notin Told
        BY <1>3, <2>1, <4>1
      <4> QED
        BY <1>1, <1>5, <1>7, <2>1, <3>2, <4>2 DEF LastIsTrue, n
    <3> QED
      BY <1>1, <3>1, <3>2
  <2>2. ASSUME Silent(r, 0, Len(r) + 1) PROVE heard <=> after
    <3>1. 0 \in 0 .. n /\ Len(r) + 1 = n + 2
      BY <1>1
    <3>2. Silent(q, 0, n + 1) /\ e \notin Told
      BY <1>3, <2>2, <3>1
    <3> QED
      BY <1>5, <1>7, <3>2
  <2> QED
    BY <2>1, <2>2 DEF LastIsTrue
<1>8. ASSUME e = "SyntheticUnmap" => ~ client
      PROVE  WithdrawnUnmapped(r, heard)
  <2>1. SUFFICES ASSUME NEW j \in DOMAIN r, r[j] = "SyntheticUnmap"
                 PROVE  /\ \A i \in DOMAIN r : i < j /\ r[i] \in Told /\ Silent(r, i, j)
                              => r[i] = "UnmapNotify"
                        /\ Silent(r, 0, j) => ~ heard
    BY DEF WithdrawnUnmapped
  <2>2. j \in 1 .. (n + 1) /\ 0 \in 0 .. n
    BY <1>1
  <2>3. CASE j = n + 1
    <3>1. ASSUME NEW i \in DOMAIN r, i < j, r[i] \in Told, Silent(r, i, j)
          PROVE  r[i] = "UnmapNotify"
      <4>1. i \in 1 .. n /\ i \in 0 .. n /\ Silent(q, i, n + 1) /\ q[i] \in Told
        BY <1>1, <1>2, <2>2, <2>3, <3>1
      <4> QED
        BY <1>1, <1>5, <1>8, <2>1, <2>3, <4>1 DEF LastIsTrue, n, Told
    <3>2. Silent(r, 0, j) => ~ heard
      BY <1>1, <1>2, <1>5, <1>8, <2>1, <2>2, <2>3
    <3> QED
      BY <3>1, <3>2
  <2>4. CASE j \in 1 .. n
    <3>1. q[j] = "SyntheticUnmap"
      BY <1>1, <2>1, <2>4
    <3>2. ASSUME NEW i \in DOMAIN r, i < j, r[i] \in Told, Silent(r, i, j)
          PROVE  r[i] = "UnmapNotify"
      <4>1. i \in 1 .. n /\ i \in 0 .. n /\ Silent(q, i, j) /\ q[i] \in Told
        BY <1>1, <1>2, <2>2, <2>4, <3>2
      <4> QED
        BY <1>1, <1>5, <2>4, <3>1, <3>2, <4>1 DEF WithdrawnUnmapped
    <3>3. Silent(r, 0, j) => ~ heard
      BY <1>1, <1>2, <1>5, <2>2, <2>4, <3>1 DEF WithdrawnUnmapped
    <3> QED
      BY <3>2, <3>3
  <2> QED
    BY <1>1, <2>2, <2>3, <2>4
<1>9. CASE e = "MapRequest"
  BY <1>6, <1>7, <1>8, <1>9 DEF Story, Told, r
<1>10. CASE e = "SyntheticUnmap"
  BY <1>6, <1>7, <1>8, <1>10 DEF Story, Told, r
<1>11. CASE e = "MapNotify"
  BY <1>6, <1>7, <1>8, <1>11 DEF Story, Told, r
<1>12. CASE e = "UnmapNotify"
  BY <1>6, <1>7, <1>8, <1>12 DEF Story, Told, r
<1> QED
  BY <1>9, <1>10, <1>11, <1>12 DEF Events, r

LEMMA StoryIsRead ==
  ASSUME NEW q \in Seq(Events), NEW heard \in BOOLEAN, NEW client \in BOOLEAN,
         q # <<>>, Story(q, heard, client)
  PROVE  /\ Head(q) = "MapNotify" => ~ heard /\ Story(Tail(q), TRUE, client)
         /\ Head(q) = "UnmapNotify" => heard /\ Story(Tail(q), FALSE, client)
         /\ Head(q) = "SyntheticUnmap" => ~ heard
         /\ Head(q) \notin Told => Story(Tail(q), heard, client)
<1> DEFINE r == Tail(q)
           n == Len(q)
           h == Head(q)
<1>1. /\ n \in Nat \ {0} /\ Len(r) = n - 1 /\ DOMAIN q = 1 .. n /\ DOMAIN r = 1 .. (n - 1)
      /\ h = q[1] /\ \A i \in 1 .. (n - 1) : r[i] = q[i + 1] /\ i \in Nat /\ i + 1 \in 1 .. n
  OBVIOUS
<1> HIDE DEF r, n, h
<1>2. \A i \in 1 .. (n - 1), j \in 1 .. n : Silent(r, i, j) <=> Silent(q, i + 1, j + 1)
  <2> TAKE i \in 1 .. (n - 1), j \in 1 .. n
  <2>1. ASSUME Silent(r, i, j), NEW k \in DOMAIN q, i + 1 < k, k < j + 1
        PROVE  q[k] \notin Told
    <3>1. k - 1 \in 1 .. (n - 1) /\ i < k - 1 /\ k - 1 < j /\ q[k] = r[k - 1]
      BY <1>1, <2>1
    <3> QED
      BY <1>1, <2>1, <3>1 DEF Silent
  <2>2. ASSUME Silent(q, i + 1, j + 1), NEW k \in DOMAIN r, i < k, k < j
        PROVE  r[k] \notin Told
    <3>1. k + 1 \in 1 .. n /\ i + 1 < k + 1 /\ k + 1 < j + 1 /\ q[k + 1] = r[k]
      BY <1>1, <2>2
    <3> QED
      BY <1>1, <2>2, <3>1 DEF Silent
  <2> QED
    BY <2>1, <2>2 DEF Silent
<1>3. \A j \in 1 .. n : Silent(r, 0, j) <=> Silent(q, 1, j + 1)
  <2> TAKE j \in 1 .. n
  <2>1. ASSUME Silent(r, 0, j), NEW k \in DOMAIN q, 1 < k, k < j + 1
        PROVE  q[k] \notin Told
    <3>1. k - 1 \in 1 .. (n - 1) /\ 0 < k - 1 /\ k - 1 < j /\ q[k] = r[k - 1]
      BY <1>1, <2>1
    <3> QED
      BY <1>1, <2>1, <3>1 DEF Silent
  <2>2. ASSUME Silent(q, 1, j + 1), NEW k \in DOMAIN r, 0 < k, k < j
        PROVE  r[k] \notin Told
    <3>1. k + 1 \in 1 .. n /\ 1 < k + 1 /\ k + 1 < j + 1 /\ q[k + 1] = r[k]
      BY <1>1, <2>2
    <3> QED
      BY <1>1, <2>2, <3>1 DEF Silent
  <2> QED
    BY <2>1, <2>2 DEF Silent
<1>4. /\ Silent(q, 0, 1)
      /\ h \notin Told => \A j \in 2 .. (n + 1) : Silent(q, 1, j) => Silent(q, 0, j)
  BY <1>1 DEF Silent
<1>5. /\ Alternates(q) /\ FirstIsNews(q, heard) /\ LastIsTrue(q, client)
      /\ Silent(q, 0, n + 1) => (heard <=> client)
      /\ WithdrawnUnmapped(q, heard)
  BY DEF Story, n
<1>6. /\ h = "MapNotify" => ~ heard
      /\ h = "UnmapNotify" => heard
      /\ h = "SyntheticUnmap" => ~ heard
  BY <1>1, <1>4, <1>5 DEF FirstIsNews, WithdrawnUnmapped, Told
<1>7. Alternates(r)
  <2>1. SUFFICES ASSUME NEW i \in DOMAIN r, NEW j \in DOMAIN r,
                        i < j, r[i] \in Told, r[j] \in Told, Silent(r, i, j)
                 PROVE  r[i] # r[j]
    BY DEF Alternates
  <2>2. /\ i + 1 \in DOMAIN q /\ j + 1 \in DOMAIN q /\ i + 1 < j + 1 /\ j \in 1 .. n
        /\ r[i] = q[i + 1] /\ r[j] = q[j + 1]
    BY <1>1, <2>1
  <2>3. Silent(q, i + 1, j + 1)
    BY <1>1, <1>2, <2>1, <2>2
  <2> QED
    BY <1>5, <2>1, <2>2, <2>3 DEF Alternates
<1>8. ASSUME NEW now \in BOOLEAN, IF h \in Told THEN now <=> h = "MapNotify" ELSE now <=> heard
      PROVE  Story(r, now, client)
  <2>1. ASSUME NEW i \in DOMAIN r, r[i] \in Told, Silent(r, 0, i)
        PROVE  r[i] = "MapNotify" <=> ~ now
    <3>1. /\ i + 1 \in DOMAIN q /\ i \in 1 .. n /\ r[i] = q[i + 1] /\ i + 1 \in 2 .. (n + 1)
          /\ 1 \in DOMAIN q /\ 1 < i + 1
      BY <1>1, <2>1
    <3>2. Silent(q, 1, i + 1)
      BY <1>3, <2>1, <3>1
    <3>3. CASE h \in Told
      <4>1. q[1] # q[i + 1]
        BY <1>1, <1>5, <2>1, <3>1, <3>2, <3>3 DEF Alternates
      <4> QED
        BY <1>1, <1>8, <2>1, <3>1, <3>3, <4>1 DEF Told
    <3>4. CASE h \notin Told
      BY <1>4, <1>5, <1>8, <2>1, <3>1, <3>2, <3>4 DEF FirstIsNews
    <3> QED
      BY <3>3, <3>4
  <2>2. ASSUME NEW i \in DOMAIN r, r[i] \in Told, Silent(r, i, Len(r) + 1)
        PROVE  r[i] = "MapNotify" <=> client
    <3>1. /\ i + 1 \in DOMAIN q /\ n \in 1 .. n /\ r[i] = q[i + 1] /\ Len(r) + 1 = n
          /\ i \in 1 .. (n - 1)
      BY <1>1, <2>2
    <3>2. Silent(q, i + 1, n + 1)
      BY <1>2, <2>2, <3>1
    <3> QED
      BY <1>5, <2>2, <3>1, <3>2 DEF LastIsTrue, n
  <2>3. ASSUME Silent(r, 0, Len(r) + 1)
        PROVE  now <=> client
    <3>1. n \in 1 .. n /\ Len(r) + 1 = n /\ n + 1 \in 2 .. (n + 1) /\ 1 \in DOMAIN q
      BY <1>1
    <3>2. Silent(q, 1, n + 1)
      BY <1>3, <2>3, <3>1
    <3>3. CASE h \in Told
      BY <1>1, <1>5, <1>8, <3>1, <3>2, <3>3 DEF LastIsTrue, n
    <3>4. CASE h \notin Told
      BY <1>4, <1>5, <1>8, <3>1, <3>2, <3>4
    <3> QED
      BY <3>3, <3>4
  <2>4. ASSUME NEW j \in DOMAIN r, r[j] = "SyntheticUnmap"
        PROVE  /\ \A i \in DOMAIN r : i < j /\ r[i] \in Told /\ Silent(r, i, j)
                     => r[i] = "UnmapNotify"
               /\ Silent(r, 0, j) => ~ now
    <3>1. /\ j + 1 \in DOMAIN q /\ j \in 1 .. n /\ q[j + 1] = "SyntheticUnmap"
          /\ j + 1 \in 2 .. (n + 1) /\ 1 \in DOMAIN q /\ 1 < j + 1
      BY <1>1, <2>4
    <3>2. ASSUME NEW i \in DOMAIN r, i < j, r[i] \in Told, Silent(r, i, j)
          PROVE  r[i] = "UnmapNotify"
      <4>1. i + 1 \in DOMAIN q /\ i + 1 < j + 1 /\ r[i] = q[i + 1] /\ i \in 1 .. (n - 1)
        BY <1>1, <3>1, <3>2
      <4>2. Silent(q, i + 1, j + 1)
        BY <1>2, <3>1, <3>2, <4>1
      <4> QED
        BY <1>5, <3>1, <3>2, <4>1, <4>2 DEF WithdrawnUnmapped
    <3>3. ASSUME Silent(r, 0, j) PROVE ~ now
      <4>1. Silent(q, 1, j + 1)
        BY <1>3, <3>1, <3>3
      <4>2. CASE h \in Told
        <5>1. q[1] = "UnmapNotify"
          BY <1>1, <1>5, <3>1, <4>1, <4>2 DEF WithdrawnUnmapped
        <5> QED
          BY <1>1, <1>8, <4>2, <5>1
      <4>3. CASE h \notin Told
        <5>1. Silent(q, 0, j + 1)
          BY <1>4, <3>1, <4>1, <4>3
        <5> QED
          BY <1>5, <1>8, <3>1, <4>3, <5>1 DEF WithdrawnUnmapped
      <4> QED
        BY <4>2, <4>3
    <3> QED
      BY <3>2, <3>3
  <2> QED
    BY <1>5, <1>7, <2>1, <2>2, <2>3, <2>4
    DEF Story, FirstIsNews, LastIsTrue, WithdrawnUnmapped
<1> QED
  BY <1>6, <1>8 DEF Told, h, r

-----------------------------------------------------------------------------
(* A record with one field changed is still one.  Numbers are named with   *)
(* the terms the operations use, which the provers look for.               *)

LEMMA WindowUpdated ==
  /\ \A w \in Windows : \A x \in BOOLEAN : [w EXCEPT !.managed = x] \in Windows
  /\ \A w \in Windows : \A x \in BOOLEAN : [w EXCEPT !.unmanaging = x] \in Windows
  /\ \A w \in Windows : \A x \in BOOLEAN : [w EXCEPT !.minimized = x] \in Windows
  /\ \A w \in Windows : \A x \in BOOLEAN : [w EXCEPT !.hidden = x] \in Windows
  /\ \A w \in Windows : \A x \in BOOLEAN : [w EXCEPT !.inShowDesktopMode = x] \in Windows
  /\ \A w \in Windows : \A x \in BOOLEAN : [w EXCEPT !.hiddenState = x] \in Windows
  /\ \A w \in Windows : \A x \in BOOLEAN : [w EXCEPT !.shadedState = x] \in Windows
  /\ \A w \in Windows : \A x \in BOOLEAN : [w EXCEPT !.shaded = x] \in Windows
  /\ \A w \in Windows : \A x \in BOOLEAN : [w EXCEPT !.serverFrame = x] \in Windows
  /\ \A w \in Windows : \A x \in BOOLEAN : [w EXCEPT !.viewable = x] \in Windows
  /\ \A w \in Windows : \A x \in BOOLEAN : [w EXCEPT !.pendingMaps = x] \in Windows
  /\ \A w \in Windows : \A x \in Desktops : [w EXCEPT !.desktop = x] \in Windows
  /\ \A w \in Windows : \A x \in States : [w EXCEPT !.wmState = x] \in Windows
  /\ \A w \in Windows : \A x \in Int : [w EXCEPT !.unmapRefCnt = x] \in Windows
  /\ \A w \in Windows : [w EXCEPT !.unmapRefCnt = 1] \in Windows
  /\ \A w \in Windows : [w EXCEPT !.pendingUnmaps = @ + 1] \in Windows
  /\ \A w \in Windows : w.pendingUnmaps > 0 => [w EXCEPT !.pendingUnmaps = @ - 1] \in Windows
<1>1. \A w \in Windows : \A x \in BOOLEAN : [w EXCEPT !.managed = x] \in Windows
  BY DEF Windows
<1>2. \A w \in Windows : \A x \in BOOLEAN : [w EXCEPT !.unmanaging = x] \in Windows
  BY DEF Windows
<1>3. \A w \in Windows : \A x \in BOOLEAN : [w EXCEPT !.minimized = x] \in Windows
  BY DEF Windows
<1>4. \A w \in Windows : \A x \in BOOLEAN : [w EXCEPT !.hidden = x] \in Windows
  BY DEF Windows
<1>5. \A w \in Windows : \A x \in BOOLEAN : [w EXCEPT !.inShowDesktopMode = x] \in Windows
  BY DEF Windows
<1>6. \A w \in Windows : \A x \in BOOLEAN : [w EXCEPT !.hiddenState = x] \in Windows
  BY DEF Windows
<1>7. \A w \in Windows : \A x \in BOOLEAN : [w EXCEPT !.shadedState = x] \in Windows
  BY DEF Windows
<1>8. \A w \in Windows : \A x \in BOOLEAN : [w EXCEPT !.shaded = x] \in Windows
  BY DEF Windows
<1>9. \A w \in Windows : \A x \in BOOLEAN : [w EXCEPT !.serverFrame = x] \in Windows
  BY DEF Windows
<1>10. \A w \in Windows : \A x \in BOOLEAN : [w EXCEPT !.viewable = x] \in Windows
  BY DEF Windows
<1>11. \A w \in Windows : \A x \in BOOLEAN : [w EXCEPT !.pendingMaps = x] \in Windows
  BY DEF Windows
<1>12. \A w \in Windows : \A x \in Desktops : [w EXCEPT !.desktop = x] \in Windows
  BY DEF Windows
<1>13. \A w \in Windows : \A x \in States : [w EXCEPT !.wmState = x] \in Windows
  BY DEF Windows
<1>14. \A w \in Windows : \A x \in Int : [w EXCEPT !.unmapRefCnt = x] \in Windows
  BY DEF Windows
<1>15. \A w \in Windows : [w EXCEPT !.unmapRefCnt = 1] \in Windows
  BY DEF Windows
<1>16. \A w \in Windows : [w EXCEPT !.pendingUnmaps = @ + 1] \in Windows
  BY DEF Windows
<1>17. \A w \in Windows : w.pendingUnmaps > 0 => [w EXCEPT !.pendingUnmaps = @ - 1] \in Windows
  BY DEF Windows
<1> QED
  BY <1>1, <1>2, <1>3, <1>4, <1>5, <1>6, <1>7, <1>8, <1>9, <1>10, <1>11,
     <1>12, <1>13, <1>14, <1>15, <1>16, <1>17

LEMMA ServerUpdated ==
  /\ \A v \in Servers : \A x \in BOOLEAN : [v EXCEPT !.client = x] \in Servers
  /\ \A v \in Servers : \A x \in BOOLEAN : [v EXCEPT !.frame = x] \in Servers
  /\ \A v \in Servers : \A x \in BOOLEAN : [v EXCEPT !.wrapper = x] \in Servers
  /\ \A v \in Servers : \A x \in Seq(Events) : [v EXCEPT !.events = x] \in Servers
<1>1. \A v \in Servers : \A x \in BOOLEAN : [v EXCEPT !.client = x] \in Servers
  BY DEF Servers
<1>2. \A v \in Servers : \A x \in BOOLEAN : [v EXCEPT !.frame = x] \in Servers
  BY DEF Servers
<1>3. \A v \in Servers : \A x \in BOOLEAN : [v EXCEPT !.wrapper = x] \in Servers
  BY DEF Servers
<1>4. \A v \in Servers : \A x \in Seq(Events) : [v EXCEPT !.events = x] \in Servers
  BY DEF Servers
<1> QED
  BY <1>1, <1>2, <1>3, <1>4

LEMMA KnownUpdated ==
  /\ \A s \in Known : \A w \in Windows : [s EXCEPT !.win = w] \in Known
  /\ \A s \in Known : \A v \in Servers : [s EXCEPT !.server = v] \in Known
  /\ \A s \in Known : \A n \in 0 .. MaxKept : [s EXCEPT !.kept = n] \in Known
  /\ \A s \in Known : s.win \in Windows
  /\ \A s \in Known : s.server \in Servers
  /\ \A s \in Known : s.kept \in 0 .. MaxKept
<1>1. \A s \in Known : \A w \in Windows : [s EXCEPT !.win = w] \in Known
  BY DEF Known
<1>2. \A s \in Known : \A v \in Servers : [s EXCEPT !.server = v] \in Known
  BY DEF Known
<1>3. \A s \in Known : \A n \in 0 .. MaxKept : [s EXCEPT !.kept = n] \in Known
  BY DEF Known
<1>4. \A s \in Known : s.win \in Windows
  BY DEF Known
<1>5. \A s \in Known : s.server \in Servers
  BY DEF Known
<1>6. \A s \in Known : s.kept \in 0 .. MaxKept
  BY DEF Known
<1> QED
  BY <1>1, <1>2, <1>3, <1>4, <1>5, <1>6

LEMMA Typed ==
  ASSUME NEW s \in Known
  PROVE  /\ s.win.managed \in BOOLEAN /\ s.win.unmanaging \in BOOLEAN
         /\ s.win.minimized \in BOOLEAN /\ s.win.hidden \in BOOLEAN
         /\ s.win.inShowDesktopMode \in BOOLEAN /\ s.win.hiddenState \in BOOLEAN
         /\ s.win.shadedState \in BOOLEAN /\ s.win.shaded \in BOOLEAN
         /\ s.win.serverFrame \in BOOLEAN /\ s.win.viewable \in BOOLEAN
         /\ s.win.pendingMaps \in BOOLEAN
         /\ s.win.desktop \in Desktops /\ s.win.pendingUnmaps \in Nat
         /\ s.win.unmapRefCnt \in Int /\ s.win.wmState \in States
         /\ s.server.client \in BOOLEAN /\ s.server.frame \in BOOLEAN
         /\ s.server.wrapper \in BOOLEAN /\ s.server.events \in Seq(Events)
         /\ s.kept \in 0 .. MaxKept
<1>1. s.win \in Windows /\ s.server \in Servers /\ s.kept \in 0 .. MaxKept
  BY KnownUpdated
<1>2. \A w \in Windows :
         /\ w.managed \in BOOLEAN /\ w.unmanaging \in BOOLEAN
         /\ w.minimized \in BOOLEAN /\ w.hidden \in BOOLEAN
         /\ w.inShowDesktopMode \in BOOLEAN /\ w.hiddenState \in BOOLEAN
         /\ w.shadedState \in BOOLEAN /\ w.shaded \in BOOLEAN
         /\ w.serverFrame \in BOOLEAN /\ w.viewable \in BOOLEAN
         /\ w.pendingMaps \in BOOLEAN
         /\ w.desktop \in Desktops /\ w.pendingUnmaps \in Nat
         /\ w.unmapRefCnt \in Int /\ w.wmState \in States
  BY DEF Windows
<1>3. \A v \in Servers : /\ v.client \in BOOLEAN /\ v.frame \in BOOLEAN
                         /\ v.wrapper \in BOOLEAN /\ v.events \in Seq(Events)
  BY DEF Servers
<1> QED
  BY <1>1, <1>2, <1>3

-----------------------------------------------------------------------------
(* What each operation does to what is known of the window                 *)

(* t differs from s in nothing the view is about.                          *)
SameView(s, t) ==
    /\ t.win.viewable = s.win.viewable /\ t.win.unmapRefCnt = s.win.unmapRefCnt
    /\ t.win.wmState = s.win.wmState /\ t.kept = s.kept
    /\ t.server.client = s.server.client /\ t.server.events = s.server.events

LEMMA ViewOfSame ==
  ASSUME NEW s, NEW t, SameView(s, t), View(s)
  PROVE  View(t)
BY DEF SameView, View, RefsCounted, Heard

(* What an operation that leaves the view alone may do to the frame.       *)
SameBut(s, t) ==
    /\ SameView(s, t)
    /\ t.win.managed = s.win.managed /\ t.win.pendingMaps = s.win.pendingMaps

LEMMA Queued ==
  ASSUME NEW s \in Known, NEW e \in Events
  PROVE  Queue(s, e) \in Known
<1>1. Append(s.server.events, e) \in Seq(Events)
  BY Typed
<1> QED
  BY <1>1, KnownUpdated, ServerUpdated DEF Queue

LEMMA ClientUnmapped ==
  ASSUME NEW s \in Known
  PROVE  LET t == UnmapClient(s)
         IN  /\ t \in Known
             /\ t.win = s.win /\ t.kept = s.kept
             /\ t.server.frame = s.server.frame /\ t.server.wrapper = s.server.wrapper
             /\ ~ s.server.client => t = s
             /\ s.server.client => /\ ~ t.server.client
                                   /\ t.server.events = Append(s.server.events, "UnmapNotify")
<1>1. UnmapClient(s) \in Known
  <2>1. [s EXCEPT !.server.client = FALSE] \in Known /\ "UnmapNotify" \in Events
    BY KnownUpdated, ServerUpdated DEF Events
  <2> QED
    BY <2>1, Queued DEF UnmapClient
<1> QED
  BY <1>1 DEF UnmapClient, Queue, Known, Servers

LEMMA ClientMapped ==
  ASSUME NEW s \in Known
  PROVE  LET t == MapClient(s)
         IN  /\ t \in Known
             /\ t.win = s.win /\ t.kept = s.kept
             /\ t.server.frame = s.server.frame /\ t.server.wrapper = s.server.wrapper
             /\ s.server.client => t = s
             /\ ~ s.server.client => /\ t.server.client
                                     /\ t.server.events = Append(s.server.events, "MapNotify")
<1>1. MapClient(s) \in Known
  <2>1. [s EXCEPT !.server.client = TRUE] \in Known /\ "MapNotify" \in Events
    BY KnownUpdated, ServerUpdated DEF Events
  <2> QED
    BY <2>1, Queued DEF MapClient
<1> QED
  BY <1>1 DEF MapClient, Queue, Known, Servers

LEMMA ViewOfClient ==
  ASSUME NEW s \in Known, View(s)
  PROVE  View(UnmapClient(s)) /\ View(MapClient(s))
<1>1. /\ s.server.events \in Seq(Events) /\ s.server.client \in BOOLEAN
      /\ Heard(s) \in BOOLEAN /\ Story(s.server.events, Heard(s), s.server.client)
  BY DEF Known, Servers, Windows, View, Heard
<1>2. View(UnmapClient(s))
  <2> DEFINE t == UnmapClient(s)
  <2>1. CASE ~ s.server.client
    BY <2>1, ClientUnmapped
  <2>2. CASE s.server.client
    <3>1. /\ t.win = s.win /\ t.kept = s.kept /\ t.server.client = FALSE
          /\ t.server.events = Append(s.server.events, "UnmapNotify")
          /\ t \in Known
      BY <2>2, ClientUnmapped DEF Known, Servers
    <3>2. Story(t.server.events, Heard(s), FALSE)
      <4>1. "UnmapNotify" \in Events
        BY DEF Events
      <4> QED
        BY <1>1, <2>2, <3>1, <4>1, StoryGoesOn
    <3>3. View(t)
      <4> HIDE DEF t
      <4> QED
        BY <3>1, <3>2 DEF View, RefsCounted, Heard
    <3> QED
      BY <3>3
  <2> QED
    BY <2>1, <2>2 DEF Known, Servers
<1>3. View(MapClient(s))
  <2> DEFINE t == MapClient(s)
  <2>1. CASE s.server.client
    BY <2>1, ClientMapped
  <2>2. CASE ~ s.server.client
    <3>1. /\ t.win = s.win /\ t.kept = s.kept /\ t.server.client = TRUE
          /\ t.server.events = Append(s.server.events, "MapNotify")
          /\ t \in Known
      BY <2>2, ClientMapped DEF Known, Servers
    <3>2. Story(t.server.events, Heard(s), TRUE)
      <4>1. "MapNotify" \in Events
        BY DEF Events
      <4> QED
        BY <1>1, <2>2, <3>1, <4>1, StoryGoesOn
    <3>3. View(t)
      <4> HIDE DEF t
      <4> QED
        BY <3>1, <3>2 DEF View, RefsCounted, Heard
    <3> QED
      BY <3>3
  <2> QED
    BY <2>1, <2>2 DEF Known, Servers
<1> QED
  BY <1>2, <1>3

LEMMA FrameMade ==
  ASSUME NEW s \in Known
  PROVE  LET t == Reparent(s)
         IN  /\ t \in Known /\ SameBut(s, t)
             /\ t.win.serverFrame /\ t.win.pendingUnmaps = s.win.pendingUnmaps
             /\ s.win.serverFrame => t = s
             /\ ~ s.win.serverFrame =>
                   t.server.wrapper /\ t.server.frame = (s.server.client \/ s.win.shaded)
<1>1. Reparent(s) \in Known
  BY KnownUpdated, WindowUpdated, ServerUpdated DEF Reparent
<1> QED
  BY <1>1 DEF Reparent, Known, Windows, Servers, SameBut, SameView

LEMMA MapDoes ==
  ASSUME NEW s \in Known
  PROVE  LET t == Map(s)
         IN  /\ t \in Known
             /\ t.win.viewable /\ t.kept = s.kept /\ t.server = s.server
             /\ t.win.managed = s.win.managed /\ t.win.serverFrame = s.win.serverFrame
             /\ t.win.pendingUnmaps = s.win.pendingUnmaps
             /\ s.win.viewable => t = s
             /\ ~ s.win.viewable => /\ t.win.unmapRefCnt = 1 /\ t.win.wmState = "Normal"
                                    /\ ~ t.win.pendingMaps
<1>1. Map(s) \in Known
  BY KnownUpdated, WindowUpdated DEF Map, States
<1> QED
  BY <1>1 DEF Map, Known, Windows, Servers

LEMMA UnmapDoes ==
  ASSUME NEW s \in Known, NEW keep \in Nat, s.kept + keep \in 0 .. MaxKept
  PROVE  LET t == Unmap(s, keep)
         IN  /\ t \in Known
             /\ t.kept = s.kept + keep
             /\ t.win.unmapRefCnt = s.win.unmapRefCnt + keep - 1
             /\ t.win.wmState = s.win.wmState /\ t.win.managed = s.win.managed
             /\ t.win.pendingMaps = s.win.pendingMaps
             /\ t.win.pendingUnmaps = s.win.pendingUnmaps
             /\ t.server.client = s.server.client /\ t.server.events = s.server.events
             /\ IF t.win.unmapRefCnt > 0 THEN t.win.viewable = s.win.viewable
                ELSE t.win.viewable = FALSE
<1> DEFINE off == [s EXCEPT !.win.unmapRefCnt = @ + keep - 1,
                            !.kept            = @ + keep,
                            !.server.wrapper  = FALSE,
                            !.server.frame    = @ /\ s.win.shaded]
           bare == IF s.win.serverFrame /\ ~ s.win.shaded THEN Unreparent(off) ELSE off
           gone == [bare EXCEPT !.win.unmanaging = FALSE, !.win.viewable = FALSE]
<1>a. off \in Known
  <2>1. /\ s.win.unmapRefCnt + keep - 1 \in Int /\ s.kept + keep \in 0 .. MaxKept
        /\ (s.server.frame /\ s.win.shaded) \in BOOLEAN
    BY Typed
  <2> QED
    BY <2>1, KnownUpdated, WindowUpdated, ServerUpdated
<1>1. /\ off.kept = s.kept + keep
      /\ off.win.unmapRefCnt = s.win.unmapRefCnt + keep - 1
      /\ off.win.viewable = s.win.viewable
      /\ off.win.wmState = s.win.wmState /\ off.win.managed = s.win.managed
      /\ off.win.pendingMaps = s.win.pendingMaps /\ off.win.pendingUnmaps = s.win.pendingUnmaps
      /\ off.server.client = s.server.client /\ off.server.events = s.server.events
  BY DEF Known, Windows, Servers
<1>2. Unmap(s, keep) = IF off.win.unmapRefCnt > 0 THEN off ELSE gone
  BY DEF Unmap
<1>b. bare \in Known
  <2> HIDE DEF off
  <2> QED
    BY <1>a, KnownUpdated, WindowUpdated, ServerUpdated DEF Unreparent
<1>3. /\ bare.kept = off.kept
      /\ bare.win.unmapRefCnt = off.win.unmapRefCnt
      /\ bare.win.wmState = off.win.wmState /\ bare.win.managed = off.win.managed
      /\ bare.win.pendingMaps = off.win.pendingMaps
      /\ bare.win.pendingUnmaps = off.win.pendingUnmaps
      /\ bare.server.client = off.server.client /\ bare.server.events = off.server.events
  <2> HIDE DEF off
  <2> QED
    BY <1>a, <1>1 DEF Unreparent, Known, Windows, Servers
<1>c. gone \in Known
  <2> HIDE DEF bare
  <2> QED
    BY <1>b, KnownUpdated, WindowUpdated
<1>4. /\ gone.kept = bare.kept /\ gone.win.viewable = FALSE
      /\ gone.win.unmapRefCnt = bare.win.unmapRefCnt
      /\ gone.win.wmState = bare.win.wmState /\ gone.win.managed = bare.win.managed
      /\ gone.win.pendingMaps = bare.win.pendingMaps
      /\ gone.win.pendingUnmaps = bare.win.pendingUnmaps
      /\ gone.server.client = bare.server.client /\ gone.server.events = bare.server.events
  <2> HIDE DEF bare
  <2> QED
    BY <1>b, <1>3 DEF Known, Windows, Servers
<1> HIDE DEF off, bare, gone
<1>5. CASE off.win.unmapRefCnt > 0
  <2>1. Unmap(s, keep) = off
    BY <1>2, <1>5
  <2> QED
    BY <1>a, <1>1, <1>5, <2>1
<1>6. CASE ~ off.win.unmapRefCnt > 0
  <2>1. Unmap(s, keep) = gone
    BY <1>2, <1>6
  <2> QED
    BY <1>a, <1>1, <1>3, <1>c, <1>4, <1>6, <2>1
<1> QED
  BY <1>5, <1>6

(* Once the references are dropped the window is as it is heard of.        *)
LEMMA LetGoDoes ==
  ASSUME NEW s \in Known, RefsCounted(s)
  PROVE  LET t == LetGo(s)
         IN  /\ t \in Known /\ t.win.wmState = s.win.wmState /\ RefsCounted(t)
             /\ t.kept = 0 /\ (t.win.viewable <=> Heard(s))
             /\ t.win.managed = s.win.managed /\ t.win.pendingMaps = s.win.pendingMaps
             /\ t.win.pendingUnmaps = s.win.pendingUnmaps
             /\ t.server.client = s.server.client /\ t.server.events = s.server.events
             /\ s.kept = 0 => t = s
<1>1. CASE s.kept = 0
  BY <1>1 DEF LetGo, Heard, Known, Windows
<1>2. CASE s.kept # 0
  <2> DEFINE last == [s EXCEPT !.win.unmapRefCnt = @ - (s.kept - 1)]
             u == Unmap(last, 0)
             t == [u EXCEPT !.kept = 0]
  <2>1. /\ s.kept \in 0 .. MaxKept /\ s.kept > 0 /\ MaxKept \in Nat
        /\ s.win.viewable /\ s.win.unmapRefCnt = s.kept
    BY <1>2, BoundsAssumption DEF Known, RefsCounted
  <2>2. /\ last \in Known /\ last.kept = s.kept /\ last.win.unmapRefCnt = 1
        /\ last.win.wmState = s.win.wmState /\ last.win.managed = s.win.managed
        /\ last.win.pendingMaps = s.win.pendingMaps
        /\ last.win.pendingUnmaps = s.win.pendingUnmaps
        /\ last.server = s.server
    BY <2>1 DEF Known, Windows, Servers
  <2>3. /\ 0 \in Nat /\ last.kept + 0 \in 0 .. MaxKept
    BY <2>1, <2>2
  <2> HIDE DEF last
  <2>a. /\ u \in Known /\ u.win.unmapRefCnt = last.win.unmapRefCnt + 0 - 1
        /\ u.win.wmState = last.win.wmState /\ u.win.managed = last.win.managed
        /\ u.win.pendingMaps = last.win.pendingMaps
        /\ u.win.pendingUnmaps = last.win.pendingUnmaps
        /\ u.server.client = last.server.client /\ u.server.events = last.server.events
        /\ IF u.win.unmapRefCnt > 0 THEN u.win.viewable = last.win.viewable
           ELSE u.win.viewable = FALSE
    BY <2>2, <2>3, UnmapDoes, Zenon
  <2>4. /\ u \in Known /\ u.win.viewable = FALSE
        /\ u.win.wmState = s.win.wmState /\ u.win.managed = s.win.managed
        /\ u.win.pendingMaps = s.win.pendingMaps
        /\ u.win.pendingUnmaps = s.win.pendingUnmaps
        /\ u.server.client = s.server.client /\ u.server.events = s.server.events
    BY <2>2, <2>a
  <2> HIDE DEF u
  <2>5. /\ t \in Known /\ t.win = u.win /\ t.server = u.server /\ t.kept = 0
    BY <2>1, <2>4 DEF Known
  <2>6. LetGo(s) = t
    BY <1>2 DEF LetGo, u, last
  <2> HIDE DEF t
  <2>7. ~ Heard(s) /\ ~ Heard(t) /\ RefsCounted(t)
    BY <2>1, <2>4, <2>5 DEF Heard, RefsCounted
  <2> QED
    BY <1>2, <2>4, <2>5, <2>6, <2>7
<1> QED
  BY <1>1, <1>2

LEMMA HideDoes ==
  ASSUME NEW s \in Known, View(s)
  PROVE  LET t == Hide(s)
         IN  /\ t \in Known /\ View(t)
             /\ t.win.managed = s.win.managed /\ t.win.pendingMaps = s.win.pendingMaps
             /\ t.win.viewable = s.win.viewable /\ t.kept = s.kept
             /\ t.win.pendingUnmaps >= s.win.pendingUnmaps
             /\ \/ /\ t.server.client = s.server.client
                   /\ t.server.events = s.server.events
                   /\ s.server.client /\ (s.win.viewable \/ s.win.pendingMaps) => t = s
                \/ /\ s.server.client /\ ~ t.server.client
                   /\ t.server.events = Append(s.server.events, "UnmapNotify")
                   /\ t.win.pendingUnmaps > 0
<1> DEFINE w      == s.win
           shaded == ~ PutAway(w) /\ OnCurrentDesktop(w)
           unroll == [s EXCEPT !.win.shaded   = shaded,
                               !.server.frame = @ /\ (shaded \/ ~ w.shadedState)]
           off    == [unroll EXCEPT
                        !.win.pendingUnmaps = @ + 1,
                        !.win.hiddenState   = @ \/ PutAway(w) \/ shaded,
                        !.server.frame      = @ /\ shaded]
<1>1. Hide(s) = IF ~ w.managed \/ (shaded /\ ~ w.shadedState) THEN s
                ELSE IF ~ w.pendingMaps /\ ~ w.viewable THEN unroll
                ELSE UnmapClient(off)
  BY DEF Hide
<1>2. /\ unroll \in Known /\ SameBut(s, unroll)
      /\ unroll.win.pendingUnmaps = s.win.pendingUnmaps
  <2>1. unroll \in Known
    BY KnownUpdated, WindowUpdated, ServerUpdated
  <2> QED
    BY <2>1 DEF Known, Windows, Servers, SameBut, SameView
<1>3. /\ off \in Known /\ SameBut(s, off)
      /\ off.win.pendingUnmaps = s.win.pendingUnmaps + 1
  <2> HIDE DEF unroll
  <2>1. off \in Known
    BY <1>2, KnownUpdated, WindowUpdated, ServerUpdated
  <2> QED
    BY <1>2, <2>1 DEF Known, Windows, Servers, SameBut, SameView
<1> HIDE DEF off, unroll, shaded
<1>4. s.win.pendingUnmaps \in Nat /\ s.server.client \in BOOLEAN
  BY Typed
<1>5. CASE ~ w.managed \/ (shaded /\ ~ w.shadedState)
  BY <1>1, <1>4, <1>5
<1>6. CASE /\ ~ (~ w.managed \/ (shaded /\ ~ w.shadedState))
           /\ ~ w.pendingMaps /\ ~ w.viewable
  <2>1. Hide(s) = unroll
    BY <1>1, <1>6
  <2>2. View(unroll)
    BY <1>2, ViewOfSame DEF SameBut
  <2> QED
    BY <1>2, <1>4, <1>6, <2>1, <2>2 DEF SameBut, SameView
<1>7. CASE /\ ~ (~ w.managed \/ (shaded /\ ~ w.shadedState))
           /\ ~ (~ w.pendingMaps /\ ~ w.viewable)
  <2> DEFINE t == UnmapClient(off)
  <2>1. Hide(s) = t
    BY <1>1, <1>7
  <2>2. View(off)
    BY <1>3, ViewOfSame DEF SameBut
  <2>3. View(t)
    BY <1>3, <2>2, ViewOfClient
  <2>4. /\ t \in Known /\ t.win = off.win /\ t.kept = off.kept
        /\ ~ off.server.client => t = off
        /\ off.server.client => /\ ~ t.server.client
                                /\ t.server.events = Append(off.server.events, "UnmapNotify")
    BY <1>3, ClientUnmapped
  <2> HIDE DEF t
  <2> QED
    BY <1>3, <1>4, <2>1, <2>3, <2>4 DEF SameBut, SameView
<1> QED
  BY <1>5, <1>6, <1>7

(* What show () does: nothing, or it puts a shaded window's frame up, or   *)
(* it maps the window, frame and wrapper.                                  *)
Shown(s, t) ==
    /\ t.kept = 0 /\ t.win.pendingMaps /\ t.win.managed /\ t.server.client
    /\ t.server.frame = t.win.serverFrame /\ t.server.wrapper = t.win.serverFrame
    /\ t.win.viewable <=> Heard(s)
    /\ s.kept = 0 => t.win.serverFrame = s.win.serverFrame
    /\ IF s.server.client THEN t.server.events = s.server.events
       ELSE t.server.events = Append(s.server.events, "MapNotify")

LEMMA ShowDoes ==
  ASSUME NEW s \in Known, View(s)
  PROVE  LET t == Show(s)
         IN  /\ t \in Known /\ View(t)
             /\ t.win.managed = s.win.managed /\ t.win.pendingUnmaps = s.win.pendingUnmaps
             /\ \/ /\ SameBut(s, t)
                   /\ t.win.serverFrame = s.win.serverFrame
                   /\ t.server.wrapper = s.server.wrapper
                   /\ t.server.frame = s.server.frame \/ t.server.frame = s.win.serverFrame
                \/ Shown(s, t)
<1> DEFINE w    == s.win
           kept1 == [s EXCEPT !.win.hiddenState = @ /\ PutAway(w)]
           roll == [s EXCEPT !.win.shaded = TRUE, !.server.frame = w.serverFrame]
           free == LetGo(s)
           up   == [free EXCEPT !.win.pendingMaps = TRUE,
                                !.win.hiddenState = FALSE,
                                !.server.frame    = free.win.serverFrame,
                                !.server.wrapper  = free.win.serverFrame]
<1>1. Show(s) = IF ~ w.managed THEN s
                ELSE IF PutAway(w) \/ ~ OnCurrentDesktop(w) THEN kept1
                ELSE IF w.shadedState THEN roll
                ELSE MapClient(up)
  BY DEF Show
<1>2. CASE ~ w.managed
  BY <1>1, <1>2 DEF SameBut, SameView
<1>3. CASE w.managed /\ (PutAway(w) \/ ~ OnCurrentDesktop(w))
  <2>1. kept1 \in Known
    BY KnownUpdated, WindowUpdated
  <2>2. /\ SameBut(s, kept1) /\ kept1.win.pendingUnmaps = s.win.pendingUnmaps
        /\ kept1.win.serverFrame = s.win.serverFrame
        /\ kept1.server = s.server
    BY DEF Known, Windows, SameBut, SameView
  <2> HIDE DEF kept1
  <2>3. View(kept1)
    BY <2>2, ViewOfSame DEF SameBut
  <2> QED
    BY <1>1, <1>3, <2>1, <2>2, <2>3 DEF SameBut
<1>4. CASE w.managed /\ ~ (PutAway(w) \/ ~ OnCurrentDesktop(w)) /\ w.shadedState
  <2>1. roll \in Known
    BY Typed, KnownUpdated, WindowUpdated, ServerUpdated
  <2>2. /\ SameBut(s, roll) /\ roll.win.pendingUnmaps = s.win.pendingUnmaps
        /\ roll.win.serverFrame = s.win.serverFrame
        /\ roll.server.wrapper = s.server.wrapper
        /\ roll.server.frame = s.win.serverFrame
    BY DEF Known, Windows, Servers, SameBut, SameView
  <2> HIDE DEF roll
  <2>3. View(roll)
    BY <2>2, ViewOfSame DEF SameBut
  <2> QED
    BY <1>1, <1>4, <2>1, <2>2, <2>3 DEF SameBut
<1>5. CASE w.managed /\ ~ (PutAway(w) \/ ~ OnCurrentDesktop(w)) /\ ~ w.shadedState
  <2>a. RefsCounted(s)
    BY DEF View
  <2>1. /\ free \in Known /\ free.win.wmState = s.win.wmState /\ RefsCounted(free)
        /\ free.kept = 0 /\ (free.win.viewable <=> Heard(s))
        /\ free.win.managed = s.win.managed
        /\ free.win.pendingUnmaps = s.win.pendingUnmaps
        /\ free.server.client = s.server.client /\ free.server.events = s.server.events
        /\ s.kept = 0 => free = s
    BY <2>a, LetGoDoes
  <2> HIDE DEF free
  <2>b. View(free)
    BY <2>1 DEF View, Heard
  <2>2. up \in Known
    BY <2>1, Typed, KnownUpdated, WindowUpdated, ServerUpdated
  <2>3. /\ SameView(free, up) /\ up.win.pendingMaps = TRUE /\ up.win.managed = free.win.managed
        /\ up.win.pendingUnmaps = free.win.pendingUnmaps
        /\ up.win.serverFrame = free.win.serverFrame
        /\ up.server.frame = free.win.serverFrame /\ up.server.wrapper = free.win.serverFrame
    BY <2>1 DEF Known, Windows, Servers, SameView
  <2> HIDE DEF up
  <2>4. View(up)
    BY <2>b, <2>3, ViewOfSame
  <2> DEFINE t == MapClient(up)
  <2>5. View(t)
    BY <2>2, <2>4, ViewOfClient
  <2>6. /\ t \in Known /\ t.win = up.win /\ t.kept = up.kept
        /\ t.server.frame = up.server.frame /\ t.server.wrapper = up.server.wrapper
        /\ up.server.client => t = up
        /\ ~ up.server.client => /\ t.server.client
                                 /\ t.server.events = Append(up.server.events, "MapNotify")
    BY <2>2, ClientMapped
  <2>7. Show(s) = t
    BY <1>1, <1>5
  <2> HIDE DEF t
  <2>8. Shown(s, t)
    BY <1>5, <2>1, <2>3, <2>6 DEF Shown, SameView
  <2> QED
    BY <2>1, <2>3, <2>5, <2>6, <2>7, <2>8
<1> QED
  BY <1>2, <1>3, <1>4, <1>5

-----------------------------------------------------------------------------
(* One thing at a time: what is under way when every operation starts on   *)
(* an empty queue                                                          *)

Framed(s) == s.win.serverFrame /\ s.server.frame /\ s.server.wrapper

(* Nothing is under way, or a map is that compiz asked for.                *)
Poised(s) ==
    \/ /\ s.server.events = <<>>
       /\ Heard(s) => s.win.managed /\ Framed(s)
    \/ /\ s.server.events = <<"MapNotify">>
       /\ s.server.client /\ s.kept = 0 /\ s.win.managed /\ s.win.pendingMaps
       /\ s.win.serverFrame => s.server.frame /\ s.server.wrapper

(* An unmap that compiz asked for, and counted, is under way.              *)
Hiding(s) ==
    /\ s.server.events = <<"UnmapNotify">> \/ s.server.events = <<"MapNotify", "UnmapNotify">>
    /\ s.win.managed /\ s.win.pendingUnmaps > 0

(* What the client asked for is under way, or one of the above.            *)
Calm(s) ==
    \/ Poised(s) \/ Hiding(s)
    \/ /\ s.server.events \in {<<"MapRequest">>, <<"SyntheticUnmap">>,
                               <<"UnmapNotify", "SyntheticUnmap">>}
       /\ ~ s.server.client

Sound(s) == s \in Known /\ View(s)

(* t differs from s in flags only.                                         *)
Alike(s, t) ==
    /\ SameBut(s, t) /\ t.server = s.server
    /\ t.win.serverFrame = s.win.serverFrame /\ t.win.pendingUnmaps = s.win.pendingUnmaps

LEMMA AlikeIsSound ==
  ASSUME NEW s, NEW t \in Known, Sound(s), Alike(s, t)
  PROVE  /\ Sound(t)
         /\ Poised(s) => Poised(t)
         /\ Hiding(s) => Hiding(t)
<1>1. View(t)
  BY ViewOfSame DEF Sound, Alike, SameBut
<1> QED
  BY <1>1 DEF Sound, Alike, SameBut, SameView, Poised, Hiding, Framed, Heard

LEMMA FlagSet ==
  /\ \A s \in Known : \A b \in BOOLEAN : LET t == [s EXCEPT !.win.minimized = b]
                                         IN  t \in Known /\ Alike(s, t)
  /\ \A s \in Known : \A b \in BOOLEAN : LET t == [s EXCEPT !.win.hidden = b]
                                         IN  t \in Known /\ Alike(s, t)
  /\ \A s \in Known : \A b \in BOOLEAN : LET t == [s EXCEPT !.win.inShowDesktopMode = b]
                                         IN  t \in Known /\ Alike(s, t)
  /\ \A s \in Known : \A b \in BOOLEAN : LET t == [s EXCEPT !.win.hiddenState = b]
                                         IN  t \in Known /\ Alike(s, t)
  /\ \A s \in Known : \A b \in BOOLEAN : LET t == [s EXCEPT !.win.shadedState = b]
                                         IN  t \in Known /\ Alike(s, t)
  /\ \A s \in Known : \A d \in Desktops : LET t == [s EXCEPT !.win.desktop = d]
                                          IN  t \in Known /\ Alike(s, t)
<1>1. \A s \in Known : \A b \in BOOLEAN : Alike(s, [s EXCEPT !.win.minimized = b])
  BY DEF Known, Windows, Alike, SameBut, SameView
<1>2. \A s \in Known : \A b \in BOOLEAN : Alike(s, [s EXCEPT !.win.hidden = b])
  BY DEF Known, Windows, Alike, SameBut, SameView
<1>3. \A s \in Known : \A b \in BOOLEAN : Alike(s, [s EXCEPT !.win.inShowDesktopMode = b])
  BY DEF Known, Windows, Alike, SameBut, SameView
<1>4. \A s \in Known : \A b \in BOOLEAN : Alike(s, [s EXCEPT !.win.hiddenState = b])
  BY DEF Known, Windows, Alike, SameBut, SameView
<1>5. \A s \in Known : \A b \in BOOLEAN : Alike(s, [s EXCEPT !.win.shadedState = b])
  BY DEF Known, Windows, Alike, SameBut, SameView
<1>6. \A s \in Known : \A d \in Desktops : Alike(s, [s EXCEPT !.win.desktop = d])
  BY DEF Known, Windows, Alike, SameBut, SameView
<1>7. \A s \in Known : \A b \in BOOLEAN :
         /\ [s EXCEPT !.win.minimized = b] \in Known
         /\ [s EXCEPT !.win.hidden = b] \in Known
         /\ [s EXCEPT !.win.inShowDesktopMode = b] \in Known
         /\ [s EXCEPT !.win.hiddenState = b] \in Known
         /\ [s EXCEPT !.win.shadedState = b] \in Known
  BY KnownUpdated, WindowUpdated
<1>8. \A s \in Known : \A d \in Desktops : [s EXCEPT !.win.desktop = d] \in Known
  BY KnownUpdated, WindowUpdated
<1> QED
  BY <1>1, <1>2, <1>3, <1>4, <1>5, <1>6, <1>7, <1>8

LEMMA TwoInARow ==
  ASSUME NEW a \in Events, NEW b \in Events
  PROVE  Append(<<a>>, b) = <<a, b>>
<1> DEFINE q == <<a>>
           t == <<a, b>>
<1>1. Len(q) = 1
  OBVIOUS
<1>2. q \in Seq(Events) /\ q[1] = a
  OBVIOUS
<1>3. t \in Seq(Events)
  OBVIOUS
<1>4. Len(t) = 2 /\ t[1] = a /\ t[2] = b
  OBVIOUS
<1> HIDE DEF q, t
<1>5. /\ Append(q, b) \in Seq(Events) /\ Len(Append(q, b)) = Len(q) + 1
      /\ Append(q, b)[Len(q) + 1] = b /\ \A i \in 1 .. Len(q) : Append(q, b)[i] = q[i]
  BY <1>2
<1>6. \A i \in 1 .. 2 : Append(q, b)[i] = t[i]
  BY <1>1, <1>2, <1>4, <1>5
<1>7. Append(q, b) = t
  BY <1>1, <1>3, <1>4, <1>5, <1>6, SeqEqual
<1> QED
  BY <1>7 DEF q, t

(* A queue that is heard out says whether the client window is mapped.     *)
LEMMA NothingUnderWay ==
  ASSUME NEW s, Sound(s), s.server.events = <<>>
  PROVE  Heard(s) <=> s.server.client
BY Typed, StoryOfNothing DEF Sound, View, Heard

(* An operation that shows the window, and one that hides it.              *)
Shows(s, t) ==
    /\ Sound(t) /\ t.win.managed = s.win.managed
    /\ Poised(s) => Poised(t)

Hides(s, t) ==
    /\ Sound(t) /\ t.win.managed = s.win.managed
    /\ Poised(s) => Poised(t) \/ Hiding(t)
    /\ Poised(s) /\ ~ s.server.client => Poised(t)

LEMMA ShowShows ==
  ASSUME NEW s, Sound(s)
  PROVE  Shows(s, Show(s))
<1> DEFINE t == Show(s)
<1>1. s \in Known /\ View(s)
  BY DEF Sound
<1>2. /\ t \in Known /\ View(t)
      /\ t.win.managed = s.win.managed /\ t.win.pendingUnmaps = s.win.pendingUnmaps
      /\ \/ /\ SameBut(s, t)
            /\ t.win.serverFrame = s.win.serverFrame
            /\ t.server.wrapper = s.server.wrapper
            /\ t.server.frame = s.server.frame \/ t.server.frame = s.win.serverFrame
         \/ Shown(s, t)
  BY <1>1, ShowDoes
<1> HIDE DEF t
<1>3. s.server.client \in BOOLEAN /\ t.server.client \in BOOLEAN
  BY <1>1, <1>2, Typed
<1>4. ASSUME Poised(s) PROVE Poised(t)
  <2>1. CASE /\ SameBut(s, t)
             /\ t.win.serverFrame = s.win.serverFrame
             /\ t.server.wrapper = s.server.wrapper
             /\ t.server.frame = s.server.frame \/ t.server.frame = s.win.serverFrame
    BY <1>4, <2>1 DEF Poised, SameBut, SameView, Framed, Heard
  <2>2. CASE Shown(s, t)
    <3>1. CASE s.server.client /\ s.server.events = <<>>
      BY <1>1, <1>2, <1>4, <2>2, <3>1, NothingUnderWay DEF Poised, Shown, Framed, Heard
    <3>2. CASE s.server.client /\ s.server.events # <<>>
      BY <1>4, <2>2, <3>2 DEF Poised, Shown
    <3>3. CASE ~ s.server.client
      <4>1. s.server.events = <<>> /\ Append(<<>>, "MapNotify") = <<"MapNotify">>
        BY <1>4, <3>3 DEF Poised
      <4> QED
        BY <2>2, <3>3, <4>1 DEF Poised, Shown
    <3> QED
      BY <3>1, <3>2, <3>3
  <2> QED
    BY <1>2, <2>1, <2>2
<1> QED
  BY <1>2, <1>4 DEF Shows, Sound, t

LEMMA HideHides ==
  ASSUME NEW s, Sound(s)
  PROVE  Hides(s, Hide(s))
<1> DEFINE t == Hide(s)
<1>1. s \in Known /\ View(s)
  BY DEF Sound
<1>2. /\ t \in Known /\ View(t)
      /\ t.win.managed = s.win.managed /\ t.win.pendingMaps = s.win.pendingMaps
      /\ t.win.viewable = s.win.viewable /\ t.kept = s.kept
      /\ \/ /\ t.server.client = s.server.client
            /\ t.server.events = s.server.events
            /\ s.server.client /\ (s.win.viewable \/ s.win.pendingMaps) => t = s
         \/ /\ s.server.client /\ ~ t.server.client
            /\ t.server.events = Append(s.server.events, "UnmapNotify")
            /\ t.win.pendingUnmaps > 0
  BY <1>1, HideDoes
<1> HIDE DEF t
<1>3. Sound(t)
  BY <1>2 DEF Sound
<1>4. ASSUME Poised(s) PROVE Poised(t) \/ Hiding(t)
  <2>1. CASE s.server.events = <<>>
    <3>1. Heard(s) <=> s.server.client
      BY <2>1, NothingUnderWay
    <3>2. CASE t.server.events = <<>>
      <4>1. Heard(t) <=> t.server.client
        BY <1>3, <3>2, NothingUnderWay
      <4>2. <<>> # Append(<<>>, "UnmapNotify")
        OBVIOUS
      <4> QED
        BY <1>2, <1>4, <2>1, <3>1, <3>2, <4>1, <4>2 DEF Poised, Heard
    <3>3. CASE t.server.events # <<>>
      <4>1. Append(<<>>, "UnmapNotify") = <<"UnmapNotify">> /\ <<>> # <<"MapNotify">>
        OBVIOUS
      <4> QED
        BY <1>2, <1>4, <2>1, <3>1, <3>3, <4>1 DEF Poised, Hiding
    <3> QED
      BY <3>2, <3>3
  <2>2. CASE s.server.events # <<>>
    <3>1. Append(<<"MapNotify">>, "UnmapNotify") = <<"MapNotify", "UnmapNotify">>
      BY TwoInARow DEF Events
    <3> QED
      BY <1>2, <1>4, <2>2, <3>1 DEF Poised, Hiding
  <2> QED
    BY <2>1, <2>2
<1>5. ASSUME Poised(s), ~ s.server.client PROVE Poised(t)
  <2>1. t.server.events = <<>> /\ ~ t.server.client
    BY <1>2, <1>5 DEF Poised
  <2>2. ~ Heard(t)
    BY <1>3, <2>1, NothingUnderWay
  <2> QED
    BY <2>1, <2>2 DEF Poised
<1> QED
  BY <1>2, <1>3, <1>4, <1>5 DEF Hides, t

(* The operations that are made of show () and hide ()                     *)

LEMMA ShowingOn ==
  ASSUME NEW s, NEW t, NEW u, Shows(s, t), Shows(t, u)
  PROVE  Shows(s, u)
BY DEF Shows

LEMMA ShowingIsNoHarm ==
  ASSUME NEW s, NEW t, Shows(s, t)
  PROVE  Hides(s, t)
BY DEF Shows, Hides

LEMMA FlagAndShow ==
  ASSUME NEW s, NEW t \in Known, Sound(s), Alike(s, t)
  PROVE  Shows(s, t) /\ Shows(s, Show(t)) /\ Hides(s, Hide(t))
<1>1. Shows(s, t) /\ Sound(t) /\ t.server.client = s.server.client
  BY AlikeIsSound DEF Shows, Alike, SameBut
<1>2. Shows(t, Show(t)) /\ Hides(t, Hide(t))
  BY <1>1, ShowShows, HideHides
<1> QED
  BY <1>1, <1>2 DEF Shows, Hides

LEMMA Restoring ==
  ASSUME NEW s, Sound(s)
  PROVE  /\ Shows(s, Unminimize(s))
         /\ Shows(s, LeaveShowDesktopMode(s))
         /\ Shows(s, ShowItsDesktop(s))
<1>1. Shows(s, s) /\ s \in Known
  BY DEF Shows, Sound
<1>2. Shows(s, Unminimize(s))
  <2>1. LET t == [s EXCEPT !.win.minimized = FALSE] IN t \in Known /\ Alike(s, t)
    BY <1>1, FlagSet
  <2> QED
    BY <1>1, <2>1, FlagAndShow DEF Unminimize
<1>3. Shows(s, LeaveShowDesktopMode(s))
  <2>1. LET t == [s EXCEPT !.win.inShowDesktopMode = FALSE] IN t \in Known /\ Alike(s, t)
    BY <1>1, FlagSet
  <2> QED
    BY <1>1, <2>1, FlagAndShow DEF LeaveShowDesktopMode
<1>4. Shows(s, ShowItsDesktop(s))
  <2>1. LET t == [s EXCEPT !.win.desktop = "current"] IN t \in Known /\ Alike(s, t)
    BY <1>1, FlagSet, DesktopsAssumption
  <2>2. Shows(s, ShowOrHideForDesktop(s, "current"))
    BY <2>1, FlagAndShow DEF ShowOrHideForDesktop
  <2> QED
    BY <1>1, <2>2 DEF ShowItsDesktop
<1> QED
  BY <1>2, <1>3, <1>4

LEMMA PuttingAway ==
  ASSUME NEW s, Sound(s)
  PROVE  /\ Hides(s, Minimize(s))
         /\ Hides(s, UpdateAttributes(s))
         /\ \A d \in Desktops : Hides(s, ShowOrHideForDesktop(s, d))
<1>1. Shows(s, s) /\ s \in Known
  BY DEF Shows, Sound
<1>2. Hides(s, s)
  BY <1>1, ShowingIsNoHarm
<1>3. Hides(s, Minimize(s))
  <2>1. LET t == [s EXCEPT !.win.minimized = TRUE] IN t \in Known /\ Alike(s, t)
    BY <1>1, FlagSet
  <2> QED
    BY <1>2, <2>1, FlagAndShow DEF Minimize
<1>4. Hides(s, UpdateAttributes(s))
  <2>1. Hides(s, Hide(s)) /\ Shows(s, Show(s))
    BY HideHides, ShowShows
  <2>2. Hides(s, Show(s))
    BY <2>1, ShowingIsNoHarm
  <2> QED
    BY <1>2, <2>1, <2>2 DEF UpdateAttributes
<1>5. ASSUME NEW d \in Desktops PROVE Hides(s, ShowOrHideForDesktop(s, d))
  <2> DEFINE t == [s EXCEPT !.win.desktop = d]
  <2>1. t \in Known /\ Alike(s, t)
    BY <1>1, FlagSet
  <2> HIDE DEF t
  <2>2. Hides(s, Hide(t)) /\ Shows(s, Show(t))
    BY <2>1, FlagAndShow
  <2>3. Hides(s, Show(t))
    BY <2>2, ShowingIsNoHarm
  <2> QED
    BY <2>2, <2>3 DEF ShowOrHideForDesktop, t
<1> QED
  BY <1>3, <1>4, <1>5

LEMMA ManagedNow ==
  ASSUME NEW s, Sound(s)
  PROVE  LET t == [s EXCEPT !.win.managed = TRUE]
         IN  /\ Sound(t) /\ t.win.managed /\ t.server = s.server
             /\ SameView(s, t)
             /\ t.win.serverFrame = s.win.serverFrame
             /\ t.win.pendingUnmaps = s.win.pendingUnmaps
             /\ Poised(s) => Poised(t)
             /\ Hiding(s) => Hiding(t)
<1> DEFINE t == [s EXCEPT !.win.managed = TRUE]
<1>1. s \in Known /\ t \in Known
  BY KnownUpdated, WindowUpdated DEF Sound
<1>2. /\ SameView(s, t) /\ t.win.managed = TRUE /\ t.server = s.server
      /\ t.win.serverFrame = s.win.serverFrame /\ t.win.pendingMaps = s.win.pendingMaps
      /\ t.win.pendingUnmaps = s.win.pendingUnmaps
  BY <1>1 DEF Known, Windows, SameView
<1>3. Sound(t)
  <2> HIDE DEF t
  <2> QED
    BY <1>1, <1>2, ViewOfSame DEF Sound
<1> HIDE DEF t
<1>4. (Poised(s) => Poised(t)) /\ (Hiding(s) => Hiding(t))
  BY <1>2 DEF Poised, Hiding, Framed, Heard, SameView
<1> QED
  BY <1>2, <1>3, <1>4 DEF t

LEMMA ProcessMapDoes ==
  ASSUME NEW s, Sound(s), NEW iconic \in BOOLEAN, NEW focus \in BOOLEAN
  PROVE  LET t == ProcessMap(s, iconic, focus)
         IN  /\ Sound(t) /\ t.win.managed
             /\ s.server.events = <<>> /\ ~ s.server.client => Poised(t) \/ Hiding(t)
<1> DEFINE initiallyMinimized == iconic /\ ~ s.win.minimized
           framed   == IF initiallyMinimized THEN s ELSE Reparent(s)
           first    == [framed EXCEPT !.win.managed = TRUE]
           managed  == UpdateAttributes(first)
           open     == IF initiallyMinimized THEN managed ELSE Unminimize(managed)
           restored == LeaveShowDesktopMode(open)
           here     == IF focus THEN ShowItsDesktop(restored) ELSE restored
           small    == Minimize(restored)
           t        == IF initiallyMinimized THEN [small EXCEPT !.win.hiddenState = TRUE]
                       ELSE IF here.win.hiddenState THEN here ELSE Show(here)
           calm     == s.server.events = <<>> /\ ~ s.server.client
<1>1. ProcessMap(s, iconic, focus) = t
  BY DEF ProcessMap
<1>2. /\ Sound(framed) /\ framed.server.client = s.server.client
      /\ framed.server.events = s.server.events
  <2>1. s \in Known /\ View(s)
    BY DEF Sound
  <2>2. Reparent(s) \in Known /\ SameView(s, Reparent(s))
    BY <2>1, FrameMade DEF SameBut
  <2>3. View(Reparent(s))
    BY <2>1, <2>2, ViewOfSame
  <2> QED
    BY <2>1, <2>2, <2>3 DEF Sound, SameView
<1> HIDE DEF framed
<1>3. /\ Sound(first) /\ first.win.managed /\ first.server = framed.server
  BY <1>2, ManagedNow
<1> HIDE DEF first
<1>4. calm => Poised(first) /\ ~ first.server.client
  <2>1. SUFFICES ASSUME calm
                 PROVE  Poised(first) /\ ~ first.server.client
    OBVIOUS
  <2>2. first.server.events = <<>> /\ ~ first.server.client
    BY <1>2, <1>3, <2>1
  <2>3. ~ Heard(first)
    BY <1>3, <2>2, NothingUnderWay
  <2> QED
    BY <2>2, <2>3 DEF Poised
<1>5. Hides(first, managed)
  BY <1>3, PuttingAway
<1> HIDE DEF managed, calm
<1>6. /\ Sound(managed) /\ managed.win.managed
      /\ calm => Poised(managed)
  BY <1>3, <1>4, <1>5 DEF Hides
<1>7. Shows(managed, open)
  BY <1>6, Restoring DEF Shows
<1> HIDE DEF open
<1>8. Shows(open, restored)
  BY <1>7, Restoring DEF Shows
<1> HIDE DEF restored
<1>9. /\ Sound(restored) /\ restored.win.managed
      /\ calm => Poised(restored)
  BY <1>6, <1>7, <1>8 DEF Shows
<1>10. CASE initiallyMinimized
  <2>1. Hides(restored, small)
    BY <1>9, PuttingAway
  <2> HIDE DEF small
  <2>2. small \in Known /\ Sound(small)
    BY <2>1 DEF Hides, Sound
  <2>3. LET u == [small EXCEPT !.win.hiddenState = TRUE] IN u \in Known /\ Alike(small, u)
    BY <2>2, FlagSet
  <2>4. t = [small EXCEPT !.win.hiddenState = TRUE]
    BY <1>10
  <2> HIDE DEF t
  <2>5. /\ Sound(t) /\ (Poised(small) => Poised(t)) /\ (Hiding(small) => Hiding(t))
        /\ t.win.managed = small.win.managed
    BY <2>2, <2>3, <2>4, AlikeIsSound DEF Alike, SameBut
  <2> QED
    BY <1>1, <1>9, <2>1, <2>5 DEF Hides, calm
<1>11. CASE ~ initiallyMinimized
  <2>1. Shows(restored, here)
    BY <1>9, Restoring DEF Shows
  <2> HIDE DEF here
  <2>2. Sound(here)
    BY <2>1 DEF Shows
  <2>3. Shows(here, t)
    BY <1>11, <2>2, ShowShows DEF Shows
  <2> HIDE DEF t
  <2> QED
    BY <1>1, <1>9, <2>1, <2>3 DEF Shows, calm
<1> QED
  BY <1>10, <1>11

(* What an action of a user or a plugin does, however many times it shows  *)
(* the window before it hides it.                                          *)
Acts(s, t) ==
    /\ Sound(t) /\ t.win.managed = s.win.managed
    /\ Poised(s) => Poised(t) \/ Hiding(t)

LEMMA ShowThenAct ==
  ASSUME NEW s, NEW t, NEW u, Shows(s, t)
  PROVE  /\ Acts(s, t)
         /\ Hides(t, u) => Acts(s, u)
BY DEF Shows, Hides, Acts

LEMMA HideActs ==
  ASSUME NEW s, NEW t, Hides(s, t)
  PROVE  Acts(s, t)
BY DEF Hides, Acts

LEMMA ActivateDoes ==
  ASSUME NEW s, Sound(s)
  PROVE  LET shown == LeaveShowDesktopMode(Unminimize(ShowItsDesktop(s)))
             bare  == [shown EXCEPT !.win.shadedState = FALSE]
             last  == IF bare.win.shaded THEN Show(bare) ELSE bare
         IN  /\ Acts(s, UpdateAttributes(shown))
             /\ Acts(s, last)
             /\ Acts(s, UpdateAttributes(last))
<1> DEFINE d == ShowItsDesktop(s)
           m == Unminimize(d)
           shown == LeaveShowDesktopMode(m)
           bare  == [shown EXCEPT !.win.shadedState = FALSE]
           last  == IF bare.win.shaded THEN Show(bare) ELSE bare
<1>1. Shows(s, d)
  BY Restoring
<1> HIDE DEF d
<1>2. Shows(d, m)
  BY <1>1, Restoring DEF Shows
<1> HIDE DEF m
<1>3. Shows(m, shown)
  BY <1>2, Restoring DEF Shows
<1> HIDE DEF shown
<1>4. Shows(s, shown)
  BY <1>1, <1>2, <1>3, ShowingOn
<1>5. bare \in Known /\ Alike(shown, bare) /\ Sound(shown)
  BY <1>4, FlagSet DEF Shows, Sound
<1> HIDE DEF bare
<1>6. Shows(shown, bare) /\ Shows(shown, Show(bare))
  BY <1>5, FlagAndShow
<1>7. Shows(shown, last)
  BY <1>6
<1> HIDE DEF last
<1>8. Shows(s, last)
  BY <1>4, <1>7, ShowingOn
<1>9. Hides(shown, UpdateAttributes(shown)) /\ Hides(last, UpdateAttributes(last))
  BY <1>4, <1>8, PuttingAway DEF Shows
<1>10. /\ Acts(s, UpdateAttributes(shown))
       /\ Acts(s, last) /\ Acts(s, UpdateAttributes(last))
  BY <1>4, <1>8, <1>9, ShowThenAct
<1> QED
  BY <1>10 DEF d, m, shown, bare, last

-----------------------------------------------------------------------------
(* The events                                                              *)

LEMMA UnderstoodDoes ==
  ASSUME NEW s \in Known, NEW synthetic \in BOOLEAN
  PROVE  LET t == Understood(s, synthetic)
         IN  /\ t \in Known /\ t.server = s.server /\ t.kept = s.kept
             /\ t.win.unmapRefCnt = s.win.unmapRefCnt
             /\ t.win.viewable = s.win.viewable
             /\ t.win.wmState = "Normal" => synthetic /\ s.win.wmState = "Normal"
             /\ s.win.pendingUnmaps > 0 => t.win.managed = s.win.managed
<1> DEFINE counted == [s EXCEPT !.win.wmState = "Iconic", !.win.pendingUnmaps = @ - 1]
           shown   == [s EXCEPT !.win.minimized = FALSE, !.win.hiddenState = FALSE]
<1>1. /\ counted \in Known \/ ~ s.win.pendingUnmaps > 0
      /\ shown \in Known
  <2>1. "Iconic" \in States /\ s.win \in Windows
    BY KnownUpdated DEF States
  <2>2. s.win.pendingUnmaps > 0 => counted \in Known
    <3> DEFINE w == [s.win EXCEPT !.wmState = "Iconic"]
    <3>1. w \in Windows /\ w.pendingUnmaps = s.win.pendingUnmaps
      BY <2>1, WindowUpdated DEF Windows
    <3>2. s.win.pendingUnmaps > 0 => [w EXCEPT !.pendingUnmaps = @ - 1] \in Windows
      <4> HIDE DEF w
      <4> QED
        BY <3>1, WindowUpdated
    <3> QED
      BY <3>1, <3>2, KnownUpdated DEF w
  <2>3. shown \in Known
    BY KnownUpdated, WindowUpdated
  <2> QED
    BY <2>2, <2>3
<1>2. \A u \in Known :
         /\ Withdraw(u) \in Known
         /\ Withdraw(u).server = u.server /\ Withdraw(u).kept = u.kept
         /\ Withdraw(u).win.unmapRefCnt = u.win.unmapRefCnt
         /\ Withdraw(u).win.viewable = u.win.viewable
         /\ Withdraw(u).win.wmState = "Withdrawn"
  <2> TAKE u \in Known
  <2>1. Withdraw(u) \in Known
    BY Typed, KnownUpdated, WindowUpdated DEF Withdraw, States
  <2> QED
    BY <2>1 DEF Withdraw, Known, Windows
<1>3. /\ counted.server = s.server /\ counted.kept = s.kept
      /\ counted.win.unmapRefCnt = s.win.unmapRefCnt
      /\ counted.win.viewable = s.win.viewable /\ counted.win.wmState = "Iconic"
      /\ counted.win.managed = s.win.managed
      /\ shown.server = s.server /\ shown.kept = s.kept
      /\ shown.win.unmapRefCnt = s.win.unmapRefCnt
      /\ shown.win.viewable = s.win.viewable
  BY DEF Known, Windows
<1>4. Understood(s, synthetic) =
        IF s.win.pendingUnmaps > 0 THEN counted
        ELSE IF s.win.hiddenState THEN Withdraw(shown)
        ELSE IF synthetic THEN s ELSE Withdraw(s)
  BY DEF Understood
<1> HIDE DEF counted, shown
<1> QED
  BY <1>1, <1>2, <1>3, <1>4

LEMMA EventRead ==
  ASSUME NEW s, Sound(s), s.server.events # <<>>
  PROVE  LET t == [s EXCEPT !.server.events = Tail(@)]
         IN  /\ t \in Known /\ t.win = s.win /\ t.kept = s.kept
             /\ t.server.client = s.server.client
             /\ t.server.frame = s.server.frame /\ t.server.wrapper = s.server.wrapper
             /\ t.server.events = Tail(s.server.events)
             /\ t.server.events \in Seq(Events)
<1>1. s \in Known /\ s.server.events \in Seq(Events) /\ Tail(s.server.events) \in Seq(Events)
  BY Typed DEF Sound
<1>2. [s EXCEPT !.server.events = Tail(@)] \in Known
  BY <1>1, KnownUpdated, ServerUpdated
<1> QED
  BY <1>1, <1>2 DEF Known, Servers

(* What was under way in a calm queue is under way but for its head.       *)
LEMMA CalmTails ==
  /\ Tail(<<"MapRequest">>) = <<>> /\ Tail(<<"MapNotify">>) = <<>>
  /\ Tail(<<"UnmapNotify">>) = <<>> /\ Tail(<<"SyntheticUnmap">>) = <<>>
  /\ Tail(<<"MapNotify", "UnmapNotify">>) = <<"UnmapNotify">>
  /\ Tail(<<"UnmapNotify", "SyntheticUnmap">>) = <<"SyntheticUnmap">>
  /\ Head(<<"MapRequest">>) = "MapRequest" /\ Head(<<"MapNotify">>) = "MapNotify"
  /\ Head(<<"UnmapNotify">>) = "UnmapNotify" /\ Head(<<"SyntheticUnmap">>) = "SyntheticUnmap"
  /\ Head(<<"MapNotify", "UnmapNotify">>) = "MapNotify"
  /\ Head(<<"UnmapNotify", "SyntheticUnmap">>) = "UnmapNotify"
OBVIOUS

(* What handling an event does to what is known and to a calm queue.       *)
Handles(s, t) ==
    /\ Sound(t)
    /\ Calm(s) => Calm(t)
    /\ Calm(s) /\ s.win.managed /\ ~ t.win.managed
          => \E i \in DOMAIN s.server.events : s.server.events[i] = "SyntheticUnmap"

LEMMA RequestHandled ==
  ASSUME NEW s, Sound(s), NEW iconic \in BOOLEAN, NEW focus \in BOOLEAN, NEW process \in BOOLEAN,
         s.server.events # <<>>, Head(s.server.events) = "MapRequest"
  PROVE  LET r == [s EXCEPT !.server.events = Tail(@)]
         IN  Handles(s, [(IF process THEN ProcessMap(r, iconic, focus) ELSE r)
                             EXCEPT !.win.managed = TRUE])
<1> DEFINE r == [s EXCEPT !.server.events = Tail(@)]
           u == IF process THEN ProcessMap(r, iconic, focus) ELSE r
           t == [u EXCEPT !.win.managed = TRUE]
<1>1. /\ r \in Known /\ r.win = s.win /\ r.kept = s.kept
      /\ r.server.client = s.server.client
      /\ r.server.events = Tail(s.server.events)
  BY EventRead
<1> HIDE DEF r
<1>2. /\ s \in Known /\ View(s) /\ s.server.events \in Seq(Events)
      /\ s.server.client \in BOOLEAN /\ Heard(s) \in BOOLEAN
  BY Typed DEF Sound, Heard
<1>3. Story(Tail(s.server.events), Heard(s), s.server.client)
  BY <1>2, StoryIsRead DEF View, Told
<1>4. Sound(r)
  BY <1>1, <1>2, <1>3 DEF Sound, View, RefsCounted, Heard
<1>5. Calm(s) => r.server.events = <<>> /\ ~ r.server.client
  BY <1>1, CalmTails DEF Calm, Poised, Hiding
<1>6. Calm(s) => Poised(r)
  BY <1>4, <1>5, NothingUnderWay DEF Poised
<1>7. Sound(u) /\ (Calm(s) => Poised(u) \/ Hiding(u))
  BY <1>4, <1>5, <1>6, ProcessMapDoes
<1> HIDE DEF u
<1>8. /\ Sound(t) /\ t.win.managed
      /\ Poised(u) => Poised(t)
      /\ Hiding(u) => Hiding(t)
  BY <1>7, ManagedNow
<1> HIDE DEF t
<1>9. Handles(s, t)
  BY <1>7, <1>8 DEF Handles, Calm
<1> QED
  BY <1>9 DEF t, u, r

LEMMA MapHandled ==
  ASSUME NEW s, Sound(s),
         s.server.events # <<>>, Head(s.server.events) = "MapNotify"
  PROVE  LET r == [s EXCEPT !.server.events = Tail(@)]
             framed == IF ~ r.win.pendingMaps THEN r
                       ELSE [Reparent(r) EXCEPT !.win.managed = TRUE]
         IN  Handles(s, Map(LetGo(framed)))
<1> DEFINE r == [s EXCEPT !.server.events = Tail(@)]
           p == Reparent(r)
           m == [p EXCEPT !.win.managed = TRUE]
           framed == IF ~ r.win.pendingMaps THEN r ELSE m
           free == LetGo(framed)
           t == Map(free)
<1>1. /\ r \in Known /\ r.win = s.win /\ r.kept = s.kept
      /\ r.server.client = s.server.client
      /\ r.server.frame = s.server.frame /\ r.server.wrapper = s.server.wrapper
      /\ r.server.events = Tail(s.server.events)
  BY EventRead
<1> HIDE DEF r
<1>2. /\ s \in Known /\ View(s) /\ s.server.events \in Seq(Events)
      /\ s.server.client \in BOOLEAN /\ Heard(s) \in BOOLEAN
  BY Typed DEF Sound, Heard
<1>3. ~ Heard(s) /\ Story(Tail(s.server.events), TRUE, s.server.client)
  BY <1>2, StoryIsRead DEF View
<1>4. /\ p \in Known /\ SameBut(r, p)
      /\ p.win.serverFrame /\ p.win.pendingUnmaps = r.win.pendingUnmaps
      /\ r.win.serverFrame => p = r
      /\ ~ r.win.serverFrame =>
            p.server.wrapper /\ p.server.frame = (r.server.client \/ r.win.shaded)
  BY <1>1, FrameMade
<1> HIDE DEF p
<1>5. /\ m \in Known /\ m.win.managed = TRUE /\ m.server = p.server
      /\ m.win.serverFrame = p.win.serverFrame
      /\ m.win.viewable = p.win.viewable /\ m.win.unmapRefCnt = p.win.unmapRefCnt
      /\ m.kept = p.kept /\ m.win.pendingUnmaps = p.win.pendingUnmaps
  <2>1. m \in Known
    BY <1>4, KnownUpdated, WindowUpdated
  <2> QED
    BY <1>4, <2>1 DEF Known, Windows
<1> HIDE DEF m
<1>6. /\ framed \in Known
      /\ framed.win.viewable = s.win.viewable /\ framed.win.unmapRefCnt = s.win.unmapRefCnt
      /\ framed.kept = s.kept /\ framed.win.pendingUnmaps = s.win.pendingUnmaps
      /\ framed.server.client = s.server.client
      /\ framed.server.events = Tail(s.server.events)
      /\ s.win.managed => framed.win.managed
  BY <1>1, <1>4, <1>5 DEF SameBut, SameView
<1>7. /\ s.win.pendingMaps /\ s.server.client
      /\ s.win.serverFrame => s.server.frame /\ s.server.wrapper
      => Framed(framed) /\ framed.win.managed
  BY <1>1, <1>4, <1>5 DEF Framed
<1> HIDE DEF framed
<1>8. RefsCounted(framed) /\ ~ Heard(framed)
  BY <1>2, <1>3, <1>6 DEF View, RefsCounted, Heard
<1>9. /\ free \in Known /\ free.kept = 0 /\ ~ free.win.viewable
      /\ free.win.managed = framed.win.managed
      /\ free.win.pendingUnmaps = framed.win.pendingUnmaps
      /\ free.server.client = framed.server.client
      /\ free.server.events = framed.server.events
      /\ framed.kept = 0 => free = framed
  BY <1>6, <1>8, LetGoDoes
<1> HIDE DEF free
<1>10. /\ t \in Known
       /\ t.win.viewable /\ t.kept = 0 /\ t.server = free.server
       /\ t.win.managed = free.win.managed /\ t.win.serverFrame = free.win.serverFrame
       /\ t.win.pendingUnmaps = free.win.pendingUnmaps
       /\ t.win.unmapRefCnt = 1 /\ t.win.wmState = "Normal"
  BY <1>9, MapDoes
<1> HIDE DEF t
<1>11. Sound(t)
  <2>1. Heard(t) = TRUE
    BY <1>10, Typed DEF Heard
  <2>2. Story(t.server.events, Heard(t), t.server.client)
    BY <1>3, <1>6, <1>9, <1>10, <2>1
  <2> QED
    BY <1>10, <2>1, <2>2 DEF Sound, View, RefsCounted
<1>12. ASSUME Calm(s) PROVE Calm(t) /\ (s.win.managed => t.win.managed)
  <2>1. CASE s.server.events = <<"MapNotify">>
    <3>1. /\ s.win.pendingMaps /\ s.server.client /\ s.kept = 0
          /\ s.win.serverFrame => s.server.frame /\ s.server.wrapper
      BY <1>12, <2>1, CalmTails DEF Calm, Poised, Hiding
    <3>2. Framed(t) /\ t.win.managed /\ t.server.events = <<>>
      BY <1>6, <1>7, <1>9, <1>10, <2>1, <3>1, CalmTails DEF Framed
    <3> QED
      BY <3>2 DEF Calm, Poised
  <2>2. CASE s.server.events # <<"MapNotify">>
    <3>1. s.server.events = <<"MapNotify", "UnmapNotify">> /\ Hiding(s)
      BY <1>12, <2>2, CalmTails DEF Calm, Poised, Hiding
    <3> QED
      BY <1>6, <1>9, <1>10, <3>1, CalmTails DEF Calm, Hiding
  <2> QED
    BY <2>1, <2>2
<1>13. Handles(s, t)
  BY <1>11, <1>12 DEF Handles
<1> QED
  BY <1>13 DEF t, free, framed, m, p, r

LEMMA UnmapHandled ==
  ASSUME NEW s, Sound(s), NEW keep \in Nat, s.kept + keep \in 0 .. MaxKept,
         s.server.events # <<>>, Head(s.server.events) = "UnmapNotify"
  PROVE  Handles(s, Unmap(Understood([s EXCEPT !.server.events = Tail(@)], FALSE), keep))
<1> DEFINE r == [s EXCEPT !.server.events = Tail(@)]
           u == Understood(r, FALSE)
           t == Unmap(u, keep)
<1>1. /\ r \in Known /\ r.win = s.win /\ r.kept = s.kept
      /\ r.server.client = s.server.client
      /\ r.server.events = Tail(s.server.events)
  BY EventRead
<1> HIDE DEF r
<1>2. /\ s \in Known /\ View(s) /\ s.server.events \in Seq(Events)
      /\ s.server.client \in BOOLEAN /\ Heard(s) \in BOOLEAN /\ s.kept \in Nat
  BY Typed, BoundsAssumption DEF Sound, Heard
<1>3. Heard(s) /\ Story(Tail(s.server.events), FALSE, s.server.client)
  BY <1>2, StoryIsRead DEF View
<1>4. /\ u \in Known /\ u.server = r.server /\ u.kept = r.kept
      /\ u.win.unmapRefCnt = r.win.unmapRefCnt
      /\ u.win.viewable = r.win.viewable
      /\ u.win.wmState # "Normal"
      /\ r.win.pendingUnmaps > 0 => u.win.managed = r.win.managed
  BY <1>1, UnderstoodDoes
<1> HIDE DEF u
<1>5. /\ u.win.unmapRefCnt = 1 /\ u.win.viewable /\ u.kept = 0 /\ u.kept + keep \in 0 .. MaxKept
  BY <1>1, <1>2, <1>3, <1>4 DEF View, RefsCounted, Heard
<1>6. /\ t \in Known
      /\ t.kept = u.kept + keep
      /\ t.win.unmapRefCnt = u.win.unmapRefCnt + keep - 1
      /\ t.win.wmState = u.win.wmState /\ t.win.managed = u.win.managed
      /\ t.server.client = u.server.client /\ t.server.events = u.server.events
      /\ IF t.win.unmapRefCnt > 0 THEN t.win.viewable = u.win.viewable
         ELSE t.win.viewable = FALSE
  BY <1>4, <1>5, UnmapDoes
<1> HIDE DEF t
<1>7. /\ t.kept = keep /\ t.win.unmapRefCnt = keep
  BY <1>5, <1>6
<1>8. Heard(t) = FALSE
  BY <1>6, <1>7 DEF Heard
<1>9. Sound(t)
  <2>1. RefsCounted(t)
    BY <1>5, <1>6, <1>7, <1>8 DEF RefsCounted
  <2>2. Story(t.server.events, Heard(t), t.server.client)
    BY <1>1, <1>3, <1>4, <1>6, <1>8
  <2> QED
    BY <1>4, <1>6, <1>8, <2>1, <2>2 DEF Sound, View
<1>10. /\ t.server.events = Tail(s.server.events) /\ t.server.client = s.server.client
       /\ s.win.pendingUnmaps > 0 => t.win.managed = s.win.managed
  BY <1>1, <1>4, <1>6
<1>11. ASSUME Calm(s)
       PROVE  /\ Calm(t)
              /\ s.win.managed /\ ~ t.win.managed
                    => \E i \in DOMAIN s.server.events : s.server.events[i] = "SyntheticUnmap"
  <2>1. CASE s.server.events = <<"UnmapNotify", "SyntheticUnmap">>
    <3>1. ~ s.server.client
      BY <1>11, <2>1, CalmTails DEF Calm, Poised, Hiding
    <3>2. 2 \in DOMAIN s.server.events /\ s.server.events[2] = "SyntheticUnmap"
      BY <2>1
    <3> QED
      BY <1>10, <2>1, <3>1, <3>2, CalmTails DEF Calm
  <2>2. CASE s.server.events # <<"UnmapNotify", "SyntheticUnmap">>
    <3>1. s.server.events = <<"UnmapNotify">> /\ Hiding(s)
      BY <1>11, <2>2, CalmTails DEF Calm, Poised, Hiding
    <3> QED
      BY <1>8, <1>10, <3>1, CalmTails DEF Calm, Poised, Hiding
  <2> QED
    BY <2>1, <2>2
<1>12. Handles(s, t)
  BY <1>9, <1>11 DEF Handles
<1> QED
  BY <1>12 DEF t, u, r

LEMMA SyntheticHandled ==
  ASSUME NEW s, Sound(s),
         s.server.events # <<>>, Head(s.server.events) = "SyntheticUnmap"
  PROVE  Handles(s, Understood([s EXCEPT !.server.events = Tail(@)], TRUE))
<1> DEFINE r == [s EXCEPT !.server.events = Tail(@)]
           t == Understood(r, TRUE)
<1>1. /\ r \in Known /\ r.win = s.win /\ r.kept = s.kept
      /\ r.server.client = s.server.client
      /\ r.server.events = Tail(s.server.events)
  BY EventRead
<1> HIDE DEF r
<1>2. /\ s \in Known /\ View(s) /\ s.server.events \in Seq(Events)
      /\ s.server.client \in BOOLEAN /\ Heard(s) \in BOOLEAN
  BY Typed DEF Sound, Heard
<1>3. ~ Heard(s) /\ Story(Tail(s.server.events), Heard(s), s.server.client)
  BY <1>2, StoryIsRead DEF View, Told
<1>4. /\ t \in Known /\ t.server = r.server /\ t.kept = r.kept
      /\ t.win.unmapRefCnt = r.win.unmapRefCnt
      /\ t.win.viewable = r.win.viewable
      /\ t.win.wmState = "Normal" => r.win.wmState = "Normal"
  BY <1>1, UnderstoodDoes
<1> HIDE DEF t
<1>5. Sound(t) /\ ~ Heard(t)
  BY <1>1, <1>2, <1>3, <1>4 DEF Sound, View, RefsCounted, Heard
<1>6. ASSUME Calm(s)
      PROVE  /\ Calm(t)
             /\ \E i \in DOMAIN s.server.events : s.server.events[i] = "SyntheticUnmap"
  <2>1. s.server.events = <<"SyntheticUnmap">>
    BY <1>6, CalmTails DEF Calm, Poised, Hiding
  <2>2. 1 \in DOMAIN s.server.events /\ s.server.events[1] = "SyntheticUnmap"
    BY <2>1
  <2>3. t.server.events = <<>>
    BY <1>1, <1>4, <2>1, CalmTails
  <2> QED
    BY <1>5, <2>2, <2>3 DEF Calm, Poised
<1>7. Handles(s, t)
  BY <1>5, <1>6 DEF Handles
<1> QED
  BY <1>7 DEF t, r

-----------------------------------------------------------------------------
(* Every step                                                              *)

(* What any step does; the queue stays calm when nobody acts before it has *)
(* been heard out.                                                         *)
Goes(s, t) ==
    /\ Sound(t)
    /\ MaxEvents <= 1 /\ Calm(s) =>
          /\ Calm(t)
          /\ s.win.managed /\ ~ t.win.managed
                => \E i \in DOMAIN s.server.events : s.server.events[i] = "SyntheticUnmap"

LEMMA RoomWhenCalm ==
  ASSUME NEW s, Sound(s), Len(s.server.events) < MaxEvents, MaxEvents <= 1, Calm(s)
  PROVE  s.server.events = <<>> /\ Poised(s)
<1>1. s.server.events \in Seq(Events)
  BY Typed DEF Sound
<1>2. s.server.events = <<>>
  BY <1>1, BoundsAssumption
<1>3. <<>> # <<"MapRequest">> /\ <<>> # <<"SyntheticUnmap">> /\ <<>> # <<"UnmapNotify">>
      /\ <<>> # <<"UnmapNotify", "SyntheticUnmap">> /\ <<>> # <<"MapNotify", "UnmapNotify">>
  OBVIOUS
<1> QED
  BY <1>2, <1>3 DEF Calm, Hiding

LEMMA ActGoes ==
  ASSUME NEW s, NEW t, Sound(s), Len(s.server.events) < MaxEvents, Acts(s, t)
  PROVE  Goes(s, t)
<1>1. s.win.managed \in BOOLEAN /\ t.win.managed = s.win.managed /\ Sound(t)
  BY Typed DEF Sound, Acts
<1>2. MaxEvents <= 1 /\ Calm(s) => Calm(t)
  BY RoomWhenCalm DEF Acts, Calm
<1> QED
  BY <1>1, <1>2 DEF Goes

LEMMA HandleGoes ==
  ASSUME NEW s, NEW t, Handles(s, t)
  PROVE  Goes(s, t)
BY DEF Handles, Goes

LEMMA NowIsKnown ==
  ASSUME TypeOK
  PROVE  Now \in Known
BY DEF TypeOK, Known, Now

LEMMA NowIsSound ==
  ASSUME MapInv
  PROVE  /\ Sound(Now)
         /\ Now.win = win /\ Now.server = server /\ Now.kept = kept
BY NowIsKnown DEF MapInv, Sound, Now

LEMMA Becomes ==
  ASSUME NEW t \in Known, Become(t)
  PROVE  Now' = t
BY DEF Become, Now, Known

LEMMA ClientActs ==
  ASSUME MapInv, ClientMap \/ ClientWithdraw
  PROVE  \E t : Become(t) /\ Goes(Now, t) /\ wanted' \in BOOLEAN
<1> DEFINE s == Now
<1>1. Sound(s) /\ s.server = server
  BY NowIsSound
<1>2. Len(s.server.events) < MaxEvents
  BY <1>1 DEF ClientMap, ClientWithdraw, Room
<1>3. /\ s \in Known /\ View(s) /\ s.server.events \in Seq(Events) /\ s.server.client \in BOOLEAN
      /\ s.win.managed \in BOOLEAN /\ Heard(s) \in BOOLEAN
  BY <1>1, Typed DEF Sound, Heard
<1> HIDE DEF s
<1>4. CASE ClientMap /\ server.client
  <2>1. Become(s) /\ wanted' \in BOOLEAN
    BY <1>4 DEF ClientMap, s
  <2>2. Goes(s, s)
    BY <1>1, <1>3 DEF Goes
  <2> QED
    BY <2>1, <2>2 DEF s
<1>5. CASE ClientMap /\ ~ server.client
  <2> DEFINE t == Queue(s, "MapRequest")
  <2>1. Become(t) /\ wanted' \in BOOLEAN
    BY <1>5 DEF ClientMap, s
  <2>2. t \in Known
    BY <1>3, Queued DEF Events
  <2>3. /\ t.win = s.win /\ t.kept = s.kept /\ t.server.client = s.server.client
        /\ t.server.events = Append(s.server.events, "MapRequest")
    BY <1>3 DEF Queue, Known, Servers
  <2> HIDE DEF t
  <2>4. Story(t.server.events, Heard(s), s.server.client)
    <3>1. "MapRequest" \in Events
      BY DEF Events
    <3> QED
      BY <1>3, <2>3, <3>1, StoryGoesOn DEF View
  <2>5. Sound(t)
    BY <1>3, <2>2, <2>3, <2>4 DEF Sound, View, RefsCounted, Heard
  <2>6. ASSUME MaxEvents <= 1, Calm(s) PROVE Calm(t)
    <3>1. s.server.events = <<>> /\ Append(<<>>, "MapRequest") = <<"MapRequest">>
      BY <1>1, <1>2, <2>6, RoomWhenCalm
    <3> QED
      BY <1>1, <1>5, <2>3, <3>1 DEF Calm
  <2>7. Goes(s, t)
    BY <1>3, <2>3, <2>5, <2>6 DEF Goes
  <2> QED
    BY <2>1, <2>7 DEF s
<1>6. CASE ClientWithdraw
  <2> DEFINE u == UnmapClient(s)
             t == Queue(u, "SyntheticUnmap")
  <2>1. Become(t) /\ wanted' \in BOOLEAN
    BY <1>6 DEF ClientWithdraw, s
  <2>2. /\ u \in Known /\ u.win = s.win /\ u.kept = s.kept /\ ~ u.server.client
        /\ u.server.events = IF s.server.client THEN Append(s.server.events, "UnmapNotify")
                             ELSE s.server.events
    BY <1>3, ClientUnmapped
  <2>3. View(u)
    BY <1>3, ViewOfClient
  <2> HIDE DEF u
  <2>4. t \in Known
    BY <2>2, Queued DEF Events
  <2>5. /\ t.win = u.win /\ t.kept = u.kept /\ t.server.client = u.server.client
        /\ t.server.events = Append(u.server.events, "SyntheticUnmap")
    BY <2>2 DEF Queue, Known, Servers
  <2> HIDE DEF t
  <2>6. Story(t.server.events, Heard(u), u.server.client)
    <3>1. /\ "SyntheticUnmap" \in Events /\ Heard(u) \in BOOLEAN
          /\ u.server.client \in BOOLEAN /\ u.server.events \in Seq(Events)
      BY <2>2, Typed DEF Events, Heard
    <3> QED
      BY <2>2, <2>3, <2>5, <3>1, StoryGoesOn DEF View
  <2>7. Sound(t)
    BY <2>2, <2>3, <2>4, <2>5, <2>6 DEF Sound, View, RefsCounted, Heard
  <2>8. ASSUME MaxEvents <= 1, Calm(s) PROVE Calm(t)
    <3>1. /\ s.server.events = <<>>
          /\ Append(<<>>, "UnmapNotify") = <<"UnmapNotify">>
          /\ Append(<<>>, "SyntheticUnmap") = <<"SyntheticUnmap">>
      BY <1>1, <1>2, <2>8, RoomWhenCalm
    <3>2. Append(<<"UnmapNotify">>, "SyntheticUnmap") = <<"UnmapNotify", "SyntheticUnmap">>
      BY TwoInARow DEF Events
    <3> QED
      BY <2>2, <2>5, <3>1, <3>2 DEF Calm
  <2>9. Goes(s, t)
    BY <1>3, <2>2, <2>5, <2>7, <2>8 DEF Goes
  <2> QED
    BY <2>1, <2>9 DEF s
<1> QED
  BY <1>4, <1>5, <1>6

LEMMA EventGoes ==
  ASSUME MapInv, Handle
  PROVE  \E t : Become(t) /\ Goes(Now, t) /\ wanted' \in BOOLEAN
<1> DEFINE s == Now
           r == [s EXCEPT !.server.events = Tail(@)]
<1>1. Sound(s) /\ s.server = server /\ s.win = win /\ s.kept = kept
  BY NowIsSound
<1>2. r = Received
  BY DEF Received
<1>3. wanted \in BOOLEAN /\ s.win.managed \in BOOLEAN /\ kept \in Nat
  BY <1>1, Typed, BoundsAssumption DEF MapInv, TypeOK, Sound
<1> HIDE DEF s
<1>4. ASSUME NEW iconic \in BOOLEAN, NEW focus \in BOOLEAN, HandleMapRequest(iconic, focus)
      PROVE  \E t : Become(t) /\ Goes(Now, t) /\ wanted' \in BOOLEAN
  <2> DEFINE process == r.win.hiddenState => r.win.minimized \/ r.win.inShowDesktopMode
             t == [(IF process THEN ProcessMap(r, iconic, focus) ELSE r)
                       EXCEPT !.win.managed = TRUE]
  <2>1. s.server.events # <<>> /\ Head(s.server.events) = "MapRequest"
    BY <1>1, <1>4 DEF HandleMapRequest, Arrives
  <2>2. Become(t) /\ wanted' \in BOOLEAN
    BY <1>2, <1>3, <1>4 DEF HandleMapRequest, Arrives
  <2>3. process \in BOOLEAN
    OBVIOUS
  <2>4. Handles(s, t)
    <3> HIDE DEF process
    <3> QED
      BY <1>1, <2>1, <2>3, RequestHandled
  <2>5. Goes(s, t)
    <3> HIDE DEF t
    <3> QED
      BY <2>4, HandleGoes
  <2> HIDE DEF t
  <2> QED
    BY <2>2, <2>5 DEF s
<1>5. CASE HandleMapNotify
  <2> DEFINE framed == IF ~ r.win.pendingMaps THEN r
                       ELSE [Reparent(r) EXCEPT !.win.managed = TRUE]
             t == Map(LetGo(framed))
  <2>1. s.server.events # <<>> /\ Head(s.server.events) = "MapNotify"
    BY <1>1, <1>5 DEF HandleMapNotify, Arrives
  <2>2. Become(t) /\ wanted' \in BOOLEAN
    BY <1>2, <1>3, <1>5 DEF HandleMapNotify, Arrives
  <2>3. Handles(s, t)
    BY <1>1, <2>1, MapHandled
  <2> HIDE DEF t
  <2> QED
    BY <2>2, <2>3, HandleGoes DEF s
<1>6. ASSUME NEW keep \in 0 .. MaxKept, HandleUnmapNotify(keep)
      PROVE  \E t : Become(t) /\ Goes(Now, t) /\ wanted' \in BOOLEAN
  <2> DEFINE t == Unmap(Understood(r, FALSE), keep)
  <2>1. /\ s.server.events # <<>> /\ Head(s.server.events) = "UnmapNotify"
        /\ keep \in Nat /\ s.kept + keep \in 0 .. MaxKept
    BY <1>1, <1>3, <1>6, BoundsAssumption DEF HandleUnmapNotify, Arrives
  <2>2. Become(t) /\ wanted' \in BOOLEAN
    BY <1>2, <1>3, <1>6 DEF HandleUnmapNotify, Arrives
  <2>3. Handles(s, t)
    BY <1>1, <2>1, UnmapHandled
  <2> HIDE DEF t
  <2> QED
    BY <2>2, <2>3, HandleGoes DEF s
<1>7. CASE HandleSyntheticUnmap
  <2> DEFINE t == Understood(r, TRUE)
  <2>1. s.server.events # <<>> /\ Head(s.server.events) = "SyntheticUnmap"
    BY <1>1, <1>7 DEF HandleSyntheticUnmap, Arrives
  <2>2. Become(t) /\ wanted' \in BOOLEAN
    BY <1>2, <1>3, <1>7 DEF HandleSyntheticUnmap, Arrives
  <2>3. Handles(s, t)
    BY <1>1, <2>1, SyntheticHandled
  <2> HIDE DEF t
  <2> QED
    BY <2>2, <2>3, HandleGoes DEF s
<1> QED
  BY <1>4, <1>5, <1>6, <1>7 DEF Handle

LEMMA PluginGoes ==
  ASSUME MapInv, PluginLetsGo
  PROVE  \E t : Become(t) /\ Goes(Now, t) /\ wanted' \in BOOLEAN
<1> DEFINE s == Now
           t == LetGo(s)
<1>1. Sound(s) /\ s.server = server /\ s.kept = kept
  BY NowIsSound
<1>2. Become(t) /\ wanted' \in BOOLEAN /\ s.kept > 0
  BY <1>1 DEF PluginLetsGo, MapInv, TypeOK
<1> HIDE DEF s
<1>3. /\ s \in Known /\ View(s) /\ RefsCounted(s) /\ Heard(s) \in BOOLEAN
      /\ s.win.managed \in BOOLEAN
  BY <1>1, Typed DEF Sound, View, Heard
<1>4. /\ t \in Known /\ t.win.wmState = s.win.wmState /\ RefsCounted(t)
      /\ t.kept = 0 /\ (t.win.viewable <=> Heard(s))
      /\ t.win.managed = s.win.managed /\ t.win.pendingUnmaps = s.win.pendingUnmaps
      /\ t.server.client = s.server.client /\ t.server.events = s.server.events
  BY <1>3, LetGoDoes
<1> HIDE DEF t
<1>5. Heard(s) = FALSE /\ Heard(t) = FALSE
  BY <1>2, <1>4 DEF Heard
<1>6. Sound(t)
  BY <1>3, <1>4, <1>5 DEF Sound, View
<1>7. Calm(s) => Calm(t)
  BY <1>2, <1>4, <1>5 DEF Calm, Poised, Hiding
<1>8. Goes(s, t)
  BY <1>3, <1>4, <1>6, <1>7 DEF Goes
<1> QED
  BY <1>2, <1>8 DEF s

LEMMA OperationGoes ==
  ASSUME MapInv, NEW operation, NEW t, Operate(operation, t), Acts(Now, t)
  PROVE  \E u : Become(u) /\ Goes(Now, u) /\ wanted' \in BOOLEAN
<1>1. Sound(Now) /\ Len(Now.server.events) < MaxEvents
  BY NowIsSound DEF Operate, Room
<1>2. Goes(Now, t)
  BY <1>1, ActGoes
<1> QED
  BY <1>2 DEF Operate, MapInv, TypeOK

LEMMA UserGoes ==
  ASSUME MapInv,
         \/ MinimizeWindow \/ UnminimizeWindow \/ HideWindow \/ ShowWindow
         \/ EnterShowDesktop \/ LeaveShowDesktop \/ ToggleShade \/ Activate
         \/ \E d \in Desktops : SetDesktop(d) \/ SetCurrentDesktop(d)
  PROVE  \E t : Become(t) /\ Goes(Now, t) /\ wanted' \in BOOLEAN
<1> DEFINE s == Now
           on(t) == \E operation : Operate(operation, t)
<1>1. Sound(s) /\ s \in Known /\ s.win = win
  BY NowIsSound DEF Sound
<1>2. \A t : on(t) /\ Acts(s, t) => \E u : Become(u) /\ Goes(s, u) /\ wanted' \in BOOLEAN
  BY OperationGoes
<1>3. ASSUME NEW t \in Known, Alike(s, t)
      PROVE  Acts(s, Show(t)) /\ Acts(s, Hide(t)) /\ Acts(s, UpdateAttributes(t))
  <2>1. Shows(s, t) /\ Shows(s, Show(t)) /\ Hides(s, Hide(t))
    BY <1>1, <1>3, FlagAndShow
  <2>2. Hides(t, UpdateAttributes(t))
    BY <2>1, PuttingAway DEF Shows
  <2> QED
    BY <2>1, <2>2, ShowThenAct, HideActs
<1> HIDE DEF s, on
<1>4. CASE MinimizeWindow
  <2>1. on(Minimize(s)) /\ Acts(s, Minimize(s))
    BY <1>1, <1>4, PuttingAway, HideActs DEF MinimizeWindow, on, s
  <2> QED
    BY <1>2, <2>1 DEF s
<1>5. CASE UnminimizeWindow
  <2>1. on(Unminimize(s)) /\ Acts(s, Unminimize(s))
    BY <1>1, <1>5, Restoring, ShowThenAct DEF UnminimizeWindow, on, s
  <2> QED
    BY <1>2, <2>1 DEF s
<1>6. CASE HideWindow
  <2> DEFINE t == [s EXCEPT !.win.hidden = TRUE]
  <2>1. on(Hide(t))
    BY <1>6 DEF HideWindow, on, s
  <2>2. t \in Known /\ Alike(s, t)
    BY <1>1, FlagSet
  <2> HIDE DEF t
  <2>3. Acts(s, Hide(t))
    BY <1>3, <2>2
  <2> QED
    BY <1>2, <2>1, <2>3 DEF s
<1>7. CASE ShowWindow
  <2> DEFINE t == [s EXCEPT !.win.hidden = FALSE]
  <2>1. on(Show(t))
    BY <1>7 DEF ShowWindow, on, s
  <2>2. t \in Known /\ Alike(s, t)
    BY <1>1, FlagSet
  <2> HIDE DEF t
  <2>3. Acts(s, Show(t))
    BY <1>3, <2>2
  <2> QED
    BY <1>2, <2>1, <2>3 DEF s
<1>8. CASE EnterShowDesktop
  <2> DEFINE t == [s EXCEPT !.win.inShowDesktopMode = TRUE]
  <2>1. on(Hide(t))
    BY <1>8 DEF EnterShowDesktop, on, s
  <2>2. t \in Known /\ Alike(s, t)
    BY <1>1, FlagSet
  <2> HIDE DEF t
  <2>3. Acts(s, Hide(t))
    BY <1>3, <2>2
  <2> QED
    BY <1>2, <2>1, <2>3 DEF s
<1>9. CASE LeaveShowDesktop
  <2>1. on(LeaveShowDesktopMode(s)) /\ Acts(s, LeaveShowDesktopMode(s))
    BY <1>1, <1>9, Restoring, ShowThenAct DEF LeaveShowDesktop, on, s
  <2> QED
    BY <1>2, <2>1 DEF s
<1>10. CASE ToggleShade
  <2> DEFINE t == [s EXCEPT !.win.shadedState = ~ @]
  <2>1. on(UpdateAttributes(t))
    BY <1>10 DEF ToggleShade, on, s
  <2>2. t \in Known /\ Alike(s, t)
    <3>1. (~ s.win.shadedState) \in BOOLEAN
      OBVIOUS
    <3> QED
      BY <1>1, <3>1, FlagSet
  <2> HIDE DEF t
  <2>3. Acts(s, UpdateAttributes(t))
    BY <1>3, <2>2
  <2> QED
    BY <1>2, <2>1, <2>3 DEF s
<1>11. CASE Activate
  <2> DEFINE shown == LeaveShowDesktopMode(Unminimize(ShowItsDesktop(s)))
             bare  == [shown EXCEPT !.win.shadedState = FALSE]
             last  == IF bare.win.shaded THEN Show(bare) ELSE bare
             t == IF ~ shown.win.hiddenState THEN UpdateAttributes(shown)
                  ELSE IF last.win.hiddenState \/ ~ OnCurrentDesktop(last.win)
                       THEN last ELSE UpdateAttributes(last)
  <2>1. on(t)
    BY <1>11 DEF Activate, on, s
  <2>2. Acts(s, UpdateAttributes(shown)) /\ Acts(s, last) /\ Acts(s, UpdateAttributes(last))
    BY <1>1, ActivateDoes
  <2> HIDE DEF shown, last
  <2>3. Acts(s, t)
    BY <2>2
  <2> HIDE DEF t
  <2> QED
    BY <1>2, <2>1, <2>3 DEF s
<1>12. ASSUME NEW d \in Desktops, SetDesktop(d) \/ SetCurrentDesktop(d)
       PROVE  \E t : Become(t) /\ Goes(Now, t) /\ wanted' \in BOOLEAN
  <2> DEFINE t == ShowOrHideForDesktop(s, d)
  <2>1. on(t)
    BY <1>12 DEF SetDesktop, SetCurrentDesktop, on, s
  <2>2. Acts(s, t)
    BY <1>1, PuttingAway, HideActs
  <2> HIDE DEF t
  <2> QED
    BY <1>2, <2>1, <2>2 DEF s
<1> QED
  BY <1>4, <1>5, <1>6, <1>7, <1>8, <1>9, <1>10, <1>11, <1>12

LEMMA NextGoes ==
  ASSUME MapInv, Next
  PROVE  MapInv' /\ Goes(Now, Now')
<1>1. PICK t : Become(t) /\ Goes(Now, t) /\ wanted' \in BOOLEAN
  BY ClientActs, EventGoes, PluginGoes, UserGoes DEF Next
<1>2. t \in Known /\ View(t)
  BY <1>1 DEF Goes, Sound
<1>3. Now' = t
  BY <1>1, <1>2, Becomes
<1>4. View(Now)'
  BY <1>2, <1>3 DEF View, RefsCounted, Heard, Now
<1>5. TypeOK'
  BY <1>1, <1>2 DEF TypeOK, Become, Known
<1> QED
  BY <1>1, <1>3, <1>4, <1>5 DEF MapInv

-----------------------------------------------------------------------------
(* The initial states                                                      *)

LEMMA AdoptedIsSound ==
  ASSUME NEW client \in BOOLEAN, NEW hidden \in BOOLEAN, NEW state \in {"Withdrawn", "Iconic"}
  PROVE  Sound(Adopted(client, state, hidden)) /\ Calm(Adopted(client, state, hidden))
<1> DEFINE found  == [win    |-> [Created EXCEPT !.wmState = state],
                      server |-> [client |-> client, frame |-> FALSE,
                                  wrapper |-> FALSE, events |-> <<>>],
                      kept   |-> 0]
           made   == Reparent(found)
           framed == [made EXCEPT !.win.managed = TRUE]
           asked  == [framed EXCEPT !.win.minimized   = (state = "Iconic"),
                                    !.win.pendingMaps = TRUE]
           shown  == Map(asked)
           away   == [framed EXCEPT !.win.minimized = hidden, !.win.hiddenState = hidden]
           off    == [shown EXCEPT !.win.hiddenState   = TRUE,
                                   !.win.pendingUnmaps = 1,
                                   !.server.frame      = FALSE]
<1>1. Adopted(client, state, hidden) =
        CASE ~ client /\ state # "Iconic" -> found
          [] ~ client /\ state = "Iconic" -> away
          [] client /\ state # "Iconic" -> shown
          [] client /\ state = "Iconic" -> UnmapClient(off)
  BY DEF Adopted
<1>2. /\ found \in Known /\ ~ found.win.viewable /\ found.kept = 0
      /\ found.win.wmState = state /\ found.server.client = client
      /\ found.server.events = <<>>
  <2>1. <<>> \in Seq(Events) /\ 0 \in 0 .. MaxKept
    BY BoundsAssumption
  <2>2. [Created EXCEPT !.wmState = state] \in Windows
    <3>1. Created \in Windows
      BY DesktopsAssumption DEF Created, Windows, States
    <3> QED
      BY <3>1, WindowUpdated DEF States
  <2> QED
    BY <2>1, <2>2 DEF Known, Servers, Created
<1> HIDE DEF found
<1>3. /\ made \in Known /\ SameBut(found, made) /\ made.win.serverFrame
      /\ client => Framed(made)
  <2>1. /\ made \in Known /\ SameBut(found, made) /\ made.win.serverFrame
        /\ found.win.serverFrame => made = found
        /\ ~ found.win.serverFrame =>
              made.server.wrapper /\ made.server.frame = (found.server.client \/ found.win.shaded)
    BY <1>2, FrameMade
  <2>2. found.win.serverFrame = FALSE
    BY DEF found, Created
  <2> QED
    BY <1>2, <2>1, <2>2 DEF Framed
<1> HIDE DEF made
<1>4. /\ framed \in Known /\ framed.win.managed = TRUE /\ framed.kept = 0
      /\ ~ framed.win.viewable /\ framed.win.wmState = state
      /\ framed.win.serverFrame = made.win.serverFrame /\ framed.server = made.server
      /\ framed.server.client = client /\ framed.server.events = <<>>
  <2>1. framed \in Known
    BY <1>3, KnownUpdated, WindowUpdated
  <2> QED
    BY <1>2, <1>3, <2>1 DEF Known, Windows, SameBut, SameView
<1> HIDE DEF framed
<1>5. /\ asked \in Known /\ asked.win.managed = TRUE /\ asked.kept = 0
      /\ ~ asked.win.viewable
      /\ asked.win.serverFrame = framed.win.serverFrame /\ asked.server = framed.server
  <2>1. asked \in Known
    BY <1>4, KnownUpdated, WindowUpdated
  <2> QED
    BY <1>4, <2>1 DEF Known, Windows
<1> HIDE DEF asked
<1>6. /\ shown \in Known /\ shown.win.viewable /\ shown.kept = 0
      /\ shown.server = framed.server
      /\ shown.win.managed /\ shown.win.serverFrame = framed.win.serverFrame
      /\ shown.win.unmapRefCnt = 1 /\ shown.win.wmState = "Normal"
  BY <1>5, MapDoes
<1> HIDE DEF shown
<1>7. /\ away \in Known /\ away.kept = 0 /\ ~ away.win.viewable
      /\ away.win.wmState = state /\ away.server = framed.server
  <2>1. away \in Known
    BY <1>4, KnownUpdated, WindowUpdated
  <2> QED
    BY <1>4, <2>1 DEF Known, Windows
<1> HIDE DEF away
<1>8. /\ off \in Known /\ off.win.viewable /\ off.kept = 0 /\ off.win.pendingUnmaps = 1
      /\ off.server.client = framed.server.client /\ off.server.events = <<>>
      /\ off.win.managed /\ off.win.unmapRefCnt = 1 /\ off.win.wmState = "Normal"
  <2>1. off \in Known
    <3>1. \A w \in Windows : [w EXCEPT !.pendingUnmaps = 1] \in Windows
      BY DEF Windows
    <3> QED
      BY <1>6, <3>1, KnownUpdated, WindowUpdated, ServerUpdated
  <2> QED
    BY <1>4, <1>6, <2>1 DEF Known, Windows, Servers
<1> HIDE DEF off
<1>9. ASSUME NEW t \in Known, t.kept = 0, t.server.events = <<>>,
             t.win.viewable <=> t.server.client,
             t.win.viewable => t.win.unmapRefCnt = 1,
             t.win.viewable <=> t.win.wmState = "Normal"
      PROVE  Sound(t)
  <2>1. Story(<<>>, Heard(t), t.server.client)
    <3>1. Heard(t) \in BOOLEAN /\ t.server.client \in BOOLEAN
      BY <1>9, Typed DEF Heard
    <3>2. Heard(t) <=> t.server.client
      BY <1>9 DEF Heard
    <3> QED
      BY <3>1, <3>2, StoryOfNothing
  <2> QED
    BY <1>9, <2>1 DEF Sound, View, RefsCounted, Heard
<1>10. CASE ~ client /\ state # "Iconic"
  <2>1. Sound(found) /\ Calm(found)
    BY <1>2, <1>9, <1>10 DEF Calm, Poised, Heard
  <2> QED
    BY <1>1, <1>10, <2>1
<1>11. CASE ~ client /\ state = "Iconic"
  <2>1. Sound(away) /\ Calm(away)
    BY <1>4, <1>7, <1>9, <1>11 DEF Calm, Poised, Heard
  <2> QED
    BY <1>1, <1>11, <2>1
<1>12. CASE client /\ state # "Iconic"
  <2>1. Sound(shown)
    BY <1>4, <1>6, <1>9, <1>12
  <2>2. Calm(shown)
    BY <1>3, <1>4, <1>6, <1>12 DEF Calm, Poised, Framed
  <2> QED
    BY <1>1, <1>12, <2>1, <2>2
<1>13. CASE client /\ state = "Iconic"
  <2> DEFINE t == UnmapClient(off)
  <2>1. Sound(off)
    BY <1>4, <1>8, <1>9, <1>13
  <2>2. Sound(t)
    BY <2>1, ClientUnmapped, ViewOfClient DEF Sound
  <2>3. t.win = off.win /\ t.server.events = <<"UnmapNotify">>
    <3>1. Append(<<>>, "UnmapNotify") = <<"UnmapNotify">>
      OBVIOUS
    <3>2. off.server.client
      BY <1>4, <1>8, <1>13
    <3>3. t.win = off.win /\ t.server.events = Append(off.server.events, "UnmapNotify")
      BY <1>8, <3>2, ClientUnmapped
    <3> QED
      BY <1>8, <3>1, <3>3
  <2> HIDE DEF t
  <2>4. Calm(t)
    BY <1>8, <2>3 DEF Calm, Hiding
  <2> QED
    BY <1>1, <1>13, <2>2, <2>4 DEF t
<1> QED
  BY <1>10, <1>11, <1>12, <1>13

LEMMA InitIsSound ==
  ASSUME Init
  PROVE  MapInv /\ Calm(Now)
<1>1. PICK client \in BOOLEAN, hidden \in BOOLEAN, state \in {"Withdrawn", "Iconic"} :
        LET s == Adopted(client, state, hidden)
        IN  /\ win = s.win /\ server = s.server /\ kept = s.kept
            /\ wanted = (client \/ state = "Iconic")
  BY DEF Init
<1> DEFINE s == Adopted(client, state, hidden)
<1>2. Sound(s) /\ Calm(s)
  BY AdoptedIsSound
<1>3. /\ win = s.win /\ server = s.server /\ kept = s.kept
      /\ wanted \in BOOLEAN
  BY <1>1
<1> HIDE DEF s
<1>4. Now = s
  BY <1>2, <1>3 DEF Now, Sound, Known
<1>5. TypeOK
  BY <1>2, <1>3, KnownUpdated DEF TypeOK, Sound
<1> QED
  BY <1>2, <1>4, <1>5 DEF MapInv, Sound

-----------------------------------------------------------------------------
(* The theorems                                                            *)

(* The state keeps its types and the view its story.                       *)
THEOREM MapInvariant == Spec => []MapInv
<1>1. Init => MapInv
  BY InitIsSound
<1>2. MapInv /\ [Next]_vars => MapInv'
  <2>1. SUFFICES ASSUME MapInv, [Next]_vars
                 PROVE  MapInv'
    OBVIOUS
  <2>2. CASE Next
    BY <2>1, <2>2, NextGoes
  <2>3. CASE UNCHANGED vars
    BY <2>1, <2>3 DEF vars, MapInv, TypeOK, Now, View, RefsCounted, Heard
  <2> QED
    BY <2>1, <2>2, <2>3
<1> QED
  BY <1>1, <1>2, PTL DEF Spec

(* Every variable keeps its type, the record of the window included.       *)
THEOREM MapStaysTyped == Spec => []TypeOK
<1>1. MapInv => TypeOK
  BY DEF MapInv
<1> QED
  BY <1>1, MapInvariant, PTL

(* However client, user, plugins and late events overlap, and however many *)
(* of them there are, once all is heard the window is taken for viewable   *)
(* exactly when its client window is mapped.                               *)
THEOREM ViewFollowsServer == Spec => []ViewAgrees
<1>1. MapInv => ViewAgrees
  <2>1. SUFFICES ASSUME MapInv, Settled
                 PROVE  win.viewable <=> server.client
    BY DEF ViewAgrees
  <2>2. Sound(Now) /\ Now.win = win /\ Now.server = server /\ Now.kept = kept
    BY <2>1, NowIsSound
  <2> QED
    BY <2>1, <2>2, NothingUnderWay DEF Settled, Heard
<1> QED
  BY <1>1, MapInvariant, PTL

(* Likewise the WM_STATE of a managed window is Normal exactly when it is  *)
(* viewable.                                                               *)
THEOREM WmStateFollowsView == Spec => []WmStateAgrees
<1>1. MapInv => WmStateAgrees
  BY DEF MapInv, View, Heard, Now, WmStateAgrees, Settled
<1> QED
  BY <1>1, MapInvariant, PTL

(* When nobody acts before compiz has handled what there is, the queue     *)
(* never holds more than one thing that was asked for.                     *)
THEOREM StaysCalm ==
  ASSUME MaxEvents <= 1
  PROVE  Spec => [](MapInv /\ Calm(Now))
<1>1. Init => MapInv /\ Calm(Now)
  BY InitIsSound
<1>2. MapInv /\ Calm(Now) /\ [Next]_vars => (MapInv /\ Calm(Now))'
  <2>1. SUFFICES ASSUME MapInv, Calm(Now), [Next]_vars
                 PROVE  MapInv' /\ Calm(Now)'
    OBVIOUS
  <2>2. CASE Next
    <3>1. MapInv' /\ Calm(Now')
      BY <2>1, <2>2, NextGoes DEF Goes
    <3> QED
      BY <3>1 DEF Calm, Poised, Hiding, Framed, Heard, Now
  <2>3. CASE UNCHANGED vars
    BY <2>1, <2>3
    DEF vars, MapInv, TypeOK, Now, View, RefsCounted, Heard, Calm, Poised, Hiding, Framed
  <2> QED
    BY <2>1, <2>2, <2>3
<1> QED
  BY <1>1, <1>2, PTL DEF Spec

(* A window that can be seen has its frame, frame and wrapper mapped: for  *)
(* one request at a time, as MCWindowMap_frame shows it fails otherwise.   *)
THEOREM SeenIsFramed ==
  ASSUME MaxEvents <= 1
  PROVE  Spec => []FrameAgrees
<1>1. MapInv /\ Calm(Now) => FrameAgrees
  <2>1. SUFFICES ASSUME MapInv, Calm(Now), Settled, win.viewable
                 PROVE  win.serverFrame /\ server.frame /\ server.wrapper
    BY DEF FrameAgrees
  <2>2. Now.win = win /\ Now.server = server /\ Now.kept = kept
    BY DEF Now
  <2>3. Now.server.events = <<>> /\ Heard(Now)
    BY <2>1, <2>2 DEF Settled, Heard
  <2>4. /\ <<>> # <<"MapRequest">> /\ <<>> # <<"SyntheticUnmap">> /\ <<>> # <<"UnmapNotify">>
        /\ <<>> # <<"UnmapNotify", "SyntheticUnmap">> /\ <<>> # <<"MapNotify", "UnmapNotify">>
        /\ <<>> # <<"MapNotify">>
    OBVIOUS
  <2>5. Framed(Now)
    BY <2>1, <2>3, <2>4 DEF Calm, Poised, Hiding
  <2> QED
    BY <2>2, <2>5 DEF Framed
<1> QED
  BY <1>1, StaysCalm, PTL

(* A window that is not managed is off the screen once all is heard.       *)
THEOREM UnmanagedIsOff ==
  ASSUME MaxEvents <= 1
  PROVE  Spec => []WithdrawnOff
<1>1. MapInv /\ Calm(Now) => WithdrawnOff
  <2>1. SUFFICES ASSUME MapInv, Calm(Now), Settled, win.viewable
                 PROVE  win.managed
    BY DEF WithdrawnOff
  <2>2. Now.win = win /\ Now.server = server /\ Now.kept = kept
    BY DEF Now
  <2>3. Now.server.events = <<>> /\ Heard(Now)
    BY <2>1, <2>2 DEF Settled, Heard
  <2>4. /\ <<>> # <<"MapRequest">> /\ <<>> # <<"SyntheticUnmap">> /\ <<>> # <<"UnmapNotify">>
        /\ <<>> # <<"UnmapNotify", "SyntheticUnmap">> /\ <<>> # <<"MapNotify", "UnmapNotify">>
        /\ <<>> # <<"MapNotify">>
    OBVIOUS
  <2> QED
    BY <2>1, <2>2, <2>3, <2>4 DEF Calm, Poised, Hiding
<1> QED
  BY <1>1, StaysCalm, PTL

(* compiz takes no unmap of its own for a withdrawal: it stops managing a  *)
(* window only while the client's synthetic UnmapNotify is on its way.     *)
THEOREM OnlyItsClientWithdraws ==
  ASSUME MaxEvents <= 1
  PROVE  Spec => OnlyClientWithdraws
<1>1. MapInv /\ Calm(Now) /\ [Next]_vars
        => [win.managed /\ ~ win'.managed
              => \E i \in DOMAIN server.events : server.events[i] = "SyntheticUnmap"]_vars
  <2>1. SUFFICES ASSUME MapInv, Calm(Now), Next, win.managed, ~ win'.managed
                 PROVE  \E i \in DOMAIN server.events : server.events[i] = "SyntheticUnmap"
    OBVIOUS
  <2>2. Goes(Now, Now')
    BY <2>1, NextGoes
  <2>3. /\ Now.win = win /\ Now.server = server
        /\ (Now').win = win'
    BY DEF Now
  <2> QED
    BY <2>1, <2>2, <2>3 DEF Goes
<1> QED
  BY <1>1, StaysCalm, PTL DEF Spec, OnlyClientWithdraws
=============================================================================
