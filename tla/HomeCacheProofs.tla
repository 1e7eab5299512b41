--------------------------- MODULE HomeCacheProofs ---------------------------
(***************************************************************************)
(* For any processes, stores, sections and times: a cached home page that  *)
(* lags behind a watched row is about to be deleted or was overtaken.      *)
(*                                                                         *)
(* StaleOnlyIfOvertaken is not inductive: a visit carries what it read to  *)
(* the cache.  HomeInv says the same of visits, section by section.        *)
(***************************************************************************)
EXTENDS HomeCache, TLAPS

(* The sections a visit has read. *)
Seen(p) == {s \in Section : \E i \in 1 .. Len(Sections) :
                              i < job[p].next /\ Sections[i] = s}

Pending(c) == \E p \in Process : storeOf[p] = c /\ Editing(p, "committed")

VisitOvertaken ==
    \A p \in Process : Visiting(p) =>
        \A s \in Watched \cap Seen(p) :
            \/ job[p].page[s].version = row[s]
            \/ job[p].overtaken
            \/ Pending(storeOf[p])

HomeInv == TypeOK /\ VisitOvertaken /\ StaleOnlyIfOvertaken

LEMMA SectionFacts ==
    /\ Len(Sections) \in Nat
    /\ \A i \in 1 .. Len(Sections) : Sections[i] \in Section
    /\ Stalest \in Nat
    /\ Blank \in Page
  BY SectionsAssumption, TimeAssumption, BoundAssumption
     DEF Section, Stalest, Blank, Page, Reading

(* What is in a store, or being read, has the shape its kind says. *)
LEMMA Shapes ==
    ASSUME TypeOK
    PROVE  /\ \A c \in Store : Cached(c) => cache[c] \in Payload
           /\ \A p \in Process : Visiting(p) => job[p] \in Visit
           /\ \A p \in Process : job[p].kind = "edit" => job[p] \in Edit
  BY DEF TypeOK, Cached, Visiting, Empty, Idle, Visit, Edit

(* Time makes no version of a page change. *)
LEMMA OlderKeeps ==
    ASSUME TypeOK, NEW page \in Page
    PROVE  /\ Older(page) \in Page
           /\ \A s \in Section : Older(page)[s].version = page[s].version
  BY SectionFacts DEF Older, Page, Reading, TypeOK

THEOREM HomeTypeCorrect == Spec => []TypeOK
<1>1. Init => TypeOK
  BY SectionFacts, BoundAssumption DEF Init, TypeOK
<1>2. TypeOK /\ [Next]_vars => TypeOK'
  <2> SUFFICES ASSUME TypeOK, [Next]_vars
               PROVE  TypeOK'
    OBVIOUS
  <2> USE SectionFacts, BoundAssumption, TimeAssumption
  <2>1. CASE Tick
    <3>1. cache' \in [Store -> {Empty} \cup Payload]
      <4> SUFFICES ASSUME NEW c \in Store, Cached(c), ~Expired(cache[c].age)
                   PROVE  [cache[c] EXCEPT !.age = IF @ < TTL THEN @ + 1 ELSE @,
                                           !.page = Older(@)] \in Payload
        BY <2>1 DEF Tick, TypeOK
      <4>1. cache[c] \in Payload
        BY Shapes
      <4>2. Older(cache[c].page) \in Page
        BY <4>1, OlderKeeps DEF Payload
      <4> DEFINE age == IF cache[c].age < TTL THEN cache[c].age + 1 ELSE cache[c].age
      <4>3. age \in 0 .. TTL
        <5>1. cache[c].age \in 0 .. TTL
          BY <4>1 DEF Payload
        <5> QED BY <5>1
      <4>4. [cache[c] EXCEPT !.age = age, !.page = Older(cache[c].page)] \in Payload
        <5> HIDE DEF age
        <5> QED BY <4>1, <4>2, <4>3 DEF Payload
      <4> QED BY <4>4
    <3>2. job' \in [Process -> {Idle} \cup Visit \cup Edit]
      <4> SUFFICES ASSUME NEW p \in Process, Visiting(p)
                   PROVE  [job[p] EXCEPT !.age = @ + 1, !.page = Older(@)] \in Visit
        BY <2>1 DEF Tick, TypeOK
      <4>1. job[p] \in Visit /\ job[p].age < Timeout
        BY <2>1, Shapes DEF Tick
      <4>2. Older(job[p].page) \in Page
        BY <4>1, OlderKeeps DEF Visit
      <4>3. job[p].age + 1 \in 0 .. Timeout
        BY <4>1 DEF Visit
      <4> DEFINE age == job[p].age + 1
                 page == Older(job[p].page)
      <4>4. [job[p] EXCEPT !.age = age, !.page = page] \in Visit
        <5>1. age \in 0 .. Timeout /\ page \in Page
          BY <4>2, <4>3
        <5> HIDE DEF age, page
        <5> QED BY <4>1, <5>1 DEF Visit
      <4> QED BY <4>4
    <3> QED BY <2>1, <3>1, <3>2 DEF Tick, TypeOK
  <2>2. ASSUME NEW p \in Process, Miss(p) PROVE TypeOK'
    BY <2>2 DEF Miss, TypeOK, Visit
  <2>3. ASSUME NEW p \in Process, Read(p) PROVE TypeOK'
    <3>1. job[p] \in Visit
      BY <2>3, Shapes DEF Read
    <3> DEFINE s == Sections[job[p].next]
               new == [version |-> row[s], behind |-> 0]
    <3>2. s \in Section /\ new \in Reading
      BY <2>3, <3>1 DEF Read, Visit, TypeOK, Reading
    <3>3. [job[p].page EXCEPT ![s] = new] \in Page
      BY <3>1, <3>2 DEF Visit, Page
    <3>4. [job[p] EXCEPT !.next = @ + 1, !.page[s] = new] \in Visit
      <4> DEFINE next == job[p].next + 1
                 page == [job[p].page EXCEPT ![s] = new]
      <4>1. next \in 1 .. Len(Sections) + 1 /\ page \in Page
        BY <2>3, <3>1, <3>3 DEF Read, Visit
      <4>2. [job[p] EXCEPT !.next = next, !.page = page] \in Visit
        <5> HIDE DEF next, page
        <5> QED BY <3>1, <4>1 DEF Visit
      <4> QED BY <4>2
    <3> QED BY <2>3, <3>4 DEF Read, TypeOK
  <2>4. ASSUME NEW p \in Process, Put(p) PROVE TypeOK'
    <3>1. job[p] \in Visit
      BY <2>4, Shapes DEF Put
    <3>2. Stored(p, 0) \in Payload
      BY <3>1 DEF Stored, Payload, Visit
    <3> HIDE DEF Stored
    <3> QED BY <2>4, <3>2 DEF Put, TypeOK
  <2>5. ASSUME NEW p \in Process, Begin(p) PROVE TypeOK'
    BY <2>5 DEF Begin, TypeOK, Edit
  <2>6. ASSUME NEW p \in Process, Write(p) PROVE TypeOK'
    <3>1. job[p] \in Edit
      BY <2>6, Shapes DEF Write, Editing
    <3> QED BY <2>6, <3>1 DEF Write, TypeOK, Edit
  <2>7. ASSUME NEW p \in Process, Commit(p) PROVE TypeOK'
    <3>1. job[p] \in Edit
      BY <2>7, Shapes DEF Commit, Editing
    <3>2. row' \in [Section -> 0 .. MaxEdits]
      BY <2>7, <3>1 DEF Commit, Edit, TypeOK
    <3>3. cache' \in [Store -> {Empty} \cup Payload]
      BY <2>7, Shapes DEF Commit, Excuse, TypeOK, Payload
    <3>4. job' \in [Process -> {Idle} \cup Visit \cup Edit]
      <4>1. AfterCommit(p) \in {Idle} \cup Edit
        BY <3>1 DEF AfterCommit, Edit
      <4>2. \A q \in Process : Overtake(q) \in {Idle} \cup Visit \cup Edit
        BY Shapes DEF Overtake, Visit, TypeOK
      <4> QED BY <2>7, <4>1, <4>2 DEF Commit, TypeOK
    <3> QED BY <2>7, <3>2, <3>3, <3>4 DEF Commit, TypeOK
  <2>8. ASSUME NEW p \in Process, Rollback(p) PROVE TypeOK'
    BY <2>8 DEF Rollback, TypeOK
  <2>9. ASSUME NEW p \in Process, Invalidate(p) PROVE TypeOK'
    <3>1. job[p] \in Edit
      BY <2>9, Shapes DEF Invalidate, Editing
    <3>2. [job[p] EXCEPT !.at = "again"] \in Edit
      BY <3>1 DEF Edit
    <3>3. \A q \in Process : Overtake(q) \in {Idle} \cup Visit \cup Edit
      BY Shapes DEF Overtake, Visit, TypeOK
    <3> QED BY <2>9, <3>2, <3>3 DEF Invalidate, Drop, TypeOK
  <2>10. ASSUME NEW p \in Process, Lose(p) PROVE TypeOK'
    <3>1. Excuse(storeOf[p]) \in {Empty} \cup Payload
      BY Shapes DEF Excuse, Payload, TypeOK
    <3>2. \A q \in Process : Overtake(q) \in {Idle} \cup Visit \cup Edit
      BY Shapes DEF Overtake, Visit, TypeOK
    <3> QED BY <2>10, <3>1, <3>2 DEF Lose, TypeOK
  <2>11. CASE UNCHANGED vars
    BY <2>11 DEF vars, TypeOK
  <2> QED
    BY <2>1, <2>2, <2>3, <2>4, <2>5, <2>6, <2>7, <2>8, <2>9, <2>10, <2>11
       DEF Next, VisitNext, EditNext
<1> QED BY <1>1, <1>2, PTL DEF Spec

(* Whoever is about to delete a payload still is, unless it is its step. *)
LEMMA PendingStays ==
    ASSUME NEW p \in Process, NEW c \in Store, Pending(c),
           UNCHANGED storeOf,
           ~(Editing(p, "committed") /\ storeOf[p] = c),
           \A q \in Process : q # p /\ Editing(q, "committed")
                                => Editing(q, "committed")'
    PROVE  Pending(c)'
  BY DEF Pending, Editing

(* HomeCache's reason for every lag: signals.py, home.py. *)
THEOREM LagIsExplained == Spec => []StaleOnlyIfOvertaken
<1>1. Init => HomeInv
  <2> SUFFICES ASSUME Init PROVE HomeInv
    OBVIOUS
  <2>1. TypeOK
    BY SectionFacts, BoundAssumption DEF Init, TypeOK
  <2>2. VisitOvertaken /\ StaleOnlyIfOvertaken
    BY <2>1 DEF Init, VisitOvertaken, StaleOnlyIfOvertaken, Visiting, Cached, Idle, Empty, TypeOK
  <2> QED BY <2>1, <2>2 DEF HomeInv
<1>2. TypeOK' /\ HomeInv /\ [Next]_vars => HomeInv'
  <2> SUFFICES ASSUME TypeOK', HomeInv, [Next]_vars
               PROVE  VisitOvertaken' /\ StaleOnlyIfOvertaken'
    BY DEF HomeInv
  <2> USE SectionFacts DEF HomeInv
  <2>1. CASE Tick
    <3>1. \A c \in Store : Pending(c)' <=> Pending(c)
      <4>1. \A p \in Process : Editing(p, "committed")' <=> Editing(p, "committed")
        <5> SUFFICES ASSUME NEW p \in Process
                     PROVE  Editing(p, "committed")' <=> Editing(p, "committed")
          OBVIOUS
        <5>1. CASE Visiting(p)
          <6>1. job[p] \in Visit
            BY <5>1, Shapes
          <6> QED BY <2>1, <5>1, <6>1 DEF Tick, Editing, Visiting, Visit, TypeOK
        <5>2. CASE ~Visiting(p)
          BY <2>1, <5>2 DEF Tick, Editing, TypeOK
        <5> QED BY <5>1, <5>2
      <4> QED BY <2>1, <4>1 DEF Pending, Tick
    <3>2. VisitOvertaken'
      <4> SUFFICES ASSUME NEW p \in Process, Visiting(p)',
                          NEW s \in Watched \cap Seen(p)'
                   PROVE  \/ job'[p].page[s].version = row'[s]
                          \/ job'[p].overtaken
                          \/ Pending(storeOf[p])'
        BY DEF VisitOvertaken
      <4>1. Visiting(p) /\ job[p] \in Visit
        BY <2>1, Shapes DEF Tick, Visiting
      <4>2. /\ job'[p].next = job[p].next
            /\ job'[p].overtaken = job[p].overtaken
            /\ job'[p].page = Older(job[p].page)
        BY <2>1, <4>1 DEF Tick, Visit
      <4>3. job'[p].page[s].version = job[p].page[s].version
        BY <4>1, <4>2, OlderKeeps DEF Visit, Seen
      <4>4. s \in Seen(p)
        BY <4>2 DEF Seen
      <4>5. UNCHANGED <<row, storeOf>>
        BY <2>1 DEF Tick
      <4>6. Pending(storeOf[p]) => Pending(storeOf[p])'
        BY <3>1, <4>5 DEF Pending, TypeOK
      <4> QED BY <4>1, <4>2, <4>3, <4>4, <4>5, <4>6 DEF VisitOvertaken
    <3>3. StaleOnlyIfOvertaken'
      <4> SUFFICES ASSUME NEW c \in Store, Cached(c)', ~Fresh(c, Watched)'
                   PROVE  cache'[c].excused \/ Pending(c)'
        BY DEF StaleOnlyIfOvertaken, Pending
      <4>1. Cached(c) /\ cache[c] \in Payload
        BY <2>1, Shapes DEF Tick, Cached, TypeOK
      <4>2. /\ cache'[c].excused = cache[c].excused
            /\ cache'[c].page = Older(cache[c].page)
        BY <2>1, <4>1 DEF Tick, Cached, Payload, TypeOK
      <4>3. ~Fresh(c, Watched)
        BY <2>1, <4>1, <4>2, OlderKeeps, SectionsAssumption DEF Fresh, Payload, Tick
      <4> QED BY <3>1, <4>1, <4>2, <4>3 DEF StaleOnlyIfOvertaken, Pending
    <3> QED BY <3>2, <3>3
  <2>2. ASSUME NEW p \in Process, Miss(p)
        PROVE  VisitOvertaken' /\ StaleOnlyIfOvertaken'
    <3>1. \A c \in Store : Pending(c) => Pending(c)'
      BY <2>2, PendingStays DEF Miss, Pending, Editing, Idle, TypeOK
    <3>2. \A q \in Process : q # p => job'[q] = job[q]
      BY <2>2 DEF Miss, TypeOK
    <3>3. Seen(p)' = {}
      BY <2>2 DEF Miss, Seen, TypeOK
    <3>4. VisitOvertaken'
      BY <2>2, <3>1, <3>2, <3>3 DEF VisitOvertaken, Visiting, Seen, Miss, TypeOK
    <3> QED BY <2>2, <3>1, <3>4 DEF StaleOnlyIfOvertaken, Pending, Fresh, Cached, Miss
  <2>3. ASSUME NEW p \in Process, Read(p)
        PROVE  VisitOvertaken' /\ StaleOnlyIfOvertaken'
    <3>1. \A c \in Store : Pending(c) => Pending(c)'
      <4>1. ~Editing(p, "committed") /\ UNCHANGED storeOf
        BY <2>3 DEF Read, Editing, Visiting
      <4>2. \A q \in Process : q # p => job'[q] = job[q]
        BY <2>3 DEF Read, TypeOK
      <4> QED BY <4>1, <4>2, PendingStays DEF Editing
    <3>2. \A q \in Process : q # p => job'[q] = job[q]
      BY <2>3 DEF Read, TypeOK
    <3>3. job[p] \in Visit
      BY <2>3, Shapes DEF Read
    <3> DEFINE now == Sections[job[p].next]
    <3>4. /\ job'[p].next = job[p].next + 1
          /\ job'[p].overtaken = job[p].overtaken
          /\ job'[p].page = [job[p].page EXCEPT ![now] = [version |-> row[now], behind |-> 0]]
      BY <2>3, <3>3 DEF Read, Visit, TypeOK
    <3>5. \A s \in Section : s \in Seen(p)' => s \in Seen(p) \/ s = now
      BY <3>3, <3>4 DEF Seen, Visit
    <3>6. job'[p].page[now].version = row[now]
      <4>1. now \in Section
        BY <2>3, <3>3 DEF Read, Visit
      <4>2. job[p].page \in Page
        BY <3>3 DEF Visit
      <4> HIDE DEF now
      <4> QED BY <3>4, <4>1, <4>2 DEF Page
    <3>7. \A s \in Section : s # now => job'[p].page[s] = job[p].page[s]
      BY <3>3, <3>4 DEF Visit, Page
    <3>8. VisitOvertaken'
      <4> SUFFICES ASSUME NEW q \in Process, Visiting(q)',
                          NEW s \in Watched \cap Seen(q)',
                          ~job'[q].overtaken, ~Pending(storeOf[q])'
                   PROVE  job'[q].page[s].version = row'[s]
        BY DEF VisitOvertaken
      <4> HIDE DEF now
      <4>1. UNCHANGED <<row, storeOf>>
        BY <2>3 DEF Read
      <4>2. ~Pending(storeOf[q])
        BY <3>1, <4>1 DEF Pending, TypeOK
      <4>3. CASE q # p
        <5>1. job'[q] = job[q]
          BY <3>2, <4>3
        <5>2. Visiting(q) /\ s \in Seen(q)
          BY <5>1 DEF Visiting, Seen
        <5> QED BY <4>1, <4>2, <5>1, <5>2 DEF VisitOvertaken
      <4>4. CASE q = p
        <5>1. CASE s = now
          BY <3>6, <4>1, <4>4, <5>1
        <5>2. CASE s # now
          <6>1. s \in Seen(p) /\ Visiting(p)
            BY <2>3, <3>5, <4>4, <5>2, SectionsAssumption DEF Read, Seen
          <6>2. job[p].page[s].version = row[s]
            BY <3>4, <4>2, <4>4, <6>1 DEF VisitOvertaken
          <6> QED BY <3>7, <4>1, <4>4, <5>2, <6>2, SectionsAssumption
        <5> QED BY <5>1, <5>2
      <4> QED BY <4>3, <4>4
    <3> QED BY <2>3, <3>1, <3>8 DEF StaleOnlyIfOvertaken, Pending, Fresh, Cached, Read
  <2>4. ASSUME NEW p \in Process, Put(p)
        PROVE  VisitOvertaken' /\ StaleOnlyIfOvertaken'
    <3>1. \A c \in Store : Pending(c) => Pending(c)'
      BY <2>4, PendingStays DEF Put, Pending, Editing, Visiting, TypeOK
    <3>2. \A q \in Process : q # p => job'[q] = job[q]
      BY <2>4 DEF Put, TypeOK
    <3>3. ~Visiting(p)'
      BY <2>4 DEF Put, Visiting, Idle, TypeOK
    <3>4. VisitOvertaken'
      BY <2>4, <3>1, <3>2, <3>3 DEF VisitOvertaken, Visiting, Seen, Put, TypeOK
    <3>5. Seen(p) = Section
      BY <2>4, Shapes DEF Put, Seen, Visit, Section
    <3>6. /\ cache'[storeOf[p]].page = job[p].page
          /\ cache'[storeOf[p]].excused = job[p].overtaken
      BY <2>4 DEF Put, Stored, TypeOK
    <3>7. StaleOnlyIfOvertaken'
      <4> SUFFICES ASSUME NEW c \in Store, Cached(c)', ~Fresh(c, Watched)'
                   PROVE  cache'[c].excused \/ Pending(c)'
        BY DEF StaleOnlyIfOvertaken, Pending
      <4>1. CASE c = storeOf[p]
        BY <2>4, <3>1, <3>5, <3>6, <4>1, SectionsAssumption
           DEF Fresh, VisitOvertaken, Put
      <4>2. CASE c # storeOf[p]
        BY <2>4, <3>1, <4>2 DEF StaleOnlyIfOvertaken, Pending, Fresh, Cached, Put, TypeOK
      <4> QED BY <4>1, <4>2
    <3> QED BY <3>4, <3>7
  <2>5. ASSUME NEW p \in Process, Begin(p) \/ Write(p) \/ Rollback(p)
        PROVE  VisitOvertaken' /\ StaleOnlyIfOvertaken'
    <3>1. \A c \in Store : Pending(c) => Pending(c)'
      <4>1. ~Editing(p, "committed") /\ UNCHANGED storeOf
        BY <2>5 DEF Begin, Write, Rollback, Editing, Idle
      <4>2. \A q \in Process : q # p => job'[q] = job[q]
        BY <2>5 DEF Begin, Write, Rollback, TypeOK
      <4> QED BY <4>1, <4>2, PendingStays DEF Editing
    <3>2. \A q \in Process : q # p => job'[q] = job[q]
      BY <2>5 DEF Begin, Write, Rollback, TypeOK
    <3>3. ~Visiting(p)'
      <4>1. CASE Begin(p) \/ Rollback(p)
        BY <4>1 DEF Begin, Rollback, Visiting, Idle, TypeOK
      <4>2. CASE Write(p)
        <5>1. job[p] \in Edit
          BY <4>2, Shapes DEF Write, Editing
        <5>2. job'[p].kind = "edit"
          BY <4>2, <5>1 DEF Write, TypeOK, Edit
        <5> QED BY <5>2 DEF Visiting
      <4> QED BY <2>5, <4>1, <4>2
    <3>4. UNCHANGED <<row, cache, storeOf>>
      BY <2>5 DEF Begin, Write, Rollback
    <3>5. VisitOvertaken'
      BY <3>1, <3>2, <3>3, <3>4 DEF VisitOvertaken, Visiting, Seen, TypeOK
    <3> QED BY <3>1, <3>4, <3>5 DEF StaleOnlyIfOvertaken, Pending, Fresh, Cached
  <2>6. ASSUME NEW p \in Process, Commit(p)
        PROVE  VisitOvertaken' /\ StaleOnlyIfOvertaken'
    <3>1. job[p] \in Edit /\ ~Editing(p, "committed")
      BY <2>6, Shapes DEF Commit, Editing
    <3>2. \A q \in Process : q # p =>
             /\ ~Visiting(q) => job'[q] = job[q]
             /\ Visiting(q)' <=> Visiting(q)
             /\ Visiting(q) => /\ job'[q].page = job[q].page
                               /\ job'[q].next = job[q].next
                               /\ job'[q].overtaken = (job[q].overtaken \/ Away(p, storeOf[q]))
      <4> TAKE q \in Process
      <4> HAVE q # p
      <4>1. job'[q] = IF Away(p, storeOf[q]) THEN Overtake(q) ELSE job[q]
        BY <2>6 DEF Commit, TypeOK
      <4>2. CASE Visiting(q)
        <5>1. job[q] \in Visit
          BY <4>2, Shapes
        <5> QED BY <4>1, <4>2, <5>1 DEF Overtake, Visit, Visiting
      <4>3. CASE ~Visiting(q)
        BY <4>1, <4>3 DEF Overtake, Visiting
      <4> QED BY <4>2, <4>3
    <3>3. \A c \in Store : Pending(c) => Pending(c)'
      <4>1. \A q \in Process : q # p /\ Editing(q, "committed") => Editing(q, "committed")'
        BY <3>2 DEF Editing, Visiting
      <4> QED BY <2>6, <3>1, <4>1, PendingStays DEF Commit
    <3>4. ~Visiting(p)'
      BY <2>6, <3>1 DEF Commit, AfterCommit, Visiting, Idle, Edit, TypeOK
    <3>5. \A s \in Watched : row'[s] # row[s] => Pending(storeOf[p])'
      <4> SUFFICES ASSUME NEW s \in Watched, row'[s] # row[s]
                   PROVE  Pending(storeOf[p])'
        OBVIOUS
      <4>1. s \in job[p].wrote
        BY <2>6, SectionsAssumption DEF Commit, TypeOK
      <4>2. job'[p] = [job[p] EXCEPT !.at = "committed"]
        BY <2>6, <4>1 DEF Commit, AfterCommit, TypeOK
      <4>3. Editing(p, "committed")'
        BY <3>1, <4>2 DEF Editing, Edit
      <4> QED BY <2>6, <4>3 DEF Pending, Commit
    <3>6. VisitOvertaken'
      <4> SUFFICES ASSUME NEW q \in Process, Visiting(q)',
                          NEW s \in Watched \cap Seen(q)',
                          ~job'[q].overtaken, ~Pending(storeOf[q])'
                   PROVE  job'[q].page[s].version = row'[s]
        BY DEF VisitOvertaken
      <4>1. q # p /\ storeOf[q] = storeOf[p] /\ ~job[q].overtaken /\ Visiting(q)
        BY <3>2, <3>4 DEF Away
      <4>2. row'[s] = row[s]
        <5>1. UNCHANGED storeOf
          BY <2>6 DEF Commit
        <5>2. ~Pending(storeOf[p])'
          BY <4>1, <5>1 DEF Pending
        <5> QED BY <3>5, <5>2
      <4>3. s \in Seen(q) /\ job'[q].page = job[q].page
        BY <3>2, <4>1 DEF Seen
      <4>4. ~Pending(storeOf[q])
        BY <2>6, <3>3 DEF Commit, TypeOK, Pending
      <4> QED BY <4>1, <4>2, <4>3, <4>4 DEF VisitOvertaken
    <3>7. StaleOnlyIfOvertaken'
      <4> SUFFICES ASSUME NEW c \in Store, Cached(c)', ~Fresh(c, Watched)',
                          ~cache'[c].excused, ~Pending(c)'
                   PROVE  FALSE
        BY DEF StaleOnlyIfOvertaken, Pending
      <4>1. Cached(c) /\ cache[c] \in Payload
        BY <2>6, Shapes DEF Commit, Excuse, Cached, TypeOK
      <4>2. ~Away(p, c) /\ cache'[c] = cache[c]
        BY <2>6, <4>1 DEF Commit, Excuse, Payload, TypeOK
      <4>3. \A s \in Watched : row'[s] = row[s]
        <5>1. UNCHANGED storeOf
          BY <2>6 DEF Commit
        <5>2. ~Pending(storeOf[p])'
          BY <4>2, <5>1 DEF Away, Pending
        <5> QED BY <3>5, <5>2
      <4> QED BY <3>3, <4>1, <4>2, <4>3 DEF StaleOnlyIfOvertaken, Pending, Fresh
    <3> QED BY <3>6, <3>7
  <2>7. ASSUME NEW p \in Process,
               \/ Invalidate(p)
               \/ Lose(p)
        PROVE  VisitOvertaken' /\ StaleOnlyIfOvertaken'
    <3>1. /\ ~Visiting(p)'
          /\ UNCHANGED <<row, storeOf>>
      <4>1. CASE Invalidate(p)
        <5>1. job[p] \in Edit
          BY <4>1, Shapes DEF Invalidate, Editing
        <5> QED BY <4>1, <5>1 DEF Invalidate, Drop, Visiting, Idle, Edit, TypeOK
      <4>2. CASE Lose(p)
        BY <4>2 DEF Lose, Visiting, Idle, TypeOK
      <4> QED BY <2>7, <4>1, <4>2
    <3>2. \A q \in Process : q # p =>
             /\ ~Visiting(q) => job'[q] = job[q]
             /\ Visiting(q)' <=> Visiting(q)
             /\ Visiting(q) => /\ job'[q].page = job[q].page
                               /\ job'[q].next = job[q].next
                               /\ job[q].overtaken => job'[q].overtaken
                               /\ Editing(p, "committed") /\ storeOf[q] = storeOf[p]
                                    => job'[q].overtaken
      <4> TAKE q \in Process
      <4> HAVE q # p
      <4>1. \/ job'[q] = Overtake(q)
            \/ /\ job'[q] = job[q]
               /\ ~(Editing(p, "committed") /\ storeOf[q] = storeOf[p])
        <5>1. CASE Invalidate(p)
          BY <5>1 DEF Invalidate, Drop, TypeOK
        <5>2. CASE Lose(p)
          BY <5>2 DEF Lose, TypeOK
        <5> QED BY <2>7, <5>1, <5>2
      <4>2. CASE Visiting(q)
        <5>1. job[q] \in Visit
          BY <4>2, Shapes
        <5> QED BY <4>1, <4>2, <5>1 DEF Overtake, Visit, Visiting
      <4>3. CASE ~Visiting(q)
        BY <4>1, <4>3 DEF Overtake, Visiting
      <4> QED BY <4>2, <4>3
    <3>3. \A c \in Store : Pending(c) /\ ~Pending(c)'
                            => Editing(p, "committed") /\ storeOf[p] = c
      <4>1. \A q \in Process : q # p /\ Editing(q, "committed") => Editing(q, "committed")'
        BY <3>2 DEF Editing, Visiting
      <4> QED BY <3>1, <4>1, PendingStays
    <3>4. VisitOvertaken'
      <4> SUFFICES ASSUME NEW q \in Process, Visiting(q)',
                          NEW s \in Watched \cap Seen(q)',
                          ~job'[q].overtaken, ~Pending(storeOf[q])'
                   PROVE  job'[q].page[s].version = row'[s]
        BY DEF VisitOvertaken
      <4>1. q # p /\ ~job[q].overtaken /\ Visiting(q)
        BY <3>1, <3>2
      <4>2. s \in Seen(q) /\ job'[q].page = job[q].page
        BY <3>2, <4>1 DEF Seen
      <4>3. ~Pending(storeOf[q])
        BY <3>1, <3>2, <3>3, <4>1 DEF TypeOK, Pending
      <4> QED BY <3>1, <4>1, <4>2, <4>3 DEF VisitOvertaken
    <3>5. StaleOnlyIfOvertaken'
      <4> SUFFICES ASSUME NEW c \in Store, Cached(c)', ~Fresh(c, Watched)',
                          ~cache'[c].excused, ~Pending(c)'
                   PROVE  FALSE
        BY DEF StaleOnlyIfOvertaken, Pending
      <4>1. cache'[c] = cache[c] /\ ~(Editing(p, "committed") /\ storeOf[p] = c)
        <5>1. CASE Invalidate(p)
          BY <5>1 DEF Invalidate, Drop, Cached, TypeOK
        <5>2. CASE Lose(p) /\ c # storeOf[p]
          BY <5>2 DEF Lose, TypeOK
        <5>3. CASE Lose(p) /\ c = storeOf[p]
          <6>1. Cached(c) => cache[c] \in Payload
            BY Shapes
          <6> QED BY <5>3, <6>1 DEF Lose, Excuse, Cached, Payload, TypeOK
        <5> QED BY <2>7, <5>1, <5>2, <5>3
      <4>2. ~Pending(c)
        BY <3>3, <4>1
      <4> QED BY <3>1, <4>1, <4>2 DEF StaleOnlyIfOvertaken, Pending, Fresh, Cached
    <3> QED BY <3>4, <3>5
  <2>8. CASE UNCHANGED vars
    BY <2>8 DEF vars, VisitOvertaken, StaleOnlyIfOvertaken, Visiting, Seen, Pending,
                Editing, Cached, Fresh
  <2> QED
    BY <2>1, <2>2, <2>3, <2>4, <2>5, <2>6, <2>7, <2>8
       DEF Next, VisitNext, EditNext
<1>3. HomeInv => StaleOnlyIfOvertaken
  BY DEF HomeInv
<1> QED BY <1>1, <1>2, <1>3, HomeTypeCorrect, PTL DEF Spec

(***************************************************************************)
(* The time limit.  What a visit read is no older than the visit, and what *)
(* is cached no older than the longest visit before it was stored.         *)
(***************************************************************************)
VisitsYoung ==
    \A p \in Process : Visiting(p) =>
        \A s \in Section : job[p].page[s].behind <= job[p].age

PayloadsYoung ==
    \A c \in Store : Cached(c) =>
        /\ cache[c].age < TTL
        /\ \A s \in Section : cache[c].page[s].behind <= Timeout + cache[c].age

(* A minute makes a page no more than a minute older. *)
LEMMA OlderByOne ==
    ASSUME TypeOK, NEW page \in Page, NEW s \in Section
    PROVE  /\ page[s].behind \in Nat /\ Older(page)[s].behind \in Nat
           /\ Older(page)[s].behind <= page[s].behind + 1
<1>1. page[s] \in Reading /\ page[s].behind \in Nat
  BY SectionFacts DEF Page, Reading
<1>2. Older(page)[s] = IF page[s].version = row[s] \/ page[s].behind = Stalest
                       THEN page[s] ELSE [page[s] EXCEPT !.behind = @ + 1]
  BY DEF Older
<1> QED BY <1>1, <1>2 DEF Reading

LEMMA OlderBound ==
    ASSUME NEW a \in Nat, NEW b \in Nat, NEW o \in Nat, o <= b + 1, b <= Timeout + a
    PROVE  o <= Timeout + (a + 1)
  BY TimeAssumption

(* Whoever edits or is lost reads and stores nothing. *)
LEMMA EditsKeepPages ==
    ASSUME TypeOK, NEW p \in Process,
           Begin(p) \/ Write(p) \/ Commit(p) \/ Rollback(p) \/ Invalidate(p) \/ Lose(p)
    PROVE  /\ \A q \in Process : Visiting(q)' =>
                 /\ Visiting(q)
                 /\ job'[q].page = job[q].page /\ job'[q].age = job[q].age
           /\ \A c \in Store : Cached(c)' =>
                 /\ Cached(c)
                 /\ cache'[c].page = cache[c].page /\ cache'[c].age = cache[c].age
<1>1. ASSUME NEW q \in Process, Visiting(q)'
      PROVE  /\ Visiting(q)
             /\ job'[q].page = job[q].page /\ job'[q].age = job[q].age
  <2>1. job'[q] \in {Idle, job[q], Overtake(q)} \/ (q = p /\ job'[q].kind = "edit")
    <3>1. CASE Begin(p)
      BY <3>1 DEF Begin, TypeOK
    <3>2. CASE Write(p) \/ Commit(p) \/ Invalidate(p)
      <4>1. job[p] \in Edit
        BY <3>2, Shapes DEF Write, Commit, Invalidate, Editing
      <4>2. CASE Write(p)
        BY <4>1, <4>2 DEF Write, Edit, TypeOK
      <4>3. CASE Commit(p)
        BY <4>1, <4>3 DEF Commit, AfterCommit, Edit, TypeOK
      <4>4. CASE Invalidate(p)
        BY <4>1, <4>4 DEF Invalidate, Drop, Edit, TypeOK
      <4> QED BY <3>2, <4>2, <4>3, <4>4
    <3>3. CASE Rollback(p) \/ Lose(p)
      BY <3>3 DEF Rollback, Lose, TypeOK
    <3> QED BY <3>1, <3>2, <3>3
  <2>2. job'[q] = job[q] \/ (job'[q] = Overtake(q) /\ job'[q] # job[q])
    BY <1>1, <2>1 DEF Visiting, Idle
  <2>3. CASE job'[q] = job[q]
    BY <1>1, <2>3 DEF Visiting
  <2>4. CASE job'[q] = Overtake(q) /\ job'[q] # job[q]
    <3>1. job[q] \in Visit /\ Visiting(q)
      BY <2>4, Shapes DEF Overtake
    <3> QED BY <2>4, <3>1 DEF Overtake, Visit
  <2> QED BY <2>2, <2>3, <2>4
<1>2. ASSUME NEW c \in Store, Cached(c)'
      PROVE  /\ Cached(c)
             /\ cache'[c].page = cache[c].page /\ cache'[c].age = cache[c].age
  <2>1. cache'[c] = cache[c] \/ cache'[c] = Excuse(c)
    <3>1. CASE Begin(p) \/ Write(p) \/ Rollback(p)
      BY <3>1 DEF Begin, Write, Rollback
    <3>2. CASE Commit(p)
      BY <3>2 DEF Commit
    <3>3. CASE Invalidate(p)
      BY <1>2, <3>3 DEF Invalidate, Drop, Cached, TypeOK
    <3>4. CASE Lose(p)
      BY <3>4 DEF Lose, TypeOK
    <3> QED BY <3>1, <3>2, <3>3, <3>4
  <2>2. Cached(c) /\ cache[c] \in Payload
    BY <1>2, <2>1, Shapes DEF Cached, Excuse
  <2> QED BY <2>1, <2>2 DEF Excuse, Payload
<1> QED BY <1>1, <1>2

(* CACHE_TTL_MEDIUM (base.py:228): whatever is lost, and for the sections  *)
(* that nothing invalidates, what a visitor is shown was the truth less    *)
(* than the lifetime of a payload and of a visit ago.                      *)
THEOREM StaleForSoLong == Spec => []NeverOlderThanTTL
<1>1. Init => VisitsYoung /\ PayloadsYoung
  BY DEF Init, VisitsYoung, PayloadsYoung, Visiting, Idle, Cached
<1>2. TypeOK /\ TypeOK' /\ VisitsYoung /\ PayloadsYoung /\ [Next]_vars
        => VisitsYoung' /\ PayloadsYoung'
  <2> SUFFICES ASSUME TypeOK, VisitsYoung, PayloadsYoung, [Next]_vars
               PROVE  VisitsYoung' /\ PayloadsYoung'
    OBVIOUS
  <2> USE SectionFacts, TimeAssumption
  <2>1. CASE Tick
    <3>1. VisitsYoung'
      <4> SUFFICES ASSUME NEW p \in Process, Visiting(p)', NEW s \in Section
                   PROVE  job'[p].page[s].behind <= job'[p].age
        BY DEF VisitsYoung
      <4>1. Visiting(p) /\ job[p] \in Visit
        BY <2>1, Shapes DEF Tick, Visiting
      <4>2. job'[p].page = Older(job[p].page) /\ job'[p].age = job[p].age + 1
        BY <2>1, <4>1 DEF Tick, Visit
      <4>3. /\ job[p].page \in Page /\ job[p].age \in Nat
            /\ job[p].page[s].behind <= job[p].age
        BY <4>1 DEF Visit, VisitsYoung
      <4>4. /\ job[p].page[s].behind \in Nat /\ Older(job[p].page)[s].behind \in Nat
            /\ Older(job[p].page)[s].behind <= job[p].page[s].behind + 1
        BY <4>3, OlderByOne
      <4>5. Older(job[p].page)[s].behind <= job[p].age + 1
        BY <4>3, <4>4
      <4> QED BY <4>2, <4>5
    <3>2. PayloadsYoung'
      <4> SUFFICES ASSUME NEW c \in Store, Cached(c)'
                   PROVE  /\ cache'[c].age < TTL
                          /\ \A s \in Section :
                                cache'[c].page[s].behind <= Timeout + cache'[c].age
        BY DEF PayloadsYoung
      <4>1. Cached(c) /\ cache[c] \in Payload /\ ~Expired(cache[c].age)
        BY <2>1, Shapes DEF Tick, Cached
      <4>2. cache[c].age \in Nat /\ cache[c].age < TTL /\ cache[c].page \in Page
        <5>1. cache[c].age \in 0 .. TTL /\ cache[c].page \in Page
          BY <4>1 DEF Payload
        <5> QED BY <4>1, <5>1 DEF PayloadsYoung
      <4>3. cache'[c].page = Older(cache[c].page) /\ cache'[c].age = cache[c].age + 1
        BY <2>1, <4>1, <4>2 DEF Tick, Payload
      <4>4. cache'[c].age < TTL
        BY <4>1, <4>2, <4>3 DEF Expired
      <4>5. ASSUME NEW s \in Section
            PROVE  cache'[c].page[s].behind <= Timeout + cache'[c].age
        <5>1. cache[c].page[s].behind <= Timeout + cache[c].age
          BY <4>1 DEF PayloadsYoung
        <5>2. /\ cache[c].page[s].behind \in Nat /\ Older(cache[c].page)[s].behind \in Nat
              /\ Older(cache[c].page)[s].behind <= cache[c].page[s].behind + 1
          BY <4>2, OlderByOne
        <5>3. Older(cache[c].page)[s].behind <= Timeout + (cache[c].age + 1)
          BY <4>2, <5>1, <5>2, OlderBound
        <5> QED BY <4>3, <5>3
      <4> QED BY <4>4, <4>5
    <3> QED BY <3>1, <3>2
  <2>2. ASSUME NEW p \in Process, Miss(p)
        PROVE  VisitsYoung' /\ PayloadsYoung'
    <3>1. job'[p].page = Blank /\ job'[p].age = 0 /\ \A q \in Process : q # p => job'[q] = job[q]
      BY <2>2 DEF Miss, TypeOK
    <3>2. \A s \in Section : Blank[s].behind = 0
      BY DEF Blank
    <3> QED BY <2>2, <3>1, <3>2 DEF Miss, VisitsYoung, Visiting, PayloadsYoung, Cached
  <2>3. ASSUME NEW p \in Process, Read(p)
        PROVE  VisitsYoung' /\ PayloadsYoung'
    <3>1. job[p] \in Visit /\ Visiting(p)
      BY <2>3, Shapes DEF Read
    <3> DEFINE now == Sections[job[p].next]
    <3>2. /\ job'[p].age = job[p].age
          /\ job'[p].page = [job[p].page EXCEPT ![now] = [version |-> row[now], behind |-> 0]]
          /\ \A q \in Process : q # p => job'[q] = job[q]
      BY <2>3, <3>1 DEF Read, Visit, TypeOK
    <3>3. job[p].page \in Page /\ job[p].age \in Nat
      BY <3>1 DEF Visit
    <3> HIDE DEF now
    <3>4. \A s \in Section : job'[p].page[s].behind <= job'[p].age
      <4> SUFFICES ASSUME NEW s \in Section PROVE job'[p].page[s].behind <= job'[p].age
        OBVIOUS
      <4>1. CASE s = now
        BY <3>2, <3>3, <4>1 DEF Page
      <4>2. CASE s # now
        BY <3>1, <3>2, <3>3, <4>2 DEF Page, VisitsYoung
      <4> QED BY <4>1, <4>2
    <3>5. VisitsYoung'
      BY <3>2, <3>4 DEF VisitsYoung, Visiting
    <3> QED BY <2>3, <3>5 DEF Read, PayloadsYoung, Cached
  <2>4. ASSUME NEW p \in Process, Put(p)
        PROVE  VisitsYoung' /\ PayloadsYoung'
    <3>1. job[p] \in Visit /\ Visiting(p) /\ storeOf[p] \in Store
      BY <2>4, Shapes DEF Put, TypeOK
    <3>2. VisitsYoung'
      BY <2>4 DEF Put, VisitsYoung, Visiting, Idle, TypeOK
    <3>3. /\ cache'[storeOf[p]].page = job[p].page /\ cache'[storeOf[p]].age = 0
          /\ \A c \in Store : c # storeOf[p] => cache'[c] = cache[c]
      BY <2>4, <3>1 DEF Put, Stored, TypeOK
    <3>4. \A s \in Section : job[p].page[s].behind <= Timeout + 0
      <4> SUFFICES ASSUME NEW s \in Section PROVE job[p].page[s].behind <= Timeout + 0
        OBVIOUS
      <4>1. /\ job[p].page[s].behind <= job[p].age /\ job[p].page[s].behind \in Nat
            /\ job[p].age \in 0 .. Timeout
        BY <3>1 DEF VisitsYoung, Visit, Page, Reading
      <4> QED BY <4>1
    <3> QED BY <3>2, <3>3, <3>4 DEF PayloadsYoung, Cached
  <2>5. ASSUME NEW p \in Process, EditNext(p) \/ Lose(p)
        PROVE  VisitsYoung' /\ PayloadsYoung'
    BY <2>5, EditsKeepPages DEF EditNext, VisitsYoung, PayloadsYoung
  <2>6. CASE UNCHANGED vars
    BY <2>6 DEF vars, VisitsYoung, PayloadsYoung, Visiting, Cached
  <2> QED BY <2>1, <2>2, <2>3, <2>4, <2>5, <2>6 DEF Next, VisitNext
<1>3. TypeOK /\ PayloadsYoung => NeverOlderThanTTL
  <2> SUFFICES ASSUME TypeOK, PayloadsYoung, NEW c \in Store, Cached(c), NEW s \in Section
               PROVE  cache[c].page[s].behind < Stalest
    BY DEF NeverOlderThanTTL
  <2>1. /\ cache[c].page[s].behind \in Nat /\ cache[c].age \in Nat /\ cache[c].age < TTL
        /\ cache[c].page[s].behind <= Timeout + cache[c].age
    <3>1. cache[c].age \in 0 .. TTL /\ cache[c].page \in Page
      BY Shapes DEF Payload
    <3>2. cache[c].page[s].behind \in Nat
      BY <3>1, OlderByOne
    <3> QED BY <3>1, <3>2 DEF PayloadsYoung
  <2> QED BY <2>1, TimeAssumption DEF Stalest
<1> QED BY <1>1, <1>2, <1>3, HomeTypeCorrect, PTL DEF Spec

=============================================================================
