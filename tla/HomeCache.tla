------------------------------ MODULE HomeCache ------------------------------
(***************************************************************************)
(* The cached home page (api/content/views/home.py, apps/content).         *)
(*                                                                         *)
(* HomeView answers with the cached payload, or reads the page section by  *)
(* section, one query each, stores it for CACHE_TTL_MEDIUM seconds and     *)
(* answers.  A write that goes through save() or delete() of a model of    *)
(* HOME_SOURCE_MODELS deletes the cached payload after its transaction     *)
(* commits.  Reviews, orders, quantities changed by QuerySet.update() and  *)
(* the passing of dates change what the page shows and delete nothing.     *)
(*                                                                         *)
(* A row is abstracted to the number of changes committed to it.  Time     *)
(* passes in minutes.                                                      *)
(***************************************************************************)
EXTENDS Naturals, Sequences

CONSTANTS
    Process,    \* web and Celery processes, one request or task each
    Store,      \* the places a payload can be cached in
    Sections,   \* what the page is read from, in the order of home_sections
    Watched,    \* the sections whose rows HOME_SOURCE_MODELS lists
    TTL,        \* CACHE_TTL_MEDIUM
    Timeout,    \* a visit that lasts longer is killed by gunicorn
    MaxEdits    \* bound: changes committed to one section

Section == {Sections[i] : i \in 1 .. Len(Sections)}

ASSUME SectionsAssumption ==
    /\ Sections \in Seq(Section)
    /\ Watched \subseteq Section

ASSUME TimeAssumption == TTL \in Nat \ {0} /\ Timeout \in Nat \ {0}

ASSUME BoundAssumption == MaxEdits \in Nat

VARIABLES
    row,        \* changes committed to each section
    cache,      \* the payload of each store, or Empty
    job,        \* the visit or the edit each process is busy with
    storeOf     \* CACHES: one Redis for all, or a LocMemCache per process

vars == <<row, cache, job, storeOf>>

Empty == [cached |-> FALSE]
Idle == [kind |-> "idle"]

(* What was read of a section, and for how many minutes it is out of date. *)
Stalest == TTL + Timeout
Reading == [version : 0 .. MaxEdits, behind : 0 .. Stalest]
Page == [Section -> Reading]

(* `excused` remembers that the payload outlived a change of a watched     *)
(* section for one of the reasons listed at StaleOnlyIfOvertaken.          *)
Payload == [cached : {TRUE}, page : Page, age : 0 .. TTL, excused : BOOLEAN]

Visit == [kind : {"visit"}, next : 1 .. Len(Sections) + 1, page : Page,
          age : 0 .. Timeout, overtaken : BOOLEAN]
Edit == [kind : {"edit"}, at : {"open", "committed", "again"},
         wrote : SUBSET Section, staff : BOOLEAN]

TypeOK ==
    /\ row \in [Section -> 0 .. MaxEdits]
    /\ cache \in [Store -> {Empty} \cup Payload]
    /\ job \in [Process -> {Idle} \cup Visit \cup Edit]
    /\ storeOf \in [Process -> Store]

Blank == [s \in Section |-> [version |-> 0, behind |-> 0]]

Init ==
    /\ row = [s \in Section |-> 0]
    /\ cache = [c \in Store |-> Empty]
    /\ job = [p \in Process |-> Idle]
    /\ \/ \E c \in Store : storeOf = [p \in Process |-> c]
       \/ /\ storeOf \in [Process -> Store]
          /\ \A p, q \in Process : p # q => storeOf[p] # storeOf[q]

Visiting(p) == job[p].kind = "visit"
Editing(p, at) == job[p].kind = "edit" /\ job[p].at = at
Cached(c) == cache[c] # Empty

----------------------------------------------------------------------------
(* HomeView.get *)

(* A hit is answered at once and changes nothing; a miss starts to read. *)
Miss(p) ==
    /\ job[p] = Idle
    /\ ~Cached(storeOf[p])
    /\ job' = [job EXCEPT ![p] = [kind |-> "visit", next |-> 1, page |-> Blank,
                                  age |-> 0, overtaken |-> FALSE]]
    /\ UNCHANGED <<row, cache, storeOf>>

(* One section, one query: it sees what is committed at that moment. *)
Read(p) ==
    /\ Visiting(p)
    /\ job[p].next <= Len(Sections)
    /\ LET s == Sections[job[p].next]
       IN job' = [job EXCEPT ![p].next = @ + 1,
                             ![p].page[s] = [version |-> row[s], behind |-> 0]]
    /\ UNCHANGED <<row, cache, storeOf>>

(* cache.set: whatever was invalidated meanwhile, the payload is stored. *)
Stored(p, age) ==
    [cached |-> TRUE, page |-> job[p].page, age |-> age, excused |-> job[p].overtaken]

Put_forEver(p) ==
    /\ Visiting(p)
    /\ job[p].next > Len(Sections)
    /\ cache' = [cache EXCEPT ![storeOf[p]] = Stored(p, TTL)]
    /\ job' = [job EXCEPT ![p] = Idle]
    /\ UNCHANGED <<row, storeOf>>

Put(p) ==
    /\ Visiting(p)
    /\ job[p].next > Len(Sections)
    /\ cache' = [cache EXCEPT ![storeOf[p]] = Stored(p, 0)]
    /\ job' = [job EXCEPT ![p] = Idle]
    /\ UNCHANGED <<row, storeOf>>

----------------------------------------------------------------------------
(* Writers: a staff request, the Django admin, a checkout, the expiry. *)

Begin(p) ==
    /\ job[p] = Idle
    /\ \E staff \in BOOLEAN :
         job' = [job EXCEPT ![p] = [kind |-> "edit", at |-> "open", wrote |-> {},
                                    staff |-> staff]]
    /\ UNCHANGED <<row, cache, storeOf>>

Write(p) ==
    /\ Editing(p, "open")
    /\ \E s \in Section \ job[p].wrote :
         /\ row[s] < MaxEdits
         /\ job' = [job EXCEPT ![p].wrote = @ \cup {s}]
    /\ UNCHANGED <<row, cache, storeOf>>

(* The payloads a lost or missing invalidation leaves behind. *)
Excuse(c) == IF Cached(c) THEN [cache[c] EXCEPT !.excused = TRUE] ELSE Empty
Overtake(q) == IF Visiting(q) THEN [job[q] EXCEPT !.overtaken = TRUE] ELSE job[q]

Away(p, c) == c # storeOf[p]

(* What is left to do once the rows are visible: the receivers' callback. *)
AfterCommit_ifCached(p) ==
    IF job[p].wrote \cap Watched = {} \/ ~Cached(storeOf[p])
    THEN Idle ELSE [job[p] EXCEPT !.at = "committed"]

AfterCommit(p) ==
    IF job[p].wrote \cap Watched = {} THEN Idle ELSE [job[p] EXCEPT !.at = "committed"]

(* Two transactions that change the same row come one after the other. *)
Commit(p) ==
    /\ Editing(p, "open")
    /\ \A s \in job[p].wrote : row[s] < MaxEdits
    /\ row' = [s \in Section |-> IF s \in job[p].wrote THEN row[s] + 1 ELSE row[s]]
    /\ cache' = [c \in Store |-> IF Away(p, c) THEN Excuse(c) ELSE cache[c]]
    /\ job' = [q \in Process |->
                 IF q = p THEN AfterCommit(p)
                 ELSE IF Away(p, storeOf[q]) THEN Overtake(q) ELSE job[q]]
    /\ UNCHANGED storeOf

(* The transaction is rolled back: its receivers' on_commit never runs. *)
Rollback(p) ==
    /\ Editing(p, "open")
    /\ job' = [job EXCEPT ![p] = Idle]
    /\ UNCHANGED <<row, cache, storeOf>>

Drop(p) ==
    /\ cache' = [cache EXCEPT ![storeOf[p]] = Empty]
    /\ job' = [q \in Process |->
                 IF q = p
                 THEN IF job[p].staff /\ job[p].at = "committed"
                      THEN [job[p] EXCEPT !.at = "again"] ELSE Idle
                 ELSE IF storeOf[q] = storeOf[p] THEN Overtake(q) ELSE job[q]]
    /\ UNCHANGED <<row, storeOf>>

(* The receiver's callback; the staff API's mixin deletes a second time.   *)
Invalidate(p) ==
    /\ Editing(p, "committed") \/ Editing(p, "again")
    /\ Drop(p)

(* The process dies, or Redis refuses the deletion, which is only logged.  *)
(* A visit that is killed stores nothing.                                  *)
Lose(p) ==
    /\ job[p] # Idle
    /\ IF Editing(p, "committed")
       THEN /\ cache' = [cache EXCEPT ![storeOf[p]] = Excuse(storeOf[p])]
            /\ job' = [q \in Process |-> IF q = p THEN Idle
                                         ELSE IF storeOf[q] = storeOf[p]
                                              THEN Overtake(q) ELSE job[q]]
       ELSE job' = [job EXCEPT ![p] = Idle] /\ UNCHANGED cache
    /\ UNCHANGED <<row, storeOf>>

----------------------------------------------------------------------------
(* Time *)

Older(page) == [s \in Section |->
                  IF page[s].version = row[s] \/ page[s].behind = Stalest
                  THEN page[s] ELSE [page[s] EXCEPT !.behind = @ + 1]]

Expired_never(age) == FALSE
Expired(age) == age + 1 = TTL

(* A visit only holds up the payload it reads for as long as it may last. *)
Tick ==
    /\ \A p \in Process : Visiting(p) => job[p].age < Timeout
    /\ cache' = [c \in Store |->
                   IF ~Cached(c) \/ Expired(cache[c].age) THEN Empty
                   ELSE [cache[c] EXCEPT !.age = IF @ < TTL THEN @ + 1 ELSE @,
                                         !.page = Older(@)]]
    /\ job' = [p \in Process |->
                 IF Visiting(p) THEN [job[p] EXCEPT !.age = @ + 1, !.page = Older(@)]
                 ELSE job[p]]
    /\ UNCHANGED <<row, storeOf>>

EditNext(p) == Begin(p) \/ Write(p) \/ Commit(p) \/ Rollback(p) \/ Invalidate(p)
VisitNext(p) == Miss(p) \/ Read(p) \/ Put(p)

Next ==
    \/ Tick
    \/ \E p \in Process : VisitNext(p) \/ EditNext(p) \/ Lose(p)

Spec == Init /\ [][Next]_vars

(* Time passes; a request or task that was begun is ended, by itself or by *)
(* its time limit.  Nobody has to visit or to edit.                        *)
Ends(p) == Read(p) \/ Put(p) \/ Commit(p) \/ Rollback(p) \/ Invalidate(p)

FairSpec ==
    /\ Spec
    /\ WF_vars(Tick)
    /\ \A p \in Process : WF_vars(Ends(p))

----------------------------------------------------------------------------
Fresh(c, S) == \A s \in S : cache[c].page[s].version = row[s]

(* signals.py:1-9, home.py:37: a payload whose watched sections are not    *)
(* what is committed is about to be deleted by the writer, or it was       *)
(* overtaken: stored by a visit that began to read before a deletion ran,  *)
(* or kept because a deletion was lost or ran in another process's cache.  *)
StaleOnlyIfOvertaken ==
    \A c \in Store : Cached(c) /\ ~Fresh(c, Watched) =>
        \/ cache[c].excused
        \/ \E p \in Process : storeOf[p] = c /\ Editing(p, "committed")

(* CACHE_TTL_MEDIUM (base.py:228): whatever goes wrong, and for the        *)
(* sections nothing invalidates, what a visitor is shown was the truth     *)
(* less than the lifetime of a payload and of a visit ago.                 *)
NeverOlderThanTTL ==
    \A c \in Store : Cached(c) =>
        \A s \in Section : cache[c].page[s].behind < Stalest

(* A change reaches the page: once nobody edits any more, every store ends *)
(* up empty or with the page as it is, for good.                           *)
EventuallyFresh == <>[](\A c \in Store : Cached(c) => Fresh(c, Section))

=============================================================================
