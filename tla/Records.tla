------------------------------- MODULE Records ------------------------------
(***************************************************************************)
(* The records an organization keeps, its merchants, customers, API keys    *)
(* and payment links, and the dead events that operators take up again: how *)
(* they change, what their changes leave in the audit log                   *)
(* (packages/audit) and what a reader finds in its pages.                   *)
(* A handler runs one transaction (withTenantTransaction or                 *)
(* withPlatformOperation) at READ COMMITTED: a statement that changes a     *)
(* record locks it and waits for whoever holds it, then judges its WHERE    *)
(* again, and the event is inserted before the commit under an id that a    *)
(* rollback does not give back.                                             *)
(***************************************************************************)
EXTENDS Integers, FiniteSets

CONSTANTS
  Handlers,     \* requests in flight
  Merchants, Customers, Keys, Links, Parked,  \* ids; Parked: dead outbox events
  Names,        \* names of merchants
  PageSize,     \* limit of a page of the audit log
  MaxEvents,    \* bound: ids of events
  Together,     \* bound: sets of records, of which one has all that change
  Timed,        \* bound: records, once created, in whose behaviours time passes
  MaxClock      \* bound: time

\* Ids are those of one kind of row, and no name or id stands for an absent one.
RecordsAssumption ==
  /\ Merchants \cap (Customers \cup Keys \cup Links \cup Parked) = {}
  /\ Customers \cap (Keys \cup Links \cup Parked) = {}
  /\ Keys \cap (Links \cup Parked) = {}
  /\ Links \cap Parked = {}
  /\ "void" \notin Names
  /\ PageSize \in Nat \ {0}

Recs == Merchants \cup Customers \cup Keys \cup Links \cup Parked
Never == 0
Void == "void"
Blank == "erased"
Filled == "filled"

VARIABLES
  record,   \* committed rows: content, and since when they are ended (*_at)
  trail,    \* committed audit_events
  tx,       \* per handler: its transaction
  clock,    \* time, from 1
  nextId,   \* the identity sequence of audit_events
  walk,     \* a reader of the audit log: what there was, what it got, its cursor
  stale     \* history: records served to a request that came after their end

vars == <<record, trail, tx, clock, nextId, walk, stale>>

NoRow == [content |-> Void, since |-> Never]
NoOp == [kind |-> "none", row |-> Void, content |-> Void]
Idle == [at |-> "idle", op |-> NoOp, start |-> Never, old |-> NoRow, new |-> NoRow, id |-> 0]

Init ==
  /\ record = [r \in Recs |->
       IF r \in Parked THEN [content |-> Filled, since |-> 1] ELSE NoRow]
  /\ trail = {}
  /\ tx = [h \in Handlers |-> Idle]
  /\ clock = 1
  /\ nextId = 1
  /\ walk = [had |-> {}, got |-> {}, before |-> 0, over |-> FALSE, again |-> FALSE]
  /\ stale = {}

-----------------------------------------------------------------------------
\* What the routes ask for.  The content is what a row is to hold.
CreateMerchant == [kind : {"create"}, row : Merchants, content : Names]
RenameMerchant == [kind : {"rename"}, row : Merchants, content : Names]
CreateCustomer == [kind : {"create"}, row : Customers, content : {Filled}]
UpdateCustomer == [kind : {"update"}, row : Customers, content : {Filled}]
DeleteCustomer == [kind : {"end"}, row : Customers, content : {Void}]
EraseCustomer == [kind : {"erase"}, row : Customers, content : {Blank}]
CreateKey == [kind : {"create"}, row : Keys, content : {Filled}]
RevokeKey == [kind : {"end"}, row : Keys, content : {Void}]
CreateLink == [kind : {"create"}, row : Links, content : {Filled}]
DisableLink == [kind : {"end"}, row : Links, content : {Void}]
ReplayDead == [kind : {"replay"}, row : Parked, content : {Void}]

\* A customer is shown, a key lets a request in, a link is opened.
See == [kind : {"see"}, row : Customers \cup Keys \cup Links, content : {Void}]

MerchantRoutes == CreateMerchant \cup RenameMerchant
CustomerRoutes == CreateCustomer \cup UpdateCustomer \cup DeleteCustomer \cup EraseCustomer
KeyRoutes == CreateKey \cup RevokeKey
LinkRoutes == CreateLink \cup DisableLink
Operations == MerchantRoutes \cup CustomerRoutes \cup KeyRoutes \cup LinkRoutes
                \cup ReplayDead \cup See

\* The operations that write to the audit log.
Audited(o) ==
  \/ o.kind \in {"rename", "erase", "replay"}
  \/ o.kind = "create" /\ o.row \in Merchants \cup Keys
  \/ o.kind = "end" /\ o.row \in Keys

Live(v) == v.content # Void /\ v.since = Never

\* Bug: an update finds the deleted as well.
FoundDeleted(o, v) == IF o.kind = "create" THEN v = NoRow ELSE v # NoRow

\* The WHERE of the operation on the row v; a replay takes what it gets.
Found(o, v) ==
  CASE o.kind = "create" -> v = NoRow
    [] o.kind \in {"update", "see"} -> Live(v)
    [] OTHER -> v # NoRow

\* What the statement makes of the row v in a transaction that began at time t.
Effect(o, v, t) ==
  [content |-> IF o.kind \in {"end", "replay"} THEN v.content ELSE o.content,
   since |-> CASE o.kind \in {"end", "erase"} -> IF v.since = Never THEN t ELSE v.since
               [] o.kind = "replay" -> Never
               [] OTHER -> v.since]

-----------------------------------------------------------------------------
\* Bug: the read before the update takes no lock.
HoldingOnceChanged == {"changed", "audited"}

\* Where a transaction has the locks of its row and of its creation.
Holding == {"locked", "changed", "audited"}

\* A merchant is renamed after SELECT ... FOR UPDATE and created under the
\* advisory lock that all creations of the organization take.
LocksFirst(o) == o \in MerchantRoutes

Excludes(o, p) ==
  o.row = p.row \/ (o \in CreateMerchant /\ p \in CreateMerchant)

Free(h) == \A g \in Handlers \ {h} : tx[g].at \in Holding => ~Excludes(tx[g].op, tx[h].op)

\* merchants_tenant_id_name_key: taken, or waited for, by another merchant.
NameFree(h) ==
  LET o == tx[h].op IN
  o \in MerchantRoutes =>
    /\ \A m \in Merchants \ {o.row} : record[m].content # o.content
    /\ \A g \in Handlers \ {h} : tx[g].at \in {"changed", "audited"} /\ tx[g].op \in MerchantRoutes =>
         tx[g].new.content # o.content

Touched ==
  {r \in Recs : \/ record[r] # (IF r \in Parked THEN [content |-> Filled, since |-> 1] ELSE NoRow)
                \/ \E h \in Handlers : tx[h].op.row = r}

\* BEGIN.  A new row has an id of its own.
Begin(h, o) ==
  /\ tx[h].at = "idle"
  /\ \E rows \in Together : Touched \cup {o.row} \subseteq rows
  /\ o.kind = "create" => \A g \in Handlers : tx[g].op.row # o.row
  /\ tx' = [tx EXCEPT ![h] = [Idle EXCEPT !.at = "begun", !.op = o, !.start = clock,
                                          !.old = IF o.kind = "see" THEN record[o.row] ELSE NoRow]]
  /\ UNCHANGED <<record, trail, clock, nextId, walk, stale>>

Lock(h) ==
  /\ tx[h].at = "begun"
  /\ LocksFirst(tx[h].op)
  /\ Free(h)
  /\ Found(tx[h].op, record[tx[h].op.row])
  /\ tx' = [tx EXCEPT ![h].at = "locked", ![h].old = record[tx[h].op.row]]
  /\ UNCHANGED <<record, trail, clock, nextId, walk, stale>>

\* The INSERT or UPDATE.
Change(h) ==
  LET o == tx[h].op
      v == record[o.row]
  IN /\ tx[h].at = IF LocksFirst(o) THEN "locked" ELSE "begun"
     /\ o.kind # "see"
     /\ Free(h)
     /\ NameFree(h)
     /\ Found(o, v)
     /\ tx' = [tx EXCEPT ![h].at = "changed",
                         ![h].old = IF LocksFirst(o) THEN @ ELSE v,
                         ![h].new = Effect(o, v, tx[h].start)]
     /\ UNCHANGED <<record, trail, clock, nextId, walk, stale>>

\* insertAuditEvent, in the transaction of the change.
Audit(h) ==
  /\ tx[h].at = "changed"
  /\ Audited(tx[h].op)
  /\ nextId <= MaxEvents
  /\ nextId' = nextId + 1
  /\ tx' = [tx EXCEPT ![h].at = "audited", ![h].id = nextId]
  /\ UNCHANGED <<record, trail, clock, walk, stale>>

\* The event: a merchant's names before and after, and whether a replay found
\* its event dead; of the rest only what was done.
Event(h) ==
  LET t == tx[h]
      named == t.op \in MerchantRoutes
      replayed == t.op.kind = "replay" /\ t.old.since # Never
  IN [id |-> t.id, kind |-> t.op.kind, row |-> t.op.row, at |-> t.start,
      before |-> IF named THEN t.old.content ELSE Void,
      after |-> CASE named -> t.new.content [] replayed -> Filled [] OTHER -> Void]

Commit(h) ==
  LET o == tx[h].op IN
  /\ tx[h].at = IF Audited(o) THEN "audited" ELSE "changed"
  /\ record' = [record EXCEPT ![o.row] = tx[h].new]
  /\ trail' = IF Audited(o) THEN trail \cup {Event(h)} ELSE trail
  /\ tx' = [tx EXCEPT ![h] = Idle]
  /\ UNCHANGED <<clock, nextId, walk, stale>>

\* Not found, name taken, a deadlock of two renames, a timeout or a crash.
RollBack(h) ==
  /\ tx[h].at # "idle"
  /\ tx' = [tx EXCEPT ![h] = Idle]
  /\ UNCHANGED <<record, trail, clock, nextId, walk, stale>>

\* The read that decides whether a record is served.
Look(h) ==
  /\ tx[h].at = "begun"
  /\ tx[h].op.kind = "see"
  /\ Found(tx[h].op, record[tx[h].op.row])
  /\ tx' = [tx EXCEPT ![h].at = "seen"]
  /\ UNCHANGED <<record, trail, clock, nextId, walk, stale>>

\* The answer, for a link after the transaction that makes intent and session.
Answer(h) ==
  /\ tx[h].at = "seen"
  /\ stale' = IF tx[h].old.since = Never THEN stale ELSE stale \cup {tx[h].op.row}
  /\ tx' = [tx EXCEPT ![h] = Idle]
  /\ UNCHANGED <<record, trail, clock, nextId, walk>>

-----------------------------------------------------------------------------
\* The tenant's policy hides the operations of the platform.
Visible == {e.id : e \in {e \in trail : e.kind # "replay"}}

\* Bug: the page begins with the last event of the one before.
FromCursor == {i \in Visible : walk.before = 0 \/ i <= walk.before}

BelowCursor == {i \in Visible : walk.before = 0 \/ i < walk.before}

\* ORDER BY id DESC LIMIT PageSize.
Page(page, all) ==
  /\ \A i \in page, j \in all \ page : j < i
  /\ page = all \/ Cardinality(page) = PageSize
  /\ Cardinality(page) <= PageSize

\* next_before is the last id of the page, and an empty page the end.
ReadPage ==
  /\ ~walk.over
  /\ \E page \in SUBSET BelowCursor : \E last \in page \cup {walk.before} :
       /\ Page(page, BelowCursor)
       /\ page = {} \/ (last \in page /\ \A i \in page : last <= i)
       /\ walk' = [had |-> IF walk.before = 0 THEN Visible ELSE walk.had,
                   got |-> walk.got \cup page,
                   before |-> last,
                   over |-> page = {},
                   again |-> (walk.again \/ walk.got \cap page # {})]
  /\ UNCHANGED <<record, trail, tx, clock, nextId, stale>>

Tick ==
  /\ clock < MaxClock
  /\ \E r \in Timed : record[r] # NoRow
  /\ clock' = clock + 1
  /\ UNCHANGED <<record, trail, tx, nextId, walk, stale>>

Next ==
  \/ \E h \in Handlers :
       \/ \E o \in Operations : Begin(h, o)
       \/ Lock(h) \/ Change(h) \/ Audit(h) \/ Commit(h) \/ RollBack(h)
       \/ Look(h) \/ Answer(h)
  \/ ReadPage \/ Tick

Spec == Init /\ [][Next]_vars

-----------------------------------------------------------------------------
Told(r) == {e \in trail : e.row = r}

\* Read in the order of the ids, the events of a merchant tell its names one
\* after the other, from the creation to the name it has.
NamesAreTold ==
  \A m \in Merchants :
    /\ record[m] = NoRow <=> Told(m) = {}
    /\ \A e \in Told(m) :
         LET earlier == {d \in Told(m) : d.id < e.id}
             later == {d \in Told(m) : d.id > e.id}
         IN /\ earlier = {} => e.kind = "create" /\ e.before = Void
            /\ \A d \in earlier :
                 (\A c \in earlier : c.id <= d.id) => e.kind = "rename" /\ e.before = d.after
            /\ later = {} => e.after = record[m].content

\* Customers without data are those whose erasure is told; a key is revoked
\* when the first event that tells it began, however often it is revoked; and
\* of the operators who replay a dead event one is told to have done it.
EndsAreTold ==
  /\ \A c \in Customers : record[c].content = Blank <=> Told(c) # {}
  /\ \A c \in Customers : record[c].content = Blank => record[c].since # Never
  /\ \A k \in Keys :
       LET ends == {e \in Told(k) : e.kind = "end"} IN
       /\ record[k] = NoRow <=> Told(k) = {}
       /\ record[k].since = Never <=> ends = {}
       /\ \A e \in ends : (\A d \in ends : e.id <= d.id) => record[k].since = e.at
  /\ \A p \in Parked :
       Cardinality({e \in Told(p) : e.after = Filled}) = IF record[p].since = Never THEN 1 ELSE 0

\* Who pages through the log to its end gets each event once and misses none
\* that was there when he began, whatever is committed meanwhile.
PagesAreComplete == ~walk.again /\ (walk.over => walk.had \subseteq walk.got)

\* The log tells what happened to the records and its pages tell the log; and
\* a customer, a key or a link that has ended serves nobody who comes later.
RecordsHold == NamesAreTold /\ EndsAreTold /\ PagesAreComplete /\ stale = {}
=============================================================================
