----------------------------- MODULE SourceSync -----------------------------
(***************************************************************************)
(* One data source of a tenant: its lifecycle (the /v1/admin/sources       *)
(* endpoints of rig/main.py, rig/credentials.py), the runs of SyncRunner   *)
(* (rig/connectors/base.py) and the two streams of a secondary connector   *)
(* (stripe.py, zendesk.py): owners, which resolve_account links to an      *)
(* account or queues for a person, and items, which belong to an owner.    *)
(*                                                                         *)
(* A worker runs one sync in one READ COMMITTED transaction.  It reads the *)
(* source's row without a lock, so the source may be disconnected and      *)
(* reconnected while it fetches; landing a record locks its raw_record row *)
(* until the transaction ends.  An upstream error is caught: the run is    *)
(* committed as failed, with what was applied and without new cursors.     *)
(*                                                                         *)
(* The k-th record of a stream upstream has cursor value k: no two records *)
(* of a stream are created in the same second.                             *)
(***************************************************************************)
EXTENDS Naturals, Sequences

CONSTANTS Worker,       \* request threads
          MaxOwner,     \* bound on the owners upstream
          MaxItem,      \* bound on the items upstream
          MaxConnects,  \* bound on creations and reconnections
          Crashes       \* whether processes and connections may die

ASSUME BoundsAssumption ==
  /\ MaxOwner \in Nat /\ MaxItem \in Nat /\ MaxConnects \in Nat
  /\ Crashes \in BOOLEAN

VARIABLES
  owners,   \* number of owners upstream (external)
  items,    \* the owners of the items upstream, in order (external)
  source,   \* the data_source row, and whether credentials are stored
  raw,      \* committed raw_record rows
  link,     \* [Owner -> what is known of the owner]
  stored,   \* items with a committed invoice or ticket row
  accepting, \* owners whose pending candidate an accept handler has read
  job       \* [Worker -> sync under way, with what it has not committed]

upstream == <<owners, items>>
data == <<raw, link, stored>>
vars == <<upstream, source, data, accepting, job>>

Owner == 1..MaxOwner
Item == 1..MaxItem
Stream == {"owners", "items"}
Record == [stream : {"owners"}, id : Owner] \cup [stream : {"items"}, id : Item]
Cursors == [owners : 0..MaxOwner, items : 0..MaxItem]
NoCursors == [owners |-> 0, items |-> 0]
Idle == [phase |-> "idle"]

Records(s, ids) == {[stream |-> s, id |-> k] : k \in ids}

\* What fetch lists: the records after the cursor.
OwnersAfter(cursor) == {o \in Owner : cursor < o /\ o <= owners}
ItemsAfter(cursor) == {k \in Item : cursor < k /\ k <= Len(items)}

-----------------------------------------------------------------------------

Init ==
  /\ owners = 0
  /\ items = <<>>
  /\ source = [status |-> "absent", credentials |-> FALSE, cursors |-> NoCursors, connects |-> 0]
  /\ raw = {}
  /\ link = [o \in Owner |-> "unknown"]
  /\ stored = {}
  /\ accepting = {}
  /\ job = [w \in Worker |-> Idle]

NewOwner ==
  /\ owners < MaxOwner
  /\ owners' = owners + 1
  /\ UNCHANGED <<items, source, data, accepting, job>>

NewItem ==
  /\ Len(items) < MaxItem
  /\ \E o \in 1..owners : items' = Append(items, o)
  /\ UNCHANGED <<owners, source, data, accepting, job>>

\* POST /v1/admin/sources: a new source, or a disconnected one reactivated.
CreateSource ==
  /\ source.status \in {"absent", "disconnected"}
  /\ source.connects < MaxConnects
  /\ source' = [status |-> "active", credentials |-> TRUE, cursors |-> NoCursors,
                connects |-> source.connects + 1]
  /\ UNCHANGED <<upstream, data, accepting, job>>

\* DELETE /v1/admin/sources/{id}, whatever the status.
DisconnectSource ==
  /\ source.status # "absent"
  /\ source' = [source EXCEPT !.status = "disconnected", !.credentials = FALSE]
  /\ UNCHANGED <<upstream, data, accepting, job>>

\* POST /v1/admin/identity/candidates/{id}/accept: SELECT the pending candidate.
AcceptRead ==
  /\ \E o \in Owner \ accepting :
       /\ link[o] = "queued"
       /\ accepting' = accepting \cup {o}
  /\ UNCHANGED <<upstream, source, data, job>>

\* The link and the candidate are written by id, rejected meanwhile or not.
AcceptWrite ==
  /\ \E o \in accepting :
       /\ link' = [link EXCEPT ![o] = "linked"]
       /\ accepting' = accepting \ {o}
  /\ UNCHANGED <<upstream, source, raw, stored, job>>

\* One UPDATE guarded by the pending status.
RejectCandidate ==
  /\ \E o \in Owner : link[o] = "queued" /\ link' = [link EXCEPT ![o] = "rejected"]
  /\ UNCHANGED <<upstream, source, raw, stored, accepting, job>>

-----------------------------------------------------------------------------
(* POST /v1/admin/sources/{id}/sync.                                       *)

\* The source and its credentials are read; SyncRunner copies the cursors.
SyncStart(w) ==
  /\ job[w] = Idle
  /\ source.status \in {"active", "action_required"}
  /\ source.credentials
  /\ job' = [job EXCEPT ![w] = [phase |-> "owners", connects |-> source.connects,
                                cursors |-> source.cursors, raw |-> {},
                                linked |-> {}, queued |-> {}, stored |-> {}]]
  /\ UNCHANGED <<upstream, source, data, accepting>>

\* Mutant of RowsFree: landing locks out every other run.
NoOtherRun(w, records) == \A v \in Worker \ {w} : job[v] = Idle

\* No other run holds the raw_record rows of these records.
RowsFree(w, records) ==
  \A v \in Worker \ {w} : job[v] # Idle => job[v].raw \cap records = {}

\* resolve_account for some owners: one already linked stays so, a match links
\* others, the rest are queued unless a candidate exists.
Resolved(j, batch, matched) ==
  LET new == {o \in batch : link[o] # "linked"} IN
  [j EXCEPT !.raw = @ \cup Records("owners", batch),
            !.linked = @ \cup (new \cap matched),
            !.queued = @ \cup (new \ matched)]

Linked(j, o) == link[o] = "linked" \/ o \in j.linked

\* Mutant of Attached: an item is stored whether or not its owner is linked.
AttachedAll(j, batch) ==
  [j EXCEPT !.raw = @ \cup Records("items", batch), !.stored = @ \cup batch]

\* _apply_invoice, _apply_ticket: an item whose owner is not linked is deferred.
Attached(j, batch) ==
  [j EXCEPT !.raw = @ \cup Records("items", batch),
            !.stored = @ \cup {k \in batch : Linked(j, items[k])}]

\* Mutant of Watermark: the next run resumes after the record not yet seen.
WatermarkPast(cursor, batch) ==
  IF batch = {} THEN cursor ELSE 1 + CHOOSE k \in batch : \A n \in batch : n <= k

\* The watermark: the highest cursor value seen, or the cursor itself.
Watermark(cursor, batch) ==
  IF batch = {} THEN cursor ELSE CHOOSE k \in batch : \A n \in batch : n <= k

\* The owners stream, to its end.
SyncOwners(w) ==
  /\ job[w].phase = "owners"
  /\ LET batch == OwnersAfter(job[w].cursors.owners) IN
     /\ RowsFree(w, Records("owners", batch))
     /\ \E matched \in SUBSET batch :
          job' = [job EXCEPT ![w] =
            [Resolved(job[w], batch, matched) EXCEPT
               !.phase = "items", !.cursors.owners = Watermark(@, batch)]]
  /\ UNCHANGED <<upstream, source, data, accepting>>

\* The items stream, to its end.
SyncItems(w) ==
  /\ job[w].phase = "items"
  /\ LET batch == ItemsAfter(job[w].cursors.items) IN
     /\ RowsFree(w, Records("items", batch))
     /\ job' = [job EXCEPT ![w] =
          [Attached(job[w], batch) EXCEPT
             !.phase = "finish", !.cursors.items = Watermark(@, batch)]]
  /\ UNCHANGED <<upstream, source, data, accepting>>

\* The transaction of a run commits the records it applied.
CommitData(j) ==
  /\ raw' = raw \cup j.raw
  /\ link' = [o \in Owner |->
       IF o \in j.linked THEN "linked"
       ELSE IF o \in j.queued /\ link[o] = "unknown" THEN "queued" ELSE link[o]]
  /\ stored' = stored \cup j.stored

\* Mutant of Succeeded: the run also marks the source healthy again.
SucceededActive(j) == [source EXCEPT !.cursors = j.cursors, !.status = "active"]

\* UPDATE data_source SET cursors, whatever its status.
Succeeded(j) == [source EXCEPT !.cursors = j.cursors]

SyncSucceed(w) ==
  /\ job[w].phase = "finish"
  /\ source' = Succeeded(job[w])
  /\ CommitData(job[w])
  /\ job' = [job EXCEPT ![w] = Idle]
  /\ UNCHANGED <<upstream, accepting>>

\* Mutant of Failed: the cursors read so far are saved with the failure.
FailedWithCursors(j) ==
  [source EXCEPT !.status = "action_required",
                 !.cursors = [owners |-> owners, items |-> Len(items)]]

\* UPDATE data_source SET status, whatever it is by then.
Failed(j) == [source EXCEPT !.status = "action_required"]

\* fetch or apply raises after some records of a stream were applied.
SyncFail(w) ==
  /\ \/ /\ job[w].phase = "owners"
        /\ \E batch \in SUBSET OwnersAfter(job[w].cursors.owners) :
             /\ RowsFree(w, Records("owners", batch))
             /\ \E matched \in SUBSET batch : CommitData(Resolved(job[w], batch, matched))
     \/ /\ job[w].phase = "items"
        /\ \E batch \in SUBSET ItemsAfter(job[w].cursors.items) :
             /\ RowsFree(w, Records("items", batch))
             /\ CommitData(Attached(job[w], batch))
  /\ source' = Failed(job[w])
  /\ job' = [job EXCEPT ![w] = Idle]
  /\ UNCHANGED <<upstream, accepting>>

\* The process dies, or the database refuses a statement: all is rolled back.
SyncAbort(w) ==
  /\ Crashes
  /\ job[w] # Idle
  /\ job' = [job EXCEPT ![w] = Idle]
  /\ UNCHANGED <<upstream, source, data, accepting>>

Next ==
  \/ NewOwner \/ NewItem \/ CreateSource \/ DisconnectSource
  \/ AcceptRead \/ AcceptWrite \/ RejectCandidate
  \/ \E w \in Worker :
       SyncStart(w) \/ SyncOwners(w) \/ SyncItems(w) \/ SyncSucceed(w)
         \/ SyncFail(w) \/ SyncAbort(w)

Spec == Init /\ [][Next]_vars

\* A run goes on: the connectors' HTTP clients time out (30 s) and PostgreSQL
\* serves the waiters of a lock.
RunFairness(w) ==
  SF_vars(SyncOwners(w)) /\ SF_vars(SyncItems(w)) /\ WF_vars(SyncSucceed(w))

FairSpec == Spec /\ \A w \in Worker : RunFairness(w)

\* Somebody also keeps syncing a source that can be synced.
SyncingSpec == FairSpec /\ \A w \in Worker : WF_vars(SyncStart(w))

-----------------------------------------------------------------------------

Job ==
  [phase : {"idle"}]
    \cup [phase : {"owners", "items", "finish"}, connects : 0..MaxConnects, cursors : Cursors,
          raw : SUBSET Record, linked : SUBSET Owner, queued : SUBSET Owner,
          stored : SUBSET Item]

TypeOK ==
  /\ owners \in 0..MaxOwner
  /\ items \in Seq(Owner) /\ Len(items) <= MaxItem
  /\ source \in [status : {"absent", "active", "action_required", "disconnected"},
                 credentials : BOOLEAN, cursors : Cursors, connects : 0..MaxConnects]
  /\ raw \subseteq Record
  /\ link \in [Owner -> {"unknown", "queued", "linked", "rejected"}]
  /\ stored \subseteq Item
  /\ accepting \subseteq Owner
  /\ job \in [Worker -> Job]

\* Whatever runs overlap, fail or overwrite each other's cursors, every record
\* at or below the saved cursor has landed, so none is lost by not being
\* fetched again, and every such owner is linked or was put before a person.
NothingSkipped ==
  /\ Records("owners", 1..source.cursors.owners) \subseteq raw
  /\ Records("items", 1..source.cursors.items) \subseteq raw
  /\ \A o \in 1..source.cursors.owners : link[o] # "unknown"

\* An item is stored only under an owner that is linked to an account.
StoredUnderLink ==
  \A k \in stored : k <= Len(items) /\ link[items[k]] = "linked"

\* An active source has credentials and a disconnected one has none, however
\* its runs end.
CredentialsFollowStatus ==
  /\ source.status = "active" => source.credentials
  /\ source.status \in {"absent", "disconnected"} => ~source.credentials

\* Runs that wait for each other's records end all the same.
SyncsEnd == \A w \in Worker : (job[w] # Idle) ~> (job[w] = Idle)

-----------------------------------------------------------------------------
(* What comments say and the code does not do.                             *)

\* main.py:309: a disconnected source's data is frozen.
FrozenWhenDisconnected ==
  [][source.status = "disconnected" /\ source'.status = "disconnected" => UNCHANGED <<raw, stored>>]_vars

\* main.py:286: a source without credentials can be recreated.
RecreatedWithoutCredentials ==
  ~source.credentials => source.status \in {"absent", "disconnected"}

\* main.py:236: a reconnected source has fresh cursors, which only runs started
\* since then advance.
FreshAfterReconnect ==
  [][\A w \in Worker :
       job[w] # Idle /\ job'[w] = Idle /\ source'.cursors # source.cursors =>
         job[w].connects = source.connects]_vars

\* stripe.py:5: a deferred item attaches on a later run once its owner is
\* linked, as long as the source keeps its credentials.
DeferredAttaches ==
  \A k \in Item :
    (k <= Len(items) /\ link[items[k]] = "linked" /\ []source.credentials) ~> (k \in stored)
=============================================================================
