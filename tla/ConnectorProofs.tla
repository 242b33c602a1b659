-------------------------- MODULE ConnectorProofs ---------------------------
(***************************************************************************)
(* Proofs about SourceSync and IdentityResolution, for every set of        *)
(* workers and of people, every finite set of companies and every bound.   *)
(*                                                                         *)
(* SourceSync: SyncInv adds to NothingSkipped and StoredUnderLink what     *)
(* every run under way knows (Knows), which is the same as NothingSkipped  *)
(* with the run's own rows put over the committed ones.  Its commit then   *)
(* establishes NothingSkipped for its cursors, whatever the cursors are    *)
(* that it overwrites.                                                     *)
(*                                                                         *)
(* IdentityResolution: IdInv says how the rows of the runs under way fit   *)
(* the committed rows (Fits) and that the locks keep them apart (Apart).   *)
(***************************************************************************)
EXTENDS MCConnectors, FiniteSetTheorems, TLAPS

-----------------------------------------------------------------------------
(* SourceSync.                                                             *)

\* The watermark of a stream is a cursor again, and what lies below it lay
\* below the old one or is in the batch.
LEMMA OwnersWatermark ==
  ASSUME TypeOK, NEW cursor \in 0..MaxOwner
  PROVE  LET batch == OwnersAfter(cursor)
             mark == Watermark(cursor, batch)
         IN /\ mark \in 0..MaxOwner
            /\ \A o \in 1..mark : o \in 1..cursor \/ o \in batch
<1> DEFINE batch == OwnersAfter(cursor)
<1>1. batch # {} => owners \in batch /\ \A n \in batch : n <= owners
  BY BoundsAssumption DEF TypeOK, OwnersAfter, Owner
<1>2. batch # {} => Watermark(cursor, batch) \in batch
  BY <1>1 DEF Watermark
<1>3. CASE batch = {}
  BY <1>3, BoundsAssumption DEF Watermark
<1>4. CASE batch # {}
  <2> DEFINE mark == Watermark(cursor, batch)
  <2>1. mark \in batch /\ MaxOwner \in Nat /\ MaxItem \in Nat
    BY <1>2, <1>4, BoundsAssumption
  <2>2. owners \in 0..MaxOwner
    BY BoundsAssumption DEF TypeOK
  <2>3. batch = {k \in 1..MaxOwner : cursor < k /\ k <= owners}
    BY DEF OwnersAfter, Owner
  <2> HIDE DEF mark, batch
  <2>4. mark \in 0..MaxOwner /\ \A k \in 1..mark : k \in 1..cursor \/ k \in batch
    BY <2>1, <2>2, <2>3
  <2> QED
    BY <2>4 DEF mark, batch
<1> QED
  BY <1>3, <1>4

\* The same of the items stream.
LEMMA ItemsWatermark ==
  ASSUME TypeOK, NEW cursor \in 0..MaxItem
  PROVE  LET batch == ItemsAfter(cursor)
             mark == Watermark(cursor, batch)
         IN /\ mark \in 0..MaxItem
            /\ \A k \in 1..mark : k \in 1..cursor \/ k \in batch
<1> DEFINE batch == ItemsAfter(cursor)
<1>1. batch # {} => Len(items) \in batch /\ \A n \in batch : n <= Len(items)
  BY BoundsAssumption DEF TypeOK, ItemsAfter, Item
<1>2. batch # {} => Watermark(cursor, batch) \in batch
  BY <1>1 DEF Watermark
<1>3. CASE batch = {}
  BY <1>3, BoundsAssumption DEF Watermark
<1>4. CASE batch # {}
  <2> DEFINE mark == Watermark(cursor, batch)
  <2>1. mark \in batch /\ MaxOwner \in Nat /\ MaxItem \in Nat
    BY <1>2, <1>4, BoundsAssumption
  <2>2. Len(items) \in 0..MaxItem
    BY BoundsAssumption DEF TypeOK
  <2>3. batch = {k \in 1..MaxItem : cursor < k /\ k <= Len(items)}
    BY DEF ItemsAfter, Item
  <2> HIDE DEF mark, batch
  <2>4. mark \in 0..MaxItem /\ \A k \in 1..mark : k \in 1..cursor \/ k \in batch
    BY <2>1, <2>2, <2>3
  <2> QED
    BY <2>4 DEF mark, batch
<1> QED
  BY <1>3, <1>4

\* TypeOK holds initially and is preserved by every step.
LEMMA TypeInit == Init => TypeOK
  BY BoundsAssumption
  DEF Init, TypeOK, Cursors, NoCursors, Idle, Job, Owner, Item, Record

\* What a batch of owners, and one of items, makes of a job.
OwnersLanded(i, batch, matched, j) ==
  /\ j \in Job /\ j # Idle
  /\ j.connects = i.connects /\ j.cursors = i.cursors
  /\ j.raw = i.raw \cup Records("owners", batch)
  /\ \A o \in Owner : o \in j.linked <=> o \in i.linked \/ (o \in matched /\ link[o] # "linked")
  /\ \A o \in Owner : o \in j.queued <=>
       o \in i.queued \/ (o \in batch /\ o \notin matched /\ link[o] # "linked")
  /\ j.stored = i.stored

ItemsLanded(i, batch, j) ==
  /\ j \in Job /\ j # Idle
  /\ j.connects = i.connects /\ j.cursors = i.cursors
  /\ j.raw = i.raw \cup Records("items", batch)
  /\ j.linked = i.linked /\ j.queued = i.queued
  /\ \A k \in Item : k \in j.stored <=> k \in i.stored \/ (k \in batch /\ Linked(i, items[k]))

LEMMA ResolvedJob ==
  ASSUME TypeOK, NEW w \in Worker, job[w].phase = "owners",
         NEW batch, batch \subseteq Owner, NEW matched, matched \subseteq batch
  PROVE  OwnersLanded(job[w], batch, matched, Resolved(job[w], batch, matched))
<1>1. job[w] \in Job
  BY DEF TypeOK
<1>2. Records("owners", batch) \subseteq Record
  BY DEF Records, Record
<1> QED
  BY <1>1, <1>2 DEF OwnersLanded, Resolved, Job, Idle

LEMMA AttachedJob ==
  ASSUME TypeOK, NEW w \in Worker, job[w].phase = "items", NEW batch, batch \subseteq Item
  PROVE  ItemsLanded(job[w], batch, Attached(job[w], batch))
<1>1. job[w] \in Job
  BY DEF TypeOK
<1>2. Records("items", batch) \subseteq Record
  BY DEF Records, Record
<1> QED
  BY <1>1, <1>2 DEF ItemsLanded, Attached, Job, Idle

\* The rows a run commits are rows of their tables.
LEMMA CommitType ==
  ASSUME TypeOK, NEW j \in Job, j # Idle, CommitData(j)
  PROVE  /\ raw' \subseteq Record
         /\ link' \in [Owner -> {"unknown", "queued", "linked", "rejected"}]
         /\ stored' \subseteq Item
<1>1. j.raw \subseteq Record /\ j.stored \subseteq Item
  BY DEF Job, Idle
<1> QED
  BY <1>1 DEF TypeOK, CommitData

LEMMA TypeStep ==
  ASSUME TypeOK, [Next]_vars
  PROVE  TypeOK'
<1> USE BoundsAssumption
<1>1. CASE UNCHANGED vars
  BY <1>1 DEF TypeOK, vars, upstream, data
<1>2. CASE NewOwner
  BY <1>2 DEF TypeOK, NewOwner, data
<1>3. CASE NewItem
  BY <1>3 DEF TypeOK, NewItem, data, Owner
<1>4. CASE CreateSource
  BY <1>4 DEF TypeOK, CreateSource, upstream, data, Cursors, NoCursors
<1>5. CASE DisconnectSource
  BY <1>5 DEF TypeOK, DisconnectSource, upstream, data
<1>6. CASE AcceptRead
  BY <1>6 DEF TypeOK, AcceptRead, upstream, data
<1>7. CASE AcceptWrite
  BY <1>7 DEF TypeOK, AcceptWrite, upstream
<1>8. CASE RejectCandidate
  BY <1>8 DEF TypeOK, RejectCandidate, upstream
<1>9. ASSUME NEW w \in Worker, SyncStart(w) PROVE TypeOK'
  <2>1. source.connects \in 0..MaxConnects /\ source.cursors \in Cursors
    BY DEF TypeOK
  <2>2. job' \in [Worker -> Job]
    BY <1>9, <2>1 DEF TypeOK, SyncStart, Job
  <2> QED
    BY <1>9, <2>2 DEF TypeOK, SyncStart, upstream, data
<1>10. ASSUME NEW w \in Worker, SyncOwners(w) PROVE TypeOK'
  <2>1. PICK matched \in SUBSET OwnersAfter(job[w].cursors.owners) :
          job' = [job EXCEPT ![w] =
            [Resolved(job[w], OwnersAfter(job[w].cursors.owners), matched) EXCEPT
               !.phase = "items",
               !.cursors.owners = Watermark(@, OwnersAfter(job[w].cursors.owners))]]
    BY <1>10 DEF SyncOwners
  <2> DEFINE batch == OwnersAfter(job[w].cursors.owners)
             j == Resolved(job[w], batch, matched)
  <2>2. job[w] \in Job /\ job[w] # Idle /\ job[w].phase = "owners"
    BY <1>10 DEF TypeOK, SyncOwners, Idle
  <2>3. job[w].cursors.owners \in 0..MaxOwner
    BY <2>2 DEF Job, Idle, Cursors
  <2>4. batch \in SUBSET Owner
    BY DEF OwnersAfter
  <2>5. j \in Job /\ j # Idle /\ j.cursors = job[w].cursors
    <3>1. matched \subseteq batch
      OBVIOUS
    <3> HIDE DEF batch
    <3> QED
      BY <2>2, <2>4, <3>1, ResolvedJob DEF OwnersLanded
  <2>6. Watermark(job[w].cursors.owners, batch) \in 0..MaxOwner
    BY <2>3, OwnersWatermark
  <2>7. job' = [job EXCEPT ![w] = [j EXCEPT !.phase = "items", !.cursors.owners =
                  Watermark(job[w].cursors.owners, batch)]]
    BY <2>1, <2>5
  <2> HIDE DEF batch, j
  <2>8. job' \in [Worker -> Job]
    BY <2>5, <2>6, <2>7 DEF TypeOK, Job, Cursors, Idle
  <2> QED
    BY <1>10, <2>8 DEF TypeOK, SyncOwners, upstream, data
<1>11. ASSUME NEW w \in Worker, SyncItems(w) PROVE TypeOK'
  <2> DEFINE batch == ItemsAfter(job[w].cursors.items)
             j == Attached(job[w], batch)
  <2>2. job[w] \in Job /\ job[w] # Idle /\ job[w].phase = "items"
    BY <1>11 DEF TypeOK, SyncItems, Idle
  <2>3. job[w].cursors.items \in 0..MaxItem
    BY <2>2 DEF Job, Idle, Cursors
  <2>4. batch \in SUBSET Item
    BY DEF ItemsAfter
  <2>5. j \in Job /\ j # Idle /\ j.cursors = job[w].cursors
    BY <2>2, <2>4, AttachedJob DEF ItemsLanded
  <2>6. Watermark(job[w].cursors.items, batch) \in 0..MaxItem
    BY <2>3, ItemsWatermark
  <2>7. job' = [job EXCEPT ![w] = [j EXCEPT !.phase = "finish", !.cursors.items =
                  Watermark(job[w].cursors.items, batch)]]
    BY <1>11, <2>5 DEF SyncItems
  <2> HIDE DEF batch, j
  <2>8. job' \in [Worker -> Job]
    BY <2>5, <2>6, <2>7 DEF TypeOK, Job, Cursors, Idle
  <2> QED
    BY <1>11, <2>8 DEF TypeOK, SyncItems, upstream, data
<1>12. ASSUME NEW w \in Worker, SyncSucceed(w) PROVE TypeOK'
  <2>1. job[w] \in Job /\ job[w] # Idle
    BY <1>12 DEF TypeOK, SyncSucceed, Idle
  <2>2. raw' \subseteq Record /\ stored' \subseteq Item
          /\ link' \in [Owner -> {"unknown", "queued", "linked", "rejected"}]
    BY <1>12, <2>1, CommitType DEF SyncSucceed
  <2>3. job[w].cursors \in Cursors
    BY <2>1 DEF Job, Idle
  <2> QED
    BY <1>12, <2>2, <2>3 DEF TypeOK, SyncSucceed, Succeeded, upstream, Job, Idle
<1>13. ASSUME NEW w \in Worker, SyncFail(w) PROVE TypeOK'
  <2> DEFINE DataType ==
        /\ raw' \subseteq Record /\ stored' \subseteq Item
        /\ link' \in [Owner -> {"unknown", "queued", "linked", "rejected"}]
  <2>1. DataType
    <3>1. ASSUME NEW batch \in SUBSET OwnersAfter(job[w].cursors.owners),
                 NEW matched \in SUBSET batch, job[w].phase = "owners",
                 CommitData(Resolved(job[w], batch, matched))
          PROVE  DataType
      <4>1. batch \subseteq Owner /\ matched \subseteq batch
        BY DEF OwnersAfter
      <4>2. OwnersLanded(job[w], batch, matched, Resolved(job[w], batch, matched))
        BY <3>1, <4>1, ResolvedJob
      <4> QED
        BY <3>1, <4>2, CommitType DEF OwnersLanded
    <3>2. ASSUME NEW batch \in SUBSET ItemsAfter(job[w].cursors.items),
                 job[w].phase = "items", CommitData(Attached(job[w], batch))
          PROVE  DataType
      <4>1. batch \in SUBSET Item
        BY DEF ItemsAfter
      <4> QED
        BY <3>2, <4>1, AttachedJob, CommitType DEF ItemsLanded
    <3> QED
      BY <1>13, <3>1, <3>2 DEF SyncFail
  <2> QED
    BY <1>13, <2>1 DEF TypeOK, SyncFail, Failed, upstream, Job, Idle
<1>14. ASSUME NEW w \in Worker, SyncAbort(w) PROVE TypeOK'
  BY <1>14 DEF TypeOK, SyncAbort, upstream, data, Job, Idle
<1> QED
  BY <1>1, <1>2, <1>3, <1>4, <1>5, <1>6, <1>7, <1>8, <1>9, <1>10, <1>11, <1>12,
     <1>13, <1>14 DEF Next

\* What a run knows: what lies at or below its cursors has landed or lands with
\* it, such owners are linked or put before a person or are about to be, and
\* what it stores belongs to owners that are linked or that it links.
Knows(j) ==
  /\ Records("owners", 1..j.cursors.owners) \subseteq raw \cup j.raw
  /\ Records("items", 1..j.cursors.items) \subseteq raw \cup j.raw
  /\ \A o \in 1..j.cursors.owners : link[o] # "unknown" \/ o \in j.linked \cup j.queued
  /\ \A k \in j.stored : k <= Len(items) /\ Linked(j, items[k])

SyncInv ==
  /\ TypeOK
  /\ NothingSkipped
  /\ StoredUnderLink
  /\ \A w \in Worker : job[w] # Idle => Knows(job[w])

\* Committing a run that knows leaves nothing skipped, and what other runs know
\* stays so.
LEMMA CommitKnows ==
  ASSUME SyncInv, NEW j \in Job, j # Idle, Knows(j), CommitData(j), UNCHANGED items
  PROVE  /\ Records("owners", 1..j.cursors.owners) \subseteq raw'
         /\ Records("items", 1..j.cursors.items) \subseteq raw'
         /\ \A o \in 1..j.cursors.owners : link'[o] # "unknown"
         /\ StoredUnderLink'
         /\ raw \subseteq raw'
         /\ \A o \in Owner : link[o] # "unknown" => link'[o] # "unknown"
         /\ \A o \in Owner : link[o] = "linked" => link'[o] = "linked"
<1>1. /\ raw' = raw \cup j.raw /\ stored' = stored \cup j.stored
      /\ \A o \in Owner : link'[o] = IF o \in j.linked THEN "linked"
           ELSE IF o \in j.queued /\ link[o] = "unknown" THEN "queued" ELSE link[o]
  BY DEF CommitData
<1>2. j.cursors.owners \in 0..MaxOwner /\ j.stored \subseteq Item /\ stored \subseteq Item
  BY DEF SyncInv, TypeOK, Job, Idle, Cursors
<1>3. \A o \in 1..j.cursors.owners : o \in Owner
  BY <1>2, BoundsAssumption DEF Owner
<1>4. \A k \in 1..Len(items) : items[k] \in Owner
  BY DEF SyncInv, TypeOK
<1>5. \A o \in Owner : link[o] = "linked" => link'[o] = "linked"
  BY <1>1
<1>6. StoredUnderLink'
  <2> SUFFICES ASSUME NEW k \in stored' PROVE k <= Len(items) /\ link'[items[k]] = "linked"
    BY DEF StoredUnderLink
  <2>1. k \in Item /\ k <= Len(items) /\ (link[items[k]] = "linked" \/ items[k] \in j.linked)
    BY <1>1, <1>2 DEF SyncInv, StoredUnderLink, Knows, Linked
  <2>2. items[k] \in Owner
    BY <2>1, <1>4, BoundsAssumption DEF Item
  <2> QED
    BY <2>1, <2>2, <1>1
<1> QED
  BY <1>1, <1>3, <1>5, <1>6 DEF Knows

\* The other runs know what they knew when rows were only added and links only made.
LEMMA KnowsStays ==
  ASSUME SyncInv, NEW j \in Job, j # Idle, Knows(j),
         raw \subseteq raw',
         \A o \in Owner : link[o] # "unknown" => link'[o] # "unknown",
         \A o \in Owner : link[o] = "linked" => link'[o] = "linked",
         Len(items) <= Len(items'), Len(items') \in Nat,
         \A k \in 1..Len(items) : items'[k] = items[k]
  PROVE  Knows(j)'
<1>1. j.cursors.owners \in 0..MaxOwner /\ j.stored \subseteq Item
  BY DEF Job, Idle, Cursors
<1>2. \A o \in 1..j.cursors.owners : o \in Owner
  BY <1>1, BoundsAssumption DEF Owner
<1>3. \A o \in 1..j.cursors.owners : link'[o] # "unknown" \/ o \in j.linked \cup j.queued
  BY <1>2 DEF Knows
<1>4. ASSUME NEW k \in j.stored
      PROVE  k <= Len(items') /\ (link'[items'[k]] = "linked" \/ items'[k] \in j.linked)
  <2>1. /\ k \in 1..MaxItem /\ k <= Len(items)
        /\ link[items[k]] = "linked" \/ items[k] \in j.linked
    BY <1>1 DEF Knows, Linked, Item
  <2>2. Len(items) \in Nat /\ \A n \in 1..Len(items) : items[n] \in Owner
    BY DEF SyncInv, TypeOK
  <2>3. k \in 1..Len(items)
    BY <2>1, <2>2, BoundsAssumption
  <2> QED
    BY <2>1, <2>2, <2>3
<1>5. /\ Records("owners", 1..j.cursors.owners) \subseteq raw' \cup j.raw
      /\ Records("items", 1..j.cursors.items) \subseteq raw' \cup j.raw
  BY DEF Knows
<1> QED
  BY <1>3, <1>4, <1>5 DEF Knows, Linked, Records

\* Landing a batch of owners, and one of items, a run still knows.
LEMMA ResolvedKnows ==
  ASSUME SyncInv, NEW w \in Worker, job[w].phase = "owners",
         NEW batch, batch \subseteq Owner, NEW matched, matched \subseteq batch,
         NEW j, j = Resolved(job[w], batch, matched)
  PROVE  /\ Knows(j)
         /\ \A o \in batch : link[o] # "unknown" \/ o \in j.linked \cup j.queued
<1>0. TypeOK
  BY DEF SyncInv
<1>1. Knows(job[w])
  BY DEF SyncInv, Idle
<1>2. OwnersLanded(job[w], batch, matched, j)
  BY <1>0, ResolvedJob
<1>3. \A o \in 1..j.cursors.owners : o \in Owner
  BY <1>2, BoundsAssumption DEF OwnersLanded, Owner, Job, Idle, Cursors
<1>4. \A k \in j.stored : k \in Item
  BY <1>2 DEF OwnersLanded, Job, Idle
<1>5. \A k \in j.stored : k <= Len(items) /\ Linked(j, items[k])
  <2> SUFFICES ASSUME NEW k \in j.stored PROVE k <= Len(items) /\ Linked(j, items[k])
    OBVIOUS
  <2>1. k <= Len(items) /\ Linked(job[w], items[k])
    BY <1>1, <1>2 DEF Knows, OwnersLanded
  <2>2. items[k] \in Owner
    BY <2>1, <1>0, <1>4, BoundsAssumption DEF TypeOK, Item
  <2> QED
    BY <2>1, <2>2, <1>2 DEF OwnersLanded, Linked
<1>6. /\ Records("owners", 1..j.cursors.owners) \subseteq raw \cup j.raw
      /\ Records("items", 1..j.cursors.items) \subseteq raw \cup j.raw
  BY <1>1, <1>2 DEF Knows, OwnersLanded
<1>7. \A o \in 1..j.cursors.owners : link[o] # "unknown" \/ o \in j.linked \cup j.queued
  BY <1>1, <1>2, <1>3 DEF Knows, OwnersLanded
<1>8. \A o \in batch : link[o] # "unknown" \/ o \in j.linked \cup j.queued
  BY <1>2 DEF OwnersLanded
<1> QED
  BY <1>5, <1>6, <1>7, <1>8 DEF Knows

LEMMA AttachedKnows ==
  ASSUME SyncInv, NEW w \in Worker, job[w].phase = "items",
         NEW batch, batch \subseteq ItemsAfter(job[w].cursors.items),
         NEW j, j = Attached(job[w], batch)
  PROVE  Knows(j)
<1>0. TypeOK /\ batch \subseteq Item
  BY DEF SyncInv, ItemsAfter
<1>1. Knows(job[w])
  BY DEF SyncInv, Idle
<1>2. ItemsLanded(job[w], batch, j)
  BY <1>0, AttachedJob
<1>3. \A k \in batch : k <= Len(items)
  BY DEF ItemsAfter
<1>4. \A k \in j.stored : k \in Item
  BY <1>2 DEF ItemsLanded, Job, Idle
<1>5. \A k \in j.stored : k <= Len(items) /\ Linked(j, items[k])
  BY <1>1, <1>2, <1>3, <1>4 DEF Knows, ItemsLanded, Linked
<1> QED
  BY <1>1, <1>2, <1>5 DEF Knows, ItemsLanded

\* The next state of a run, and what the others still know.
LEMMA JobsKnow ==
  ASSUME SyncInv, NEW w \in Worker, NEW j, job' = [job EXCEPT ![w] = j],
         j # Idle => Knows(j)',
         \A i \in Job : i # Idle /\ Knows(i) => Knows(i)'
  PROVE  (\A v \in Worker : job[v] # Idle => Knows(job[v]))'
<1> SUFFICES ASSUME NEW v \in Worker, job'[v] # Idle
             PROVE  \E i : i = job'[v] /\ Knows(i)'
  BY DEF Knows, Linked
<1>1. job \in [Worker -> Job]
  BY DEF SyncInv, TypeOK
<1>2. CASE v = w
  BY <1>1, <1>2
<1>3. CASE v # w
  BY <1>1, <1>3 DEF SyncInv
<1> QED
  BY <1>2, <1>3

\* SyncInv is preserved by every step.
LEMMA SyncInvStep ==
  ASSUME SyncInv, [Next]_vars
  PROVE  SyncInv'
<1>0. TypeOK /\ TypeOK'
  BY TypeStep DEF SyncInv
<1>l. Len(items) \in Nat /\ Len(items') \in Nat /\ source.cursors \in Cursors
  BY <1>0 DEF TypeOK
<1>o. \A o \in 1..source.cursors.owners : o \in Owner
  BY <1>l, BoundsAssumption DEF Cursors, Owner
<1>s. \A k \in stored : k \in 1..Len(items) /\ items[k] \in Owner
  BY <1>0, <1>l, BoundsAssumption DEF SyncInv, StoredUnderLink, TypeOK, Item
<1>1. CASE UNCHANGED vars
  BY <1>1, <1>0 DEF SyncInv, NothingSkipped, StoredUnderLink, Knows, Linked, vars, upstream, data
\* Rows and links of the steps that are not of a run.
<1>2. ASSUME UNCHANGED <<raw, stored, job>>, NothingSkipped', StoredUnderLink',
             \A o \in Owner : link[o] # "unknown" => link'[o] # "unknown",
             \A o \in Owner : link[o] = "linked" => link'[o] = "linked",
             Len(items) <= Len(items'), \A k \in 1..Len(items) : items'[k] = items[k]
      PROVE  SyncInv'
  <2>1. \A i \in Job : i # Idle /\ Knows(i) => Knows(i)'
    BY <1>2, <1>l, KnowsStays
  <2>2. (\A v \in Worker : job[v] # Idle => Knows(job[v]))'
    <3> SUFFICES ASSUME NEW v \in Worker, job[v] # Idle
                 PROVE  \E i : i = job'[v] /\ Knows(i)'
      BY <1>2 DEF Knows, Linked
    <3> QED
      BY <1>0, <1>2, <2>1 DEF SyncInv, TypeOK
  <2> QED
    BY <1>0, <1>2, <2>2 DEF SyncInv
<1>3. CASE NewOwner
  BY <1>3, <1>2, <1>l DEF NewOwner, data, SyncInv, NothingSkipped, StoredUnderLink
<1>4. CASE NewItem
  <2>1. \A k \in 1..Len(items) : items'[k] = items[k]
    BY <1>4, <1>0 DEF NewItem, TypeOK
  <2>2. Len(items) <= Len(items')
    BY <1>4, <1>0 DEF NewItem, TypeOK
  <2>3. StoredUnderLink'
    BY <1>4, <1>s, <1>l, <2>1, <2>2 DEF NewItem, data, SyncInv, StoredUnderLink
  <2> QED
    BY <1>4, <1>2, <2>1, <2>2, <2>3 DEF NewItem, data, SyncInv, NothingSkipped
<1>5. CASE CreateSource
  <2>1. NothingSkipped'
    BY <1>5 DEF CreateSource, NoCursors, NothingSkipped, Records
  <2> QED
    BY <1>5, <1>2, <1>l, <2>1 DEF CreateSource, data, upstream, SyncInv, StoredUnderLink
<1>6. CASE DisconnectSource
  <2>1. source'.cursors = source.cursors
    BY <1>6, <1>0 DEF DisconnectSource, TypeOK
  <2> QED
    BY <1>6, <1>2, <1>l, <2>1
    DEF DisconnectSource, data, upstream, SyncInv, NothingSkipped, StoredUnderLink
<1>7. CASE AcceptRead
  BY <1>7, <1>2, <1>l DEF AcceptRead, data, upstream, SyncInv, NothingSkipped, StoredUnderLink
<1>8. CASE AcceptWrite
  <2>1. \A o \in Owner : link'[o] = link[o] \/ link'[o] = "linked"
    BY <1>8, <1>0 DEF AcceptWrite, TypeOK
  <2>2. StoredUnderLink'
    BY <1>8, <1>s, <2>1 DEF AcceptWrite, upstream, SyncInv, StoredUnderLink
  <2>3. NothingSkipped'
    BY <1>8, <1>o, <2>1 DEF AcceptWrite, SyncInv, NothingSkipped
  <2> QED
    BY <1>8, <1>2, <1>l, <2>1, <2>2, <2>3 DEF AcceptWrite, upstream
<1>9. CASE RejectCandidate
  <2>1. \A o \in Owner : link'[o] = link[o] \/ (link[o] = "queued" /\ link'[o] = "rejected")
    BY <1>9, <1>0 DEF RejectCandidate, TypeOK
  <2>2. StoredUnderLink'
    BY <1>9, <1>s, <2>1 DEF RejectCandidate, upstream, SyncInv, StoredUnderLink
  <2>3. NothingSkipped'
    BY <1>9, <1>o, <2>1 DEF RejectCandidate, SyncInv, NothingSkipped
  <2> QED
    BY <1>9, <1>2, <1>l, <2>1, <2>2, <2>3 DEF RejectCandidate, upstream
\* A step of a run that commits nothing.
<1>10. ASSUME NEW w \in Worker, NEW j, job' = [job EXCEPT ![w] = j], j # Idle => Knows(j),
              UNCHANGED <<upstream, source, data>>
       PROVE  SyncInv'
  <2>1. \A i : Knows(i) => Knows(i)'
    BY <1>10 DEF Knows, Linked, upstream, data
  <2>2. (\A v \in Worker : job[v] # Idle => Knows(job[v]))'
    BY <1>10, <2>1, JobsKnow
  <2> QED
    BY <1>0, <1>10, <2>2 DEF SyncInv, NothingSkipped, StoredUnderLink, upstream, data
\* A step of a run that commits what it has.
<1>11. ASSUME NEW w \in Worker, NEW j \in Job, j # Idle, Knows(j), CommitData(j),
              job' = [job EXCEPT ![w] = Idle], UNCHANGED items,
              source'.cursors \in {source.cursors, j.cursors}
       PROVE  SyncInv'
  <2>1. /\ Records("owners", 1..j.cursors.owners) \subseteq raw'
        /\ Records("items", 1..j.cursors.items) \subseteq raw'
        /\ \A o \in 1..j.cursors.owners : link'[o] # "unknown"
        /\ StoredUnderLink'
        /\ raw \subseteq raw'
        /\ \A o \in Owner : link[o] # "unknown" => link'[o] # "unknown"
        /\ \A o \in Owner : link[o] = "linked" => link'[o] = "linked"
    BY <1>11, CommitKnows
  <2>2. NothingSkipped'
    BY <1>11, <2>1, <1>o DEF SyncInv, NothingSkipped
  <2>3. \A i \in Job : i # Idle /\ Knows(i) => Knows(i)'
    BY <1>11, <1>l, <2>1, KnowsStays
  <2>4. (\A v \in Worker : job[v] # Idle => Knows(job[v]))'
    BY <1>11, <2>3, JobsKnow
  <2> QED
    BY <1>0, <2>1, <2>2, <2>4 DEF SyncInv
<1>12. ASSUME NEW w \in Worker, SyncStart(w) PROVE SyncInv'
  <2> DEFINE j == [phase |-> "owners", connects |-> source.connects,
                   cursors |-> source.cursors, raw |-> {},
                   linked |-> {}, queued |-> {}, stored |-> {}]
  <2>1. PICK i : i = j
    OBVIOUS
  <2>2. Knows(i)
    <3>1. /\ i.raw = {} /\ i.stored = {} /\ i.cursors = source.cursors
      BY <2>1
    <3> QED
      BY <3>1 DEF Knows, SyncInv, NothingSkipped
  <2>3. job' = [job EXCEPT ![w] = i]
    BY <1>12, <2>1 DEF SyncStart
  <2> QED
    BY <1>10, <1>12, <2>2, <2>3 DEF SyncStart
<1>13. ASSUME NEW w \in Worker, SyncOwners(w) PROVE SyncInv'
  <2>1. PICK batch, matched, landed, j :
          /\ batch = OwnersAfter(job[w].cursors.owners) /\ matched \subseteq batch
          /\ landed = Resolved(job[w], batch, matched)
          /\ j = [landed EXCEPT !.phase = "items", !.cursors.owners = Watermark(@, batch)]
          /\ job' = [job EXCEPT ![w] = j]
    BY <1>13 DEF SyncOwners
  <2>2. job[w].phase = "owners" /\ job[w] \in Job /\ batch \subseteq Owner
    BY <1>13, <1>0, <2>1 DEF SyncOwners, TypeOK, OwnersAfter
  <2>3. OwnersLanded(job[w], batch, matched, landed)
    BY <1>0, <2>1, <2>2, ResolvedJob
  <2>4. /\ Knows(landed)
        /\ \A o \in batch : link[o] # "unknown" \/ o \in landed.linked \cup landed.queued
    <3>1. job[w].phase = "owners" /\ batch \subseteq Owner /\ matched \subseteq batch
            /\ landed = Resolved(job[w], batch, matched)
      BY <2>1, <2>2
    <3> QED
      BY <3>1, ResolvedKnows
  <2>5. job[w].cursors.owners \in 0..MaxOwner /\ landed.cursors = job[w].cursors
    BY <2>2, <2>3 DEF Job, Idle, Cursors, OwnersLanded
  <2>6. \A o \in 1..Watermark(landed.cursors.owners, batch) :
          o \in 1..landed.cursors.owners \/ o \in batch
    BY <1>0, <2>1, <2>5, OwnersWatermark
  <2>7. /\ j.raw = landed.raw /\ j.linked = landed.linked
        /\ j.queued = landed.queued /\ j.stored = landed.stored
        /\ j.cursors.owners = Watermark(landed.cursors.owners, batch)
        /\ j.cursors.items = landed.cursors.items
    BY <2>1, <2>3 DEF OwnersLanded, Job, Idle, Cursors
  <2>8. Records("owners", batch) \subseteq landed.raw
    BY <2>3 DEF OwnersLanded
  <2>9. Knows(j)
    <3>1. Records("owners", 1..j.cursors.owners) \subseteq raw \cup j.raw
      BY <2>4, <2>6, <2>7, <2>8 DEF Knows, Records
    <3>2. \A o \in 1..j.cursors.owners : link[o] # "unknown" \/ o \in j.linked \cup j.queued
      BY <2>4, <2>6, <2>7 DEF Knows
    <3> QED
      BY <2>4, <2>7, <3>1, <3>2 DEF Knows, Linked
  <2> QED
    BY <1>10, <1>13, <2>1, <2>9 DEF SyncOwners
<1>14. ASSUME NEW w \in Worker, SyncItems(w) PROVE SyncInv'
  <2>1. PICK batch, landed, j :
          /\ batch = ItemsAfter(job[w].cursors.items)
          /\ landed = Attached(job[w], batch)
          /\ j = [landed EXCEPT !.phase = "finish", !.cursors.items = Watermark(@, batch)]
          /\ job' = [job EXCEPT ![w] = j]
    BY <1>14 DEF SyncItems
  <2>2. job[w].phase = "items" /\ job[w] \in Job /\ batch \subseteq Item
    BY <1>14, <1>0, <2>1 DEF SyncItems, TypeOK, ItemsAfter
  <2>3. ItemsLanded(job[w], batch, landed)
    BY <1>0, <2>1, <2>2, AttachedJob
  <2>4. Knows(landed)
    BY <2>1, <2>2, AttachedKnows
  <2>5. job[w].cursors.items \in 0..MaxItem /\ landed.cursors = job[w].cursors
    BY <2>2, <2>3 DEF Job, Idle, Cursors, ItemsLanded
  <2>6. \A o \in 1..Watermark(landed.cursors.items, batch) :
          o \in 1..landed.cursors.items \/ o \in batch
    BY <1>0, <2>1, <2>5, ItemsWatermark
  <2>7. /\ j.raw = landed.raw /\ j.linked = landed.linked
        /\ j.queued = landed.queued /\ j.stored = landed.stored
        /\ j.cursors.items = Watermark(landed.cursors.items, batch)
        /\ j.cursors.owners = landed.cursors.owners
    BY <2>1, <2>3 DEF ItemsLanded, Job, Idle, Cursors
  <2>8. Records("items", batch) \subseteq landed.raw
    BY <2>3 DEF ItemsLanded
  <2>9. Knows(j)
    <3>1. Records("items", 1..j.cursors.items) \subseteq raw \cup j.raw
      BY <2>4, <2>6, <2>7, <2>8 DEF Knows, Records
    <3> QED
      BY <2>4, <2>7, <3>1 DEF Knows, Linked
  <2> QED
    BY <1>10, <1>14, <2>1, <2>9 DEF SyncItems
<1>15. ASSUME NEW w \in Worker, SyncSucceed(w) PROVE SyncInv'
  <2>1. job[w] \in Job /\ job[w] # Idle /\ Knows(job[w])
    BY <1>0, <1>15 DEF SyncSucceed, SyncInv, TypeOK, Idle
  <2>2. source'.cursors = job[w].cursors
    BY <1>0, <1>15 DEF SyncSucceed, Succeeded, TypeOK
  <2> QED
    BY <1>11, <1>15, <2>1, <2>2 DEF SyncSucceed, upstream
<1>16. ASSUME NEW w \in Worker, SyncFail(w) PROVE SyncInv'
  <2>1. source'.cursors = source.cursors /\ UNCHANGED items /\ job' = [job EXCEPT ![w] = Idle]
    BY <1>0, <1>16 DEF SyncFail, Failed, TypeOK, upstream
  <2>2. ASSUME NEW batch, batch \subseteq OwnersAfter(job[w].cursors.owners),
               NEW matched, matched \subseteq batch, job[w].phase = "owners",
               CommitData(Resolved(job[w], batch, matched))
        PROVE  SyncInv'
    <3>1. batch \subseteq Owner
      BY <2>2 DEF OwnersAfter
    <3>2. PICK j : j = Resolved(job[w], batch, matched)
      OBVIOUS
    <3>3. OwnersLanded(job[w], batch, matched, j) /\ Knows(j)
      BY <1>0, <2>2, <3>1, <3>2, ResolvedJob, ResolvedKnows
    <3> QED
      BY <1>11, <2>1, <2>2, <3>2, <3>3 DEF OwnersLanded
  <2>3. ASSUME NEW batch, batch \subseteq ItemsAfter(job[w].cursors.items),
               job[w].phase = "items", CommitData(Attached(job[w], batch))
        PROVE  SyncInv'
    <3>1. batch \subseteq Item
      BY <2>3 DEF ItemsAfter
    <3>2. PICK j : j = Attached(job[w], batch)
      OBVIOUS
    <3>3. ItemsLanded(job[w], batch, j) /\ Knows(j)
      BY <1>0, <2>3, <3>1, <3>2, AttachedJob, AttachedKnows
    <3> QED
      BY <1>11, <2>1, <2>3, <3>2, <3>3 DEF ItemsLanded
  <2> QED
    BY <1>16, <2>2, <2>3 DEF SyncFail
<1>17. ASSUME NEW w \in Worker, SyncAbort(w) PROVE SyncInv'
  <2>1. PICK j : j = Idle
    OBVIOUS
  <2> QED
    BY <1>10, <1>17, <2>1 DEF SyncAbort
<1> QED
  BY <1>1, <1>3, <1>4, <1>5, <1>6, <1>7, <1>8, <1>9, <1>12, <1>13, <1>14, <1>15,
     <1>16, <1>17 DEF Next

LEMMA SyncInvInit == Init => SyncInv
<1> SUFFICES ASSUME Init PROVE SyncInv
  OBVIOUS
<1>1. TypeOK
  BY TypeInit
<1>2. NothingSkipped /\ StoredUnderLink
  BY DEF Init, NoCursors, NothingSkipped, StoredUnderLink, Records
<1> QED
  BY <1>1, <1>2 DEF SyncInv, Init

\* Every reachable state of a source and its runs is well typed.
THEOREM SyncTypes == Spec => []TypeOK
  BY TypeInit, TypeStep, PTL DEF Spec

\* However many runs overlap, fail, are aborted or overwrite each other's cursors,
\* what lies at or below the saved cursor has landed (SyncRunner.run, base.py).
THEOREM SyncSkipsNothing == Spec => []NothingSkipped
<1>1. SyncInv => NothingSkipped
  BY DEF SyncInv
<1> QED
  BY <1>1, SyncInvInit, SyncInvStep, PTL DEF Spec

\* An invoice or a ticket is stored only under an owner linked to an account
\* (_apply_invoice, _apply_ticket).
THEOREM SyncStoresUnderLinks == Spec => []StoredUnderLink
<1>1. SyncInv => StoredUnderLink
  BY DEF SyncInv
<1> QED
  BY <1>1, SyncInvInit, SyncInvStep, PTL DEF Spec

\* However runs end while people connect and disconnect the source, an active one
\* has credentials and a disconnected one has none (main.py, rig/credentials.py).
THEOREM SyncCredentials == Spec => []CredentialsFollowStatus
<1>1. Init => TypeOK /\ CredentialsFollowStatus
  BY TypeInit DEF Init, CredentialsFollowStatus
<1>2. ASSUME TypeOK, CredentialsFollowStatus, [Next]_vars
      PROVE  TypeOK' /\ CredentialsFollowStatus'
  <2>1. TypeOK'
    BY <1>2, TypeStep
  <2> SUFFICES CredentialsFollowStatus'
    BY <2>1
  <2>2. \/ UNCHANGED source \/ CreateSource \/ DisconnectSource
        \/ \E w \in Worker : SyncSucceed(w) \/ SyncFail(w)
    BY <1>2 DEF Next, vars, NewOwner, NewItem, AcceptRead, AcceptWrite, RejectCandidate,
         SyncStart, SyncOwners, SyncItems, SyncAbort
  <2>3. CASE UNCHANGED source
    BY <1>2, <2>3 DEF CredentialsFollowStatus
  <2>4. CASE CreateSource
    BY <2>4 DEF CreateSource, CredentialsFollowStatus
  <2>5. CASE DisconnectSource
    BY <1>2, <2>5 DEF TypeOK, DisconnectSource, CredentialsFollowStatus
  <2>6. ASSUME NEW w \in Worker, SyncSucceed(w) PROVE CredentialsFollowStatus'
    BY <1>2, <2>6 DEF TypeOK, SyncSucceed, Succeeded, CredentialsFollowStatus
  <2>7. ASSUME NEW w \in Worker, SyncFail(w) PROVE CredentialsFollowStatus'
    <3>1. source' = Failed(job[w])
      BY <2>7 DEF SyncFail
    <3> QED
      BY <1>2, <3>1 DEF TypeOK, Failed, CredentialsFollowStatus
  <2> QED
    BY <2>2, <2>3, <2>4, <2>5, <2>6, <2>7
<1> QED
  BY <1>1, <1>2, PTL DEF Spec

-----------------------------------------------------------------------------
(* IdentityResolution.                                                     *)

\* A non-empty set of natural numbers has a least one: the finite sets 0..x of
\* its members x are well-founded under inclusion.
LEMMA LeastNatural ==
  ASSUME NEW S, S \subseteq Nat, S # {}
  PROVE  \E x \in S : \A y \in S : x <= y
<1> DEFINE T == {0..x : x \in S}
<1>1. T \subseteq FiniteSubsetsOf(Nat) /\ T # {}
  <2>1. \A x \in S : IsFiniteSet(0..x) /\ 0..x \subseteq Nat
    BY FS_Interval
  <2> QED
    BY <2>1 DEF FiniteSubsetsOf
<1>2. PICK I \in T : \A J \in T : <<J, I>> \notin StrictSubsetOrdering(Nat)
  <2>1. \A R, Q, U : IsWellFoundedOn(R, Q) /\ U \subseteq Q /\ U # {} =>
                       \E x \in U : \A y \in U : <<y, x>> \notin R
    BY WFMin
  <2> HIDE DEF T
  <2> QED
    BY <1>1, <2>1, FS_StrictSubsetOrderingWellFounded
<1>3. PICK x \in S : I = 0..x
  OBVIOUS
<1>4. ASSUME NEW y \in S, y < x PROVE FALSE
  <2>1. 0..y \in T /\ 0..y \subseteq I /\ I \subseteq Nat /\ 0..y # I
    BY <1>3, <1>4
  <2> QED
    BY <1>2, <2>1 DEF StrictSubsetOrdering
<1> QED
  BY <1>4

\* A non-empty set of ids has a least one.
LEMMA LeastId ==
  ASSUME NEW S, S \subseteq Nat, S # {}
  PROVE  Min(S) \in S
  BY LeastNatural DEF Min

\* Ids are natural numbers, and 0 is none of them.
LEMMA IdsAreNaturals == Id \subseteq Nat /\ 0 \notin Id
<1>1. Cardinality(Company) \in Nat
  BY CompaniesAssumption, FS_CardinalityType
<1> QED
  BY <1>1, CompaniesAssumption DEF Id

\* Rows by key, of some of the keys.
Rows(K, R) == UNION {[D -> R] : D \in SUBSET K}

\* A transaction that wrote nothing has no rows.
LEMMA NoRows ==
  ASSUME NEW K, NEW R
  PROVE  <<>> \in Rows(K, R) /\ DOMAIN <<>> = {}
<1>1. <<>> \in [{} -> R] /\ DOMAIN <<>> = {}
  OBVIOUS
<1> QED
  BY <1>1 DEF Rows

\* What a set of rows is made of.
LEMMA RowsOf ==
  ASSUME NEW K, NEW R, NEW f \in Rows(K, R)
  PROVE  /\ DOMAIN f \subseteq K
         /\ \A k \in DOMAIN f : f[k] \in R
  BY DEF Rows

\* Writing a row adds or replaces it and leaves the others alone.
LEMMA PutRow ==
  ASSUME NEW K, NEW R, NEW f \in Rows(K, R), NEW k \in K, NEW row \in R
  PROVE  /\ Put(f, k, row) \in Rows(K, R)
         /\ DOMAIN Put(f, k, row) = DOMAIN f \cup {k}
         /\ Put(f, k, row)[k] = row
         /\ \A x \in DOMAIN f : x # k => Put(f, k, row)[x] = f[x]
<1>1. DOMAIN f \subseteq K /\ \A x \in DOMAIN f : f[x] \in R
  BY RowsOf
<1>2. Put(f, k, row) \in [DOMAIN f \cup {k} -> R]
  BY <1>1 DEF Put
<1> QED
  BY <1>1, <1>2 DEF Put, Rows

\* The same, of the rows of accounts and of links.
LEMMA PutAccount ==
  ASSUME NEW f, f \in Rows(Id, AccountRow), NEW k \in Id, NEW row \in AccountRow,
         NEW g, g = Put(f, k, row)
  PROVE  /\ g \in Rows(Id, AccountRow)
         /\ DOMAIN g = DOMAIN f \cup {k}
         /\ g[k] = row
         /\ \A x \in DOMAIN f : x # k => g[x] = f[x]
<1>1. Put(f, k, row) \in Rows(Id, AccountRow)
  BY PutRow
<1> QED
  BY <1>1 DEF Put

LEMMA PutLink ==
  ASSUME NEW f, f \in Rows(Company, LinkRow), NEW k \in Company, NEW row \in LinkRow,
         NEW g, g = Put(f, k, row)
  PROVE  /\ g \in Rows(Company, LinkRow)
         /\ DOMAIN g = DOMAIN f \cup {k}
         /\ g[k] = row
         /\ \A x \in DOMAIN f : x # k => g[x] = f[x]
<1>1. Put(f, k, row) \in Rows(Company, LinkRow)
  BY PutRow
<1> QED
  BY <1>1 DEF Put

\* A run under way.
Run ==
  [phase : {"land", "match", "update", "write"}, todo : Seq(Company),
   found : [to : Id \cup {0}, likeness : 0..100], raw : SUBSET Company,
   accounts : Rows(Id, AccountRow), links : Rows(Company, LinkRow), queued : SUBSET Company]

\* Types, those of the rows of a run included.
IdRows ==
  /\ account \in [Id -> AccountRow \cup {NoAccount}]
  /\ sourceLink \in [Company -> LinkRow]
  /\ candidate \in [Company -> [status : {"none", "pending", "accepted", "rejected"},
                                resolved : Id \cup {0}]]
  /\ deciding \in [Reviewer -> Company \cup {Nobody}]
  /\ run \in [Syncer -> Run \cup {NoRun}]

\* Accounts that runs committed for a company, those a run has created and not
\* committed, and those that a run may refer to.
MintedFor(c) == {i \in Id : account[i] # NoAccount /\ account[i].by = "run" /\ account[i].for = c}
OwnMinted(j, c) == {i \in DOMAIN j.accounts : account[i] = NoAccount /\ j.accounts[i].for = c}
Known(j, i) == i \in Id /\ (i \in DOMAIN j.accounts \/ account[i] # NoAccount)

\* What holds of committed rows: the properties, every link is to an account, and
\* a company with an account that a run created is linked.
Committed ==
  /\ DecisionsAgree
  /\ MintedOnce
  /\ DomainsListedOnce
  /\ \A c \in Company : sourceLink[c].to # 0 => account[sourceLink[c].to] # NoAccount
  /\ \A c \in Company : MintedFor(c) # {} => sourceLink[c].to # 0

\* A run's own rows: over a committed account it keeps whom the account is for; a
\* row of no committed account is the only one for a company that the run holds
\* and links, and that has no account yet.
OwnAccounts(j) ==
  \A i \in DOMAIN j.accounts :
    LET row == j.accounts[i] IN
    /\ IsInjective(row.domains)
    /\ account[i] # NoAccount => row.for = account[i].for /\ row.by = account[i].by
    /\ account[i] = NoAccount =>
         /\ row.by = "run" /\ row.for \in j.raw \cap DOMAIN j.links
         /\ MintedFor(row.for) = {}
         /\ OwnMinted(j, row.for) = {i}

OwnLinks(j) ==
  \A c \in DOMAIN j.links : j.links[c].by \in {"created", "match"} /\ Known(j, j.links[c].to)

\* The company in hand has landed; while it is matched it has no account.
AtHand(j) ==
  /\ j.phase # "land" => j.todo # <<>> /\ Head(j.todo) \in j.raw
  /\ j.phase \in {"match", "write"} =>
       MintedFor(Head(j.todo)) = {} /\ OwnMinted(j, Head(j.todo)) = {}
  /\ j.phase = "update" => Known(j, j.found.to)
  /\ j.phase = "write" => j.found = NoMatch \/ Known(j, j.found.to)

Fits(j) == OwnAccounts(j) /\ OwnLinks(j) /\ AtHand(j)
\* Row locks keep what two runs write apart.
Apart(j, k) == j.raw \cap k.raw = {} /\ DOMAIN j.accounts \cap DOMAIN k.accounts = {}

IdInv ==
  /\ IdRows
  /\ Committed
  /\ \A w \in Syncer : Running(w) => Fits(run[w])
  /\ \A w, v \in Syncer : Running(w) /\ Running(v) /\ w # v => Apart(run[w], run[v])

\* The strengthened types imply the type invariant of the module.
LEMMA TypesFollow == IdRows => IdTypeOK
<1> SUFFICES ASSUME IdRows PROVE IdTypeOK
  OBVIOUS
<1>1. ASSUME NEW w \in Syncer, Running(w)
      PROVE  /\ run[w].phase \in {"land", "match", "update", "write"}
             /\ run[w].raw \subseteq Company /\ run[w].queued \subseteq Company
             /\ DOMAIN run[w].accounts \subseteq Id /\ DOMAIN run[w].links \subseteq Company
  <2>1. run[w] \in Run
    BY <1>1 DEF IdRows, Running
  <2>2. run[w].accounts \in Rows(Id, AccountRow) /\ run[w].links \in Rows(Company, LinkRow)
    BY <2>1 DEF Run
  <2> QED
    BY <2>1, <2>2, RowsOf DEF Run
<1> QED
  BY <1>1 DEF IdRows, IdTypeOK

\* The fields of a run under way.
LEMMA RunOf ==
  ASSUME NEW j \in Run
  PROVE  /\ j # NoRun
         /\ j.accounts \in Rows(Id, AccountRow) /\ j.links \in Rows(Company, LinkRow)
         /\ DOMAIN j.accounts \subseteq Id /\ DOMAIN j.links \subseteq Company
         /\ \A i \in DOMAIN j.accounts : j.accounts[i] \in AccountRow
         /\ \A c \in DOMAIN j.links : j.links[c] \in LinkRow
         /\ j.raw \subseteq Company /\ j.todo \in Seq(Company)
         /\ j.phase \in {"land", "match", "update", "write"}
         /\ j.found \in [to : Id \cup {0}, likeness : 0..100]
<1>1. j.accounts \in Rows(Id, AccountRow) /\ j.links \in Rows(Company, LinkRow)
  BY DEF Run
<1>2. j # NoRun
  BY DEF Run, NoRun
<1> QED
  BY <1>1, <1>2, RowsOf DEF Run

LEMMA AccountRowIs ==
  ASSUME NEW row \in AccountRow
  PROVE  row # NoAccount
  BY DEF AccountRow, NoAccount

\* IdInv holds initially.
LEMMA IdInvInit == IdInit => IdInv
<1> SUFFICES ASSUME IdInit PROVE IdInv
  OBVIOUS
<1>1. IdRows
  BY DEF IdInit, IdRows, LinkRow, Unlinked, NoCandidate
<1>2. \A i \in Id : account[i] = NoAccount
  BY DEF IdInit
<1>3. \A c \in Company : MintedFor(c) = {}
  BY <1>2 DEF MintedFor
<1>4. DecisionsAgree /\ MintedOnce /\ DomainsListedOnce
  BY <1>2 DEF IdInit, DecisionsAgree, MintedOnce, DomainsListedOnce, Existing, NoCandidate,
     Unlinked
<1>5. Committed
  BY <1>3, <1>4 DEF Committed, IdInit, Unlinked
<1>6. \A w \in Syncer : ~Running(w)
  BY DEF IdInit, Running
<1> QED
  BY <1>1, <1>5, <1>6 DEF IdInv

\* A step of a run that commits nothing.
LEMMA RunStep ==
  ASSUME IdInv, NEW w \in Syncer, NEW j \in Run \cup {NoRun}, run' = [run EXCEPT ![w] = j],
         UNCHANGED <<account, sourceLink, candidate, deciding>>,
         j # NoRun => Fits(j),
         j # NoRun => \A v \in Others(w) : Apart(j, run[v])
  PROVE  IdInv'
<1>1. IdRows'
  BY DEF IdInv, IdRows
<1>2. Committed'
  BY DEF IdInv, Committed, DecisionsAgree, MintedOnce, DomainsListedOnce, MintedFor, Existing
<1>3. \A i : Fits(i) => Fits(i)'
  BY DEF Fits, OwnAccounts, OwnLinks, AtHand, MintedFor, OwnMinted, Known
<1>4. \A v \in Syncer : run'[v] = IF v = w THEN j ELSE run[v]
  BY DEF IdInv, IdRows
<1>5. (\A v \in Syncer : Running(v) => Fits(run[v]))'
  <2> SUFFICES ASSUME NEW v \in Syncer, run'[v] # NoRun PROVE Fits(run[v])'
    BY DEF Running
  <2>1. PICK i : i = run'[v]
    OBVIOUS
  <2>2. Fits(i)
    BY <1>4, <2>1 DEF IdInv, Running
  <2>3. Fits(i)'
    BY <1>3, <2>2
  <2> QED
    BY <2>1, <2>3 DEF Fits, OwnAccounts, OwnLinks, AtHand, MintedFor, OwnMinted, Known
<1>6. (\A u, v \in Syncer : Running(u) /\ Running(v) /\ u # v => Apart(run[u], run[v]))'
  BY <1>4 DEF IdInv, Running, Others, Apart
<1> QED
  BY <1>1, <1>2, <1>5, <1>6 DEF IdInv

\* A run that starts has written nothing.
LEMMA StartStep ==
  ASSUME IdInv, NEW w \in Syncer, RunStart(w)
  PROVE  IdInv'
<1>1. PICK origin, listed, order :
        /\ listed \subseteq Company /\ order \in SetToSeqs(listed)
        /\ run' = [run EXCEPT ![w] =
             [phase |-> "land", todo |-> order, found |-> NoMatch,
              raw |-> {}, accounts |-> <<>>, links |-> <<>>, queued |-> {}]]
  BY DEF RunStart
<1>2. PICK j : j = [phase |-> "land", todo |-> order, found |-> NoMatch,
                    raw |-> {}, accounts |-> <<>>, links |-> <<>>, queued |-> {}]
  OBVIOUS
<1>3. order \in Seq(Company)
  <2>1. IsFiniteSet(listed)
    BY <1>1, CompaniesAssumption, FS_Subset
  <2>2. Cardinality(listed) \in Nat
    BY <2>1, FS_CardinalityType
  <2> QED
    BY <1>1, <2>2 DEF SetToSeqs
<1>4. j \in Run
  BY <1>2, <1>3, NoRows DEF Run, NoMatch
<1>5. Fits(j)
  BY <1>2, NoRows DEF Fits, OwnAccounts, OwnLinks, AtHand
<1>6. \A v \in Others(w) : Apart(j, run[v])
  BY <1>2, NoRows DEF Apart
<1> QED
  BY <1>1, <1>2, <1>4, <1>5, <1>6, RunStep DEF RunStart

\* A run that dies leaves nothing behind.
LEMMA DiesStep ==
  ASSUME IdInv, NEW w \in Syncer, RunDies(w)
  PROVE  IdInv'
<1>1. PICK j : j = NoRun
  OBVIOUS
<1> QED
  BY <1>1, RunStep DEF RunDies

\* What every step of a run starts from.
LEMMA Before ==
  ASSUME IdInv, NEW w \in Syncer, run[w].phase \in {"land", "match", "update", "write"}
  PROVE  /\ Running(w) /\ run[w] \in Run /\ Fits(run[w])
         /\ \A v \in Others(w) : run[v] \in Run /\ Apart(run[w], run[v])
<1>1. Running(w)
  BY DEF Running, NoRun
<1> QED
  BY <1>1 DEF IdInv, IdRows, Running, Others

\* What a run reads: its own rows over the committed ones.
LEMMA Seen ==
  ASSUME IdInv, NEW w \in Syncer, run[w] \in Run
  PROVE  /\ \A i \in Id : SeenAccounts(w)[i] =
              IF i \in DOMAIN run[w].accounts THEN run[w].accounts[i] ELSE account[i]
         /\ SeenAccounts(w) \in [Id -> AccountRow \cup {NoAccount}]
         /\ \A i \in Id : SeenAccounts(w)[i] # NoAccount <=> Known(run[w], i)
         /\ \A c \in Company : SeenLinks(w)[c] =
              IF c \in DOMAIN run[w].links THEN run[w].links[c] ELSE sourceLink[c]
         /\ SeenLinks(w) \in [Company -> LinkRow]
<1>1. /\ \A i \in DOMAIN run[w].accounts : run[w].accounts[i] \in AccountRow
      /\ \A c \in DOMAIN run[w].links : run[w].links[c] \in LinkRow
  BY RunOf
<1>2. account \in [Id -> AccountRow \cup {NoAccount}] /\ sourceLink \in [Company -> LinkRow]
  BY DEF IdInv, IdRows
<1>3. \A i \in Id : SeenAccounts(w)[i] =
        IF i \in DOMAIN run[w].accounts THEN run[w].accounts[i] ELSE account[i]
  BY <1>2 DEF SeenAccounts, Over
<1>4. SeenAccounts(w) \in [Id -> AccountRow \cup {NoAccount}]
  BY <1>1, <1>2 DEF SeenAccounts, Over
<1>5. \A i \in Id : SeenAccounts(w)[i] # NoAccount <=> Known(run[w], i)
  BY <1>1, <1>2, <1>3, AccountRowIs DEF Known
<1>6. \A c \in Company : SeenLinks(w)[c] =
        IF c \in DOMAIN run[w].links THEN run[w].links[c] ELSE sourceLink[c]
  BY <1>2 DEF SeenLinks, Over
<1>7. SeenLinks(w) \in [Company -> LinkRow]
  BY <1>1, <1>2 DEF SeenLinks, Over
<1> QED
  BY <1>3, <1>4, <1>5, <1>6, <1>7

\* _best_match returns no account, or one that the run sees.
LEMMA BestMatchIs ==
  ASSUME NEW accounts \in [Id -> AccountRow \cup {NoAccount}], NEW c \in Company,
         NEW m \in BestMatches(accounts, c)
  PROVE  /\ m \in [to : Id \cup {0}, likeness : 0..100]
         /\ m = NoMatch \/ (m.to \in Id /\ accounts[m.to] # NoAccount)
<1>1. ASSUME NEW i \in Existing(accounts)
      PROVE  Likeness[NameOf[c]][accounts[i].name] \in 0..100
  <2>1. accounts[i] \in AccountRow
    BY <1>1 DEF Existing
  <2>2. accounts[i].name \in Name /\ NameOf[c] \in Name
    BY <2>1 DEF AccountRow, Name
  <2> QED
    BY <2>2, CompaniesAssumption
<1>2. NoMatch \in [to : Id \cup {0}, likeness : 0..100]
  BY DEF NoMatch
<1>3. \/ m = NoMatch
      \/ \E i \in Existing(accounts) : m = [to |-> i, likeness |-> 98]
      \/ \E i \in Existing(accounts) :
           m = [to |-> i, likeness |-> Likeness[NameOf[c]][accounts[i].name]]
  BY DEF BestMatches
<1>4. ASSUME NEW i \in Existing(accounts), NEW n \in 0..100, m = [to |-> i, likeness |-> n]
      PROVE  /\ m \in [to : Id \cup {0}, likeness : 0..100]
             /\ m.to \in Id /\ accounts[m.to] # NoAccount
  BY <1>4 DEF Existing
<1>5. CASE \E i \in Existing(accounts) : m = [to |-> i, likeness |-> 98]
  <2>1. PICK i \in Existing(accounts), n \in 0..100 : m = [to |-> i, likeness |-> n]
    BY <1>5
  <2> QED
    BY <2>1, <1>4
<1>6. CASE \E i \in Existing(accounts) :
             m = [to |-> i, likeness |-> Likeness[NameOf[c]][accounts[i].name]]
  <2>1. PICK i \in Existing(accounts), n \in 0..100 : m = [to |-> i, likeness |-> n]
    BY <1>1, <1>6
  <2> QED
    BY <2>1, <1>4
<1> QED
  BY <1>2, <1>3, <1>5, <1>6

\* A record of the fields of a run with three of them changed.
LEMMA RunExcept ==
  ASSUME NEW P, NEW T, NEW F, NEW R, NEW A, NEW L, NEW Q,
         NEW i \in [phase : P, todo : T, found : F, raw : R, accounts : A, links : L, queued : Q],
         NEW p \in P, NEW t \in T, NEW f \in F,
         NEW j, j = [i EXCEPT !.phase = p, !.todo = t, !.found = f]
  PROVE  /\ j \in [phase : P, todo : T, found : F, raw : R, accounts : A, links : L, queued : Q]
         /\ j.phase = p /\ j.raw = i.raw
         /\ j.accounts = i.accounts /\ j.links = i.links
  OBVIOUS

\* The run goes on with the next company.
LEMMA DoneRun ==
  ASSUME NEW i \in Run, i.todo # <<>>, NEW j, j = Done(i)
  PROVE  /\ j \in Run
         /\ j.phase = "land" /\ j.raw = i.raw
         /\ j.accounts = i.accounts /\ j.links = i.links
<1>1. i.todo \in Seq(Company)
  BY DEF Run
<1>2. Tail(i.todo) \in Seq(Company)
  BY <1>1
<1>3. PICK rest \in Seq(Company) : rest = Tail(i.todo)
  BY <1>2
<1>4. PICK f \in [to : Id \cup {0}, likeness : 0..100] : f = NoMatch
  <2>1. NoMatch \in [to : Id \cup {0}, likeness : 0..100]
    BY DEF NoMatch
  <2> QED
    BY <2>1
<1>5. j = [i EXCEPT !.phase = "land", !.todo = rest, !.found = f]
  BY <1>3, <1>4 DEF Done
<1>6. PICK P, F, R, A, L :
        /\ Run = [phase : P, todo : Seq(Company), found : F, raw : R,
                  accounts : A, links : L, queued : R]
        /\ "land" \in P /\ f \in F
  BY DEF Run
<1> QED
  BY <1>5, <1>6, RunExcept

\* The rows of a run are all that says whether they fit the committed ones.
LEMMA SameRows ==
  ASSUME NEW i, NEW j, j.raw = i.raw, j.accounts = i.accounts, j.links = i.links
  PROVE  /\ OwnAccounts(i) => OwnAccounts(j)
         /\ OwnLinks(i) => OwnLinks(j)
         /\ \A c : OwnMinted(i, c) = OwnMinted(j, c)
         /\ \A k : Known(i, k) = Known(j, k)
         /\ \A k : Apart(i, k) = Apart(j, k)
  BY DEF OwnAccounts, OwnLinks, OwnMinted, Known, Apart

\* A match chosen names an account that the run knows.
LEMMA MatchStep ==
  ASSUME IdInv, NEW w \in Syncer, Match(w)
  PROVE  IdInv'
<1>1. PICK m \in BestMatches(SeenAccounts(w), Current(w)) :
        run' = [run EXCEPT ![w] = [run[w] EXCEPT !.phase = "write", !.found = m]]
  BY DEF Match
<1>2. PICK j : j = [run[w] EXCEPT !.phase = "write", !.found = m]
  OBVIOUS
<1>3. /\ Running(w) /\ run[w] \in Run /\ Fits(run[w])
      /\ \A v \in Others(w) : Apart(run[w], run[v])
  BY Before DEF Match
<1>4. Current(w) \in Company
  BY <1>3, RunOf DEF Match, Current, Fits, AtHand
<1>5. SeenAccounts(w) \in [Id -> AccountRow \cup {NoAccount}]
  BY <1>3, Seen
<1>6. /\ m \in [to : Id \cup {0}, likeness : 0..100]
      /\ m = NoMatch \/ (m.to \in Id /\ SeenAccounts(w)[m.to] # NoAccount)
  BY <1>4, <1>5, BestMatchIs
<1>7. m = NoMatch \/ Known(run[w], m.to)
  BY <1>3, <1>6, Seen
<1>8. /\ j \in Run
      /\ j.phase = "write" /\ j.found = m /\ j.todo = run[w].todo /\ j.raw = run[w].raw
      /\ j.accounts = run[w].accounts /\ j.links = run[w].links
  BY <1>2, <1>3, <1>6 DEF Run
<1>9. Fits(j)
  <2>1. OwnAccounts(j) /\ OwnLinks(j)
    BY <1>3, <1>8 DEF Fits, OwnAccounts, OwnLinks, OwnMinted, Known
  <2>2. AtHand(j)
    BY <1>3, <1>7, <1>8 DEF Match, Fits, AtHand, OwnMinted, Known
  <2> QED
    BY <2>1, <2>2 DEF Fits
<1>10. \A v \in Others(w) : Apart(j, run[v])
  BY <1>3, <1>8 DEF Apart
<1> QED
  BY <1>1, <1>2, <1>8, <1>9, <1>10, RunStep DEF Match

\* Of a company whose match is chosen nothing is left to look at.
LEMMA QueueStep ==
  ASSUME IdInv, NEW w \in Syncer, Queue(w)
  PROVE  IdInv'
<1>1. PICK i : i = [run[w] EXCEPT !.queued = @ \cup {Current(w)}]
  OBVIOUS
<1>2. /\ Running(w) /\ run[w] \in Run /\ Fits(run[w])
      /\ \A v \in Others(w) : Apart(run[w], run[v])
  BY Before DEF Queue
<1>3. Current(w) \in Company
  BY <1>2, RunOf DEF Queue, Current, Fits, AtHand
<1>4. /\ i \in Run /\ i.todo = run[w].todo /\ i.raw = run[w].raw
      /\ i.accounts = run[w].accounts /\ i.links = run[w].links
  BY <1>1, <1>2, <1>3 DEF Run
<1>5. i.todo # <<>>
  BY <1>2, <1>4 DEF Queue, Fits, AtHand
<1>6. PICK j : j = Done(i)
  OBVIOUS
<1>7. /\ j \in Run /\ j.phase = "land" /\ j.raw = run[w].raw
      /\ j.accounts = run[w].accounts /\ j.links = run[w].links
  BY <1>4, <1>5, <1>6, DoneRun
<1>8. Fits(j)
  <2>1. OwnAccounts(j) /\ OwnLinks(j)
    BY <1>2, <1>7, SameRows DEF Fits
  <2>2. AtHand(j)
    BY <1>7 DEF AtHand
  <2> QED
    BY <2>1, <2>2 DEF Fits
<1>9. \A v \in Others(w) : Apart(j, run[v])
  BY <1>2, <1>7 DEF Apart
<1>10. run' = [run EXCEPT ![w] = j]
  BY <1>1, <1>6 DEF Queue
<1> QED
  BY <1>7, <1>8, <1>9, <1>10, RunStep DEF Queue

\* A company that lands is one no other run holds; if it is not linked, nobody has
\* created an account for it.
LEMMA LandStep ==
  ASSUME IdInv, NEW w \in Syncer, Land(w)
  PROVE  IdInv'
<1> DEFINE to == SeenLinks(w)[Current(w)].to
<1>1. PICK l : l = [run[w] EXCEPT !.raw = @ \cup {Current(w)}]
  OBVIOUS
<1>2. PICK j : j = IF to = 0 THEN [l EXCEPT !.phase = "match"]
          ELSE IF SourceOf[Current(w)] = "hubspot"
               THEN [l EXCEPT !.phase = "update", !.found = [to |-> to, likeness |-> 100]]
               ELSE Done(l)
  OBVIOUS
<1>3. run' = [run EXCEPT ![w] = j]
  BY <1>1, <1>2 DEF Land
<1>4. /\ Running(w) /\ run[w] \in Run /\ Fits(run[w])
      /\ \A v \in Others(w) : Apart(run[w], run[v])
  BY Before DEF Land
<1>5. Current(w) \in Company /\ run[w].todo # <<>>
  BY <1>4, RunOf DEF Land, Current
<1>6. to \in Id \cup {0}
  BY <1>4, <1>5, Seen DEF LinkRow
<1>7. /\ l \in Run /\ l.raw = run[w].raw \cup {Current(w)} /\ l.todo = run[w].todo
      /\ l.accounts = run[w].accounts /\ l.links = run[w].links
  BY <1>1, <1>4, <1>5 DEF Run
<1> HIDE DEF to
<1>8. /\ j \in Run
      /\ j.raw = l.raw /\ j.accounts = l.accounts /\ j.links = l.links
      /\ \/ j.phase = "match" /\ to = 0 /\ j.todo = run[w].todo
         \/ j.phase = "update" /\ to # 0 /\ j.found.to = to /\ j.todo = run[w].todo
         \/ j.phase = "land"
  <2>1. CASE to = 0
    BY <1>2, <1>7, <2>1 DEF Run
  <2>2. CASE to # 0 /\ SourceOf[Current(w)] = "hubspot"
    <3>1. PICK m : m = [to |-> to, likeness |-> 100]
      OBVIOUS
    <3>2. m \in [to : Id \cup {0}, likeness : 0..100] /\ m.to = to
      BY <1>6, <3>1
    <3>3. j = [l EXCEPT !.phase = "update", !.found = m]
      BY <1>2, <2>2, <3>1
    <3> QED
      BY <1>7, <2>2, <3>2, <3>3 DEF Run
  <2>3. CASE to # 0 /\ SourceOf[Current(w)] # "hubspot"
    <3>1. j = Done(l) /\ l.todo # <<>>
      BY <1>2, <1>5, <1>7, <2>3
    <3> QED
      BY <1>7, <3>1, DoneRun
  <2> QED
    BY <2>1, <2>2, <2>3
<1>9. \A i \in DOMAIN run[w].accounts : account[i] = NoAccount =>
        run[w].accounts[i].for \in DOMAIN run[w].links
  BY <1>4 DEF Fits, OwnAccounts
<1>10. OwnAccounts(j) /\ OwnLinks(j)
  BY <1>4, <1>7, <1>8 DEF Fits, OwnAccounts, OwnLinks, OwnMinted, Known
<1>11. ASSUME to = 0 PROVE MintedFor(Current(w)) = {} /\ OwnMinted(j, Current(w)) = {}
  <2>1. Current(w) \notin DOMAIN run[w].links /\ sourceLink[Current(w)].to = 0
    BY <1>4, <1>5, <1>11, Seen, IdsAreNaturals DEF to, Fits, OwnLinks, Known
  <2>2. MintedFor(Current(w)) = {}
    BY <1>5, <2>1 DEF IdInv, Committed
  <2> QED
    BY <1>7, <1>8, <1>9, <2>1, <2>2 DEF OwnMinted
<1>12. ASSUME to # 0 PROVE Known(j, to)
  <2>1. CASE Current(w) \in DOMAIN run[w].links
    BY <1>4, <1>5, <1>7, <1>8, <2>1, Seen DEF to, Fits, OwnLinks, Known
  <2>2. CASE Current(w) \notin DOMAIN run[w].links
    <3>1. to = sourceLink[Current(w)].to
      BY <1>4, <1>5, <2>2, Seen DEF to
    <3> QED
      BY <1>5, <1>6, <1>12, <3>1 DEF IdInv, Committed, Known
  <2> QED
    BY <2>1, <2>2
<1>13. Fits(j)
  BY <1>5, <1>7, <1>8, <1>10, <1>11, <1>12 DEF Fits, AtHand, Current
<1>14. \A v \in Others(w) : Apart(j, run[v])
  BY <1>4, <1>7, <1>8 DEF Land, RawFree, Apart
<1> QED
  BY <1>3, <1>8, <1>13, <1>14, RunStep DEF Land

\* A run writes one account row that it knows or mints, and then goes on.
LEMMA WriteRow ==
  ASSUME IdInv, NEW w \in Syncer, run[w] \in Run, Running(w), OwnAccounts(run[w]),
         \A v \in Others(w) : Apart(run[w], run[v]),
         NEW i \in Id, NEW row \in AccountRow, IsInjective(row.domains), AccountFree(w, i),
         Known(run[w], i),
         row.for = SeenAccounts(w)[i].for, row.by = SeenAccounts(w)[i].by,
         NEW j \in Run, j.raw = run[w].raw, j.accounts = Put(run[w].accounts, i, row),
         DOMAIN run[w].links \subseteq DOMAIN j.links
  PROVE  /\ OwnAccounts(j)
         /\ \A v \in Others(w) : Apart(j, run[v])
         /\ \A k : Known(run[w], k) <=> Known(j, k)
<1>1. /\ DOMAIN j.accounts = DOMAIN run[w].accounts \cup {i}
      /\ j.accounts[i] = row
      /\ \A k \in DOMAIN run[w].accounts : k # i => j.accounts[k] = run[w].accounts[k]
      /\ DOMAIN run[w].accounts \subseteq Id
  <2>1. run[w].accounts \in Rows(Id, AccountRow) /\ DOMAIN run[w].accounts \subseteq Id
    BY RunOf
  <2>2. /\ DOMAIN Put(run[w].accounts, i, row) = DOMAIN run[w].accounts \cup {i}
        /\ Put(run[w].accounts, i, row)[i] = row
        /\ \A k \in DOMAIN run[w].accounts :
             k # i => Put(run[w].accounts, i, row)[k] = run[w].accounts[k]
    BY DEF Put
  <2> QED
    BY <2>1, <2>2
<1>2. \A k \in Id : SeenAccounts(w)[k] =
        IF k \in DOMAIN run[w].accounts THEN run[w].accounts[k] ELSE account[k]
  BY Seen
<1>3. i \in DOMAIN run[w].accounts \/ account[i] # NoAccount
  BY DEF Known
<1>4. \A c : OwnMinted(j, c) = OwnMinted(run[w], c)
  BY <1>1, <1>2, <1>3 DEF OwnMinted
<1>5. OwnAccounts(j)
  <2> SUFFICES ASSUME NEW k \in DOMAIN j.accounts
               PROVE  /\ IsInjective(j.accounts[k].domains)
                      /\ account[k] # NoAccount =>
                           /\ j.accounts[k].for = account[k].for
                           /\ j.accounts[k].by = account[k].by
                      /\ account[k] = NoAccount =>
                           /\ j.accounts[k].by = "run"
                           /\ j.accounts[k].for \in j.raw \cap DOMAIN j.links
                           /\ MintedFor(j.accounts[k].for) = {}
                           /\ OwnMinted(j, j.accounts[k].for) = {k}
    BY DEF OwnAccounts
  <2>1. CASE k # i
    <3>1. k \in DOMAIN run[w].accounts /\ j.accounts[k] = run[w].accounts[k]
      BY <1>1, <2>1
    <3> QED
      BY <1>4, <3>1 DEF OwnAccounts
  <2>2. CASE k = i /\ i \in DOMAIN run[w].accounts
    <3>1. row.for = run[w].accounts[i].for /\ row.by = run[w].accounts[i].by
            /\ j.accounts[k] = row
      BY <1>1, <1>2, <2>2
    <3> QED
      BY <1>4, <2>2, <3>1 DEF OwnAccounts
  <2>3. CASE k = i /\ i \notin DOMAIN run[w].accounts
    BY <1>1, <1>2, <1>3, <2>3
  <2> QED
    BY <2>1, <2>2, <2>3
<1>6. \A v \in Others(w) : Apart(j, run[v])
  BY <1>1 DEF Apart, AccountFree
<1>7. \A k : Known(run[w], k) <=> Known(j, k)
  BY <1>1, <1>3 DEF Known
<1> QED
  BY <1>5, <1>6, <1>7

\* What the run sees of an account lists each domain once.
LEMMA SeenInjective ==
  ASSUME IdInv, NEW w \in Syncer, run[w] \in Run, Fits(run[w]), NEW i, Known(run[w], i)
  PROVE  SeenAccounts(w)[i] \in AccountRow /\ IsInjective(SeenAccounts(w)[i].domains)
<1>1. i \in Id
  BY DEF Known
<1>2. SeenAccounts(w)[i] \in AccountRow
  BY <1>1, Seen
<1>3. CASE i \in DOMAIN run[w].accounts
  BY <1>1, <1>3, Seen DEF Fits, OwnAccounts
<1>4. CASE i \notin DOMAIN run[w].accounts
  <2>1. SeenAccounts(w)[i] = account[i] /\ account[i] # NoAccount
    BY <1>1, <1>4, Seen DEF Known
  <2> QED
    BY <1>1, <1>2, <2>1 DEF IdInv, Committed, DomainsListedOnce, Existing
<1> QED
  BY <1>2, <1>3, <1>4

\* The CRM's fields change neither whom an account is for nor its domains.
LEMMA UpdateStep ==
  ASSUME IdInv, NEW w \in Syncer, Update(w)
  PROVE  IdInv'
<1> DEFINE to == run[w].found.to
<1>1. PICK row : row = [SeenAccounts(w)[to] EXCEPT !.name = NameOf[Current(w)]]
  OBVIOUS
<1>2. PICK i : i = [run[w] EXCEPT !.accounts = Put(@, to, row)]
  OBVIOUS
<1>3. PICK j : j = Done(i)
  OBVIOUS
<1>4. run' = [run EXCEPT ![w] = j] /\ AccountFree(w, to)
  BY <1>1, <1>2, <1>3 DEF Update
<1>5. /\ Running(w) /\ run[w] \in Run /\ Fits(run[w])
      /\ \A v \in Others(w) : Apart(run[w], run[v])
  BY Before DEF Update
<1>6. Current(w) \in Company /\ run[w].todo # <<>> /\ Known(run[w], to)
  BY <1>5, RunOf DEF Update, Current, Fits, AtHand
<1>7. SeenAccounts(w)[to] \in AccountRow
  BY <1>5, <1>6, Seen DEF Known
<1>8. /\ row \in AccountRow /\ row.domains = SeenAccounts(w)[to].domains
      /\ row.for = SeenAccounts(w)[to].for /\ row.by = SeenAccounts(w)[to].by
  BY <1>1, <1>6, <1>7, CompaniesAssumption DEF AccountRow, Name
<1>9. IsInjective(row.domains)
  BY <1>5, <1>6, <1>8, SeenInjective
<1>10. /\ i \in Run /\ i.todo = run[w].todo /\ i.raw = run[w].raw /\ i.links = run[w].links
       /\ i.accounts = Put(run[w].accounts, to, row)
  <2>1. Put(run[w].accounts, to, row) \in Rows(Id, AccountRow)
    BY <1>5, <1>6, <1>8, RunOf, PutRow DEF Known
  <2> QED
    BY <1>2, <1>5, <2>1 DEF Run
<1>11. /\ j \in Run /\ j.phase = "land" /\ j.raw = run[w].raw /\ j.links = run[w].links
       /\ j.accounts = Put(run[w].accounts, to, row)
  BY <1>3, <1>6, <1>10, DoneRun
<1>12. /\ OwnAccounts(j)
       /\ \A v \in Others(w) : Apart(j, run[v])
       /\ \A k : Known(run[w], k) <=> Known(j, k)
  BY <1>4, <1>5, <1>6, <1>8, <1>9, <1>11, WriteRow DEF Fits, Known
<1>13. Fits(j)
  BY <1>5, <1>11, <1>12 DEF Fits, OwnLinks, AtHand
<1> QED
  BY <1>4, <1>11, <1>12, <1>13, RunStep DEF Update

\* A run links its company to an account that it knows.
LinkedTo(mine, c, to) == [mine EXCEPT !.links = Put(@, c, [to |-> to, by |-> "match"])]

LEMMA LinkedRun ==
  ASSUME NEW mine \in Run, OwnAccounts(mine), OwnLinks(mine), NEW c \in Company, NEW to,
         Known(mine, to),
         NEW l, l = LinkedTo(mine, c, to)
  PROVE  /\ l \in Run /\ l.todo = mine.todo /\ l.raw = mine.raw /\ l.accounts = mine.accounts
         /\ DOMAIN mine.links \subseteq DOMAIN l.links
         /\ OwnAccounts(l) /\ OwnLinks(l)
<1>1. PICK row : row = [to |-> to, by |-> "match"]
  OBVIOUS
<1>2. row \in LinkRow /\ row.to = to /\ row.by = "match"
  BY <1>1 DEF LinkRow, Known
<1>3. mine.links \in Rows(Company, LinkRow)
  BY RunOf
<1>4. PICK f : f = Put(mine.links, c, row)
  OBVIOUS
<1>5. /\ f \in Rows(Company, LinkRow) /\ DOMAIN f = DOMAIN mine.links \cup {c} /\ f[c] = row
      /\ \A d \in DOMAIN mine.links : d # c => f[d] = mine.links[d]
  <2>1. f \in Rows(Company, LinkRow)
    BY <1>2, <1>3, <1>4, PutLink
  <2> QED
    BY <1>4, <2>1 DEF Put
<1>6. l = [mine EXCEPT !.links = f]
  BY <1>1, <1>4 DEF LinkedTo
<1>7. l \in Run /\ l.todo = mine.todo /\ l.raw = mine.raw
        /\ l.accounts = mine.accounts /\ l.links = f
  BY <1>5, <1>6 DEF Run
<1>8. OwnAccounts(l)
  <2>1. l.raw = mine.raw /\ l.accounts = mine.accounts
          /\ DOMAIN mine.links \subseteq DOMAIN l.links
    BY <1>5, <1>7
  <2>2. \A d : OwnMinted(l, d) = OwnMinted(mine, d)
    BY <2>1 DEF OwnMinted
  <2> QED
    BY <2>1, <2>2 DEF OwnAccounts
<1>9. OwnLinks(l)
  <2> SUFFICES ASSUME NEW d \in DOMAIN l.links
               PROVE  l.links[d].by \in {"created", "match"} /\ Known(l, l.links[d].to)
    BY DEF OwnLinks
  <2>1. CASE d = c
    BY <1>2, <1>5, <1>7, <2>1 DEF Known
  <2>2. CASE d # c
    BY <1>5, <1>7, <2>2 DEF OwnLinks, Known
  <2> QED
    BY <2>1, <2>2
<1> QED
  BY <1>5, <1>7, <1>8, <1>9

\* A domain the account lacks makes its list no less a list of distinct ones.
LEMMA AppendDistinct ==
  ASSUME NEW q \in Seq(Domain), IsInjective(q), NEW d \in Domain, d \notin Range(q)
  PROVE  IsInjective(Append(q, d))
<1>0. PICK p : p = Append(q, d)
  OBVIOUS
<1>1. Len(q) \in Nat /\ DOMAIN q = 1..Len(q) /\ DOMAIN p = 1..(Len(q) + 1)
  BY <1>0
<1>2. p[Len(q) + 1] = d /\ \A n \in 1..Len(q) : p[n] = q[n]
  BY <1>0
<1>3. \A n \in 1..Len(q) : q[n] # d
  BY <1>1 DEF Range
<1>4. \A m, n \in 1..Len(q) : q[m] = q[n] => m = n
  BY <1>1 DEF IsInjective
<1>5. \A m, n \in 1..(Len(q) + 1) : p[m] = p[n] => m = n
  <2> SUFFICES ASSUME NEW m \in 1..(Len(q) + 1), NEW n \in 1..(Len(q) + 1), p[m] = p[n]
               PROVE  m = n
    OBVIOUS
  <2>1. (m \in 1..Len(q) \/ m = Len(q) + 1) /\ (n \in 1..Len(q) \/ n = Len(q) + 1)
    BY <1>1
  <2> QED
    BY <1>2, <1>3, <1>4, <2>1
<1> QED
  BY <1>0, <1>1, <1>5 DEF IsInjective

\* A link to a match, and the domain the account lacks.
LEMMA LinkStep ==
  ASSUME IdInv, NEW w \in Syncer, LinkMatch(w)
  PROVE  IdInv'
<1> DEFINE to == run[w].found.to
           c == Current(w)
<1>1. /\ Running(w) /\ run[w] \in Run /\ Fits(run[w])
      /\ \A v \in Others(w) : Apart(run[w], run[v])
  BY Before DEF LinkMatch
<1>2. c \in Company /\ run[w].todo # <<>>
  BY <1>1, RunOf DEF LinkMatch, Current, Fits, AtHand
<1>3. Known(run[w], to)
  BY <1>1 DEF LinkMatch, Fits, AtHand, NoMatch, AUTO_LINK_CONFIDENCE
<1>4. PICK l : l = LinkedTo(run[w], c, to)
  OBVIOUS
<1>5. PICK row : row = SeenAccounts(w)[to]
  OBVIOUS
<1>6. row \in AccountRow /\ IsInjective(row.domains)
  BY <1>1, <1>3, <1>5, SeenInjective
<1>7. \/ run' = [run EXCEPT ![w] = Done(l)]
      \/ /\ Lacks(row, c) /\ AccountFree(w, to)
         /\ run' = [run EXCEPT ![w] = Done([l EXCEPT !.accounts =
                      Put(@, to, [row EXCEPT !.domains = Append(@, DomainOf[c])])])]
  BY <1>4, <1>5 DEF LinkMatch, LinkedTo
<1> HIDE DEF to, c
<1>8. /\ l \in Run /\ l.todo = run[w].todo /\ l.raw = run[w].raw
      /\ l.accounts = run[w].accounts
      /\ DOMAIN run[w].links \subseteq DOMAIN l.links
      /\ OwnAccounts(l) /\ OwnLinks(l)
  BY <1>1, <1>2, <1>3, <1>4, LinkedRun DEF Fits
<1>9. CASE run' = [run EXCEPT ![w] = Done(l)]
  <2>1. PICK j : j = Done(l)
    OBVIOUS
  <2>2. /\ j \in Run /\ j.phase = "land" /\ j.raw = l.raw
        /\ j.accounts = l.accounts /\ j.links = l.links
    BY <1>2, <1>8, <2>1, DoneRun
  <2>3. Fits(j)
    BY <1>8, <2>2, SameRows DEF Fits, AtHand
  <2>4. \A v \in Others(w) : Apart(j, run[v])
    BY <1>1, <1>8, <2>2 DEF Apart
  <2> QED
    BY <1>9, <2>1, <2>2, <2>3, <2>4, RunStep DEF LinkMatch
<1>10. ASSUME Lacks(row, c), AccountFree(w, to),
              run' = [run EXCEPT ![w] = Done([l EXCEPT !.accounts =
                        Put(@, to, [row EXCEPT !.domains = Append(@, DomainOf[c])])])]
       PROVE  IdInv'
  <2>1. PICK e : e = [row EXCEPT !.domains = Append(@, DomainOf[c])]
    OBVIOUS
  <2>2. PICK i : i = [l EXCEPT !.accounts = Put(@, to, e)]
    OBVIOUS
  <2>3. PICK j : j = Done(i)
    OBVIOUS
  <2>4. DomainOf[c] \in Domain /\ DomainOf[c] \notin Range(row.domains)
    BY <1>2, <1>10 DEF Lacks, Domain
  <2>5. row.domains \in Seq(Domain)
    BY <1>6 DEF AccountRow
  <2>6. Append(row.domains, DomainOf[c]) \in Seq(Domain)
    BY <2>4, <2>5
  <2>7. IsInjective(Append(row.domains, DomainOf[c]))
    <3>1. PICK q, d : q = row.domains /\ d = DomainOf[c]
      OBVIOUS
    <3>2. q \in Seq(Domain) /\ IsInjective(q) /\ d \in Domain /\ d \notin Range(q)
      BY <1>6, <2>4, <2>5, <3>1
    <3>3. IsInjective(Append(q, d))
      BY <3>2, AppendDistinct
    <3> QED
      BY <3>1, <3>3
  <2>8. /\ e \in AccountRow /\ e.domains = Append(row.domains, DomainOf[c])
        /\ e.for = row.for /\ e.by = row.by
    BY <1>6, <2>1, <2>6 DEF AccountRow
  <2>9. PICK f : f = Put(run[w].accounts, to, e)
    OBVIOUS
  <2>10. f \in Rows(Id, AccountRow)
    BY <1>1, <1>3, <2>8, <2>9, RunOf, PutRow DEF Known
  <2>11. i = [l EXCEPT !.accounts = f]
    BY <1>8, <2>2, <2>9
  <2>12. /\ i \in Run /\ i.todo = run[w].todo /\ i.raw = run[w].raw /\ i.links = l.links
         /\ i.accounts = f
    BY <1>8, <2>10, <2>11 DEF Run
  <2>13. /\ j \in Run /\ j.phase = "land" /\ j.raw = run[w].raw /\ j.links = l.links
         /\ j.accounts = f
    BY <1>2, <2>3, <2>12, DoneRun
  <2>14. /\ OwnAccounts(j)
         /\ \A v \in Others(w) : Apart(j, run[v])
         /\ \A k : Known(run[w], k) <=> Known(j, k)
    <3>1. /\ to \in Id /\ IsInjective(e.domains) /\ e \in AccountRow
          /\ e.for = SeenAccounts(w)[to].for /\ e.by = SeenAccounts(w)[to].by
      BY <1>3, <1>5, <2>7, <2>8 DEF Known
    <3>2. /\ j \in Run /\ j.raw = run[w].raw /\ j.accounts = Put(run[w].accounts, to, e)
          /\ DOMAIN run[w].links \subseteq DOMAIN j.links
      BY <1>8, <2>9, <2>13
    <3> QED
      BY <1>1, <1>3, <1>10, <3>1, <3>2, WriteRow DEF Fits
  <2>15. OwnLinks(j)
    BY <1>8, <2>13, <2>14 DEF OwnLinks, Known
  <2>16. Fits(j)
    BY <2>13, <2>14, <2>15 DEF Fits, AtHand
  <2>17. run' = [run EXCEPT ![w] = j]
    BY <1>10, <2>1, <2>2, <2>3
  <2> QED
    BY <2>13, <2>14, <2>16, <2>17, RunStep DEF LinkMatch
<1> QED
  BY <1>7, <1>9, <1>10

\* The domains of a new account.
LEMMA DomainsOfCompany ==
  ASSUME NEW c \in Company
  PROVE  DomainsOf(c) \in Seq(Domain) /\ IsInjective(DomainsOf(c))
<1>1. CASE DomainOf[c] = NoDomain
  BY <1>1 DEF DomainsOf, IsInjective
<1>2. CASE DomainOf[c] # NoDomain
  <2>1. DomainOf[c] \in Domain
    BY <1>2 DEF Domain
  <2> QED
    BY <1>2, <2>1 DEF DomainsOf, IsInjective
<1> QED
  BY <1>1, <1>2

\* A new account is the first for its company, since the run holds the company and
\* found it without a link.
LEMMA MintStep ==
  ASSUME IdInv, NEW w \in Syncer, Mint(w)
  PROVE  IdInv'
<1> DEFINE c == Current(w)
<1>1. /\ Running(w) /\ run[w] \in Run /\ Fits(run[w])
      /\ \A v \in Others(w) : Apart(run[w], run[v])
  BY Before DEF Mint
<1>2. /\ c \in Company /\ run[w].todo # <<>> /\ c \in run[w].raw
      /\ MintedFor(c) = {} /\ OwnMinted(run[w], c) = {}
  BY <1>1, RunOf DEF Mint, Current, Fits, AtHand
<1>3. PICK i : i = Min(Unused)
  OBVIOUS
<1>4. i \in Unused
  BY <1>3, LeastId, IdsAreNaturals DEF Mint, Unused
<1>5. /\ i \in Id /\ account[i] = NoAccount /\ i \notin DOMAIN run[w].accounts
      /\ \A v \in Others(w) : i \notin DOMAIN run[v].accounts
  BY <1>1, <1>4 DEF Unused, Others
<1>6. PICK row : row = [name |-> NameOf[c], domains |-> DomainsOf(c), for |-> c, by |-> "run"]
  OBVIOUS
<1>7. PICK lrow : lrow = [to |-> i, by |-> "created"]
  OBVIOUS
<1>8. PICK f, g : f = Put(run[w].accounts, i, row) /\ g = Put(run[w].links, c, lrow)
  OBVIOUS
<1>9. PICK h : h = [run[w] EXCEPT !.links = g, !.accounts = f]
  OBVIOUS
<1>10. PICK j : j = Done(h)
  OBVIOUS
<1>11. run' = [run EXCEPT ![w] = j]
  BY <1>3, <1>6, <1>7, <1>8, <1>9, <1>10 DEF Mint
<1> HIDE DEF c
<1>12. /\ row \in AccountRow /\ row.for = c /\ row.by = "run" /\ IsInjective(row.domains)
  <2>1. DomainsOf(c) \in Seq(Domain) /\ IsInjective(DomainsOf(c))
    BY <1>2, DomainsOfCompany
  <2> QED
    BY <1>2, <1>6, <2>1 DEF AccountRow, Name
<1>13. lrow \in LinkRow /\ lrow.to = i /\ lrow.by = "created"
  BY <1>5, <1>7 DEF LinkRow
<1>14. /\ f \in Rows(Id, AccountRow) /\ DOMAIN f = DOMAIN run[w].accounts \cup {i} /\ f[i] = row
       /\ \A k \in DOMAIN run[w].accounts : f[k] = run[w].accounts[k]
  <2>1. run[w].accounts \in Rows(Id, AccountRow)
    BY <1>1, RunOf
  <2>2. /\ f \in Rows(Id, AccountRow) /\ DOMAIN f = DOMAIN run[w].accounts \cup {i} /\ f[i] = row
        /\ \A k \in DOMAIN run[w].accounts : k # i => f[k] = run[w].accounts[k]
    BY <1>5, <1>8, <1>12, <2>1, PutAccount
  <2> QED
    BY <1>5, <2>2
<1>15. /\ g \in Rows(Company, LinkRow) /\ DOMAIN g = DOMAIN run[w].links \cup {c} /\ g[c] = lrow
       /\ \A d \in DOMAIN run[w].links : d # c => g[d] = run[w].links[d]
  <2>1. run[w].links \in Rows(Company, LinkRow)
    BY <1>1, RunOf
  <2> QED
    <3>1. g \in Rows(Company, LinkRow)
      BY <1>2, <1>8, <1>13, <2>1, PutLink
    <3> QED
      BY <1>8, <3>1 DEF Put
<1>16. h \in Run /\ h.todo = run[w].todo /\ h.raw = run[w].raw /\ h.links = g /\ h.accounts = f
  BY <1>1, <1>9, <1>14, <1>15 DEF Run
<1>17. j \in Run /\ j.phase = "land" /\ j.raw = run[w].raw /\ j.links = g /\ j.accounts = f
  BY <1>2, <1>10, <1>16, DoneRun
<1>18. OwnMinted(j, c) = {i}
  BY <1>2, <1>5, <1>12, <1>14, <1>17 DEF OwnMinted
<1>19. OwnAccounts(j)
  <2> SUFFICES ASSUME NEW k \in DOMAIN f
               PROVE  /\ IsInjective(f[k].domains)
                      /\ account[k] # NoAccount =>
                            f[k].for = account[k].for /\ f[k].by = account[k].by
                      /\ account[k] = NoAccount =>
                           /\ f[k].by = "run" /\ f[k].for \in j.raw \cap DOMAIN j.links
                           /\ MintedFor(f[k].for) = {}
                           /\ OwnMinted(j, f[k].for) = {k}
    BY <1>17 DEF OwnAccounts
  <2>1. CASE k = i
    BY <1>2, <1>5, <1>12, <1>14, <1>15, <1>17, <1>18, <2>1
  <2>2. CASE k # i
    <3>1. k \in DOMAIN run[w].accounts /\ f[k] = run[w].accounts[k]
      BY <1>14, <2>2
    <3>2. /\ IsInjective(f[k].domains)
          /\ account[k] # NoAccount => f[k].for = account[k].for /\ f[k].by = account[k].by
          /\ account[k] = NoAccount =>
               /\ f[k].by = "run" /\ f[k].for \in run[w].raw \cap DOMAIN run[w].links
               /\ MintedFor(f[k].for) = {}
               /\ OwnMinted(run[w], f[k].for) = {k}
      BY <1>1, <3>1 DEF Fits, OwnAccounts
    <3>3. account[k] = NoAccount => OwnMinted(j, f[k].for) = {k}
      <4> SUFFICES ASSUME account[k] = NoAccount PROVE OwnMinted(j, f[k].for) = {k}
        OBVIOUS
      <4>1. f[k].for # c
        BY <1>2, <3>2
      <4> QED
        BY <1>12, <1>14, <1>17, <3>2, <4>1 DEF OwnMinted
    <3> QED
      BY <1>15, <1>17, <3>2, <3>3
  <2> QED
    BY <2>1, <2>2
<1>20. \A k : Known(run[w], k) => Known(j, k)
  BY <1>14, <1>17 DEF Known
<1>21. Known(j, i)
  BY <1>5, <1>14, <1>17 DEF Known
<1>22. OwnLinks(j)
  <2> SUFFICES ASSUME NEW d \in DOMAIN g
               PROVE  g[d].by \in {"created", "match"} /\ Known(j, g[d].to)
    BY <1>17 DEF OwnLinks
  <2>1. CASE d = c
    BY <1>13, <1>15, <1>21, <2>1
  <2>2. CASE d # c
    BY <1>1, <1>15, <1>20, <2>2 DEF Fits, OwnLinks
  <2> QED
    BY <2>1, <2>2
<1>23. Fits(j)
  BY <1>17, <1>19, <1>22 DEF Fits, AtHand
<1>24. \A v \in Others(w) : Apart(j, run[v])
  BY <1>1, <1>5, <1>14, <1>17 DEF Apart
<1> QED
  BY <1>11, <1>17, <1>23, <1>24, RunStep DEF Mint

\* A run fits other committed rows too, when those it has rows over and those of
\* its companies have not changed.
LEMMA StillFits ==
  ASSUME NEW i \in Run, Fits(i),
         \A k \in Id : account[k] # NoAccount => account'[k] # NoAccount,
         \A k \in DOMAIN i.accounts : account'[k] = account[k],
         \A c \in i.raw : MintedFor(c)' \subseteq MintedFor(c)
  PROVE  Fits(i)'
<1>1. \A c : OwnMinted(i, c)' = OwnMinted(i, c)
  BY DEF OwnMinted
<1>2. \A k : Known(i, k) => Known(i, k)'
  BY DEF Known
<1>3. \A c \in i.raw : MintedFor(c) = {} => MintedFor(c)' = {}
  OBVIOUS
<1>4. OwnAccounts(i)'
  <2> SUFFICES ASSUME NEW k \in DOMAIN i.accounts
               PROVE  /\ IsInjective(i.accounts[k].domains)
                      /\ account'[k] # NoAccount =>
                           /\ i.accounts[k].for = account'[k].for
                           /\ i.accounts[k].by = account'[k].by
                      /\ account'[k] = NoAccount =>
                           /\ i.accounts[k].by = "run"
                           /\ i.accounts[k].for \in i.raw \cap DOMAIN i.links
                           /\ MintedFor(i.accounts[k].for)' = {}
                           /\ OwnMinted(i, i.accounts[k].for)' = {k}
    BY DEF OwnAccounts, MintedFor, OwnMinted
  <2> QED
    BY <1>1, <1>3 DEF Fits, OwnAccounts
<1>5. OwnLinks(i)'
  BY <1>2 DEF Fits, OwnLinks, Known
<1>6. AtHand(i)'
  <2>1. i.phase # "land" => i.todo # <<>> /\ Head(i.todo) \in i.raw
    BY DEF Fits, AtHand
  <2>2. i.phase \in {"match", "write"} =>
          MintedFor(Head(i.todo))' = {} /\ OwnMinted(i, Head(i.todo))' = {}
    BY <1>1, <1>3, <2>1 DEF Fits, AtHand
  <2>3. /\ i.phase = "update" => Known(i, i.found.to)'
        /\ i.phase = "write" => i.found = NoMatch \/ Known(i, i.found.to)'
    BY <1>2 DEF Fits, AtHand
  <2> QED
    BY <2>1, <2>2, <2>3 DEF AtHand, MintedFor, OwnMinted, Known
<1> QED
  BY <1>4, <1>5, <1>6 DEF Fits

\* The other runs after a step that commits.
LEMMA OthersStillFit ==
  ASSUME IdInv, run' \in [Syncer -> Run \cup {NoRun}],
         \A v \in Syncer : run'[v] # NoRun => run'[v] = run[v],
         \A v \in Syncer : run'[v] # NoRun => \A i : i = run[v] => Fits(i)'
  PROVE  /\ (\A v \in Syncer : Running(v) => Fits(run[v]))'
         /\ (\A u, v \in Syncer : Running(u) /\ Running(v) /\ u # v => Apart(run[u], run[v]))'
<1>1. (\A v \in Syncer : Running(v) => Fits(run[v]))'
  <2> SUFFICES ASSUME NEW v \in Syncer, run'[v] # NoRun PROVE Fits(run[v])'
    BY DEF Running
  <2>1. PICK i : i = run'[v]
    OBVIOUS
  <2>2. Fits(i)'
    BY <2>1
  <2> QED
    BY <2>1, <2>2 DEF Fits, OwnAccounts, OwnLinks, AtHand, MintedFor, OwnMinted, Known
<1>2. (\A u, v \in Syncer : Running(u) /\ Running(v) /\ u # v => Apart(run[u], run[v]))'
  <2> SUFFICES ASSUME NEW u \in Syncer, NEW v \in Syncer, run'[u] # NoRun, run'[v] # NoRun, u # v
               PROVE  Apart(run'[u], run'[v])
    BY DEF Running, Apart
  <2> QED
    BY DEF IdInv, Running
<1> QED
  BY <1>1, <1>2

\* What a run commits is the first account of each of its companies too.
LEMMA EndStep ==
  ASSUME IdInv, NEW w \in Syncer, RunEnd(w)
  PROVE  IdInv'
<1>1. /\ Running(w) /\ run[w] \in Run /\ Fits(run[w])
      /\ \A v \in Others(w) : run[v] \in Run /\ Apart(run[w], run[v])
  BY Before DEF RunEnd
<1>2. PICK mine : mine = run[w]
  OBVIOUS
<1>3. /\ DOMAIN mine.accounts \subseteq Id /\ DOMAIN mine.links \subseteq Company
      /\ \A i \in DOMAIN mine.accounts :
           mine.accounts[i] \in AccountRow /\ mine.accounts[i] # NoAccount
      /\ OwnAccounts(mine) /\ OwnLinks(mine)
  BY <1>1, <1>2, RunOf, AccountRowIs DEF Fits
<1>4. /\ account' \in [Id -> AccountRow \cup {NoAccount}]
      /\ \A i \in Id :
           account'[i] = IF i \in DOMAIN mine.accounts THEN mine.accounts[i] ELSE account[i]
      /\ \A i \in Id : account'[i] # NoAccount <=> Known(mine, i)
  BY <1>1, <1>2, Seen DEF RunEnd
<1>5. /\ sourceLink' \in [Company -> LinkRow]
      /\ \A c \in Company :
           sourceLink'[c] = IF c \in DOMAIN mine.links THEN mine.links[c] ELSE sourceLink[c]
  BY <1>1, <1>2, Seen DEF RunEnd
<1>6. /\ candidate' \in [Company -> [status : {"none", "pending", "accepted", "rejected"},
                                     resolved : Id \cup {0}]]
      /\ \A c \in Company : candidate'[c] # candidate[c] =>
           candidate[c] = NoCandidate /\ candidate'[c].status = "pending"
  BY DEF RunEnd, IdInv, IdRows
<1>7. IdRows'
  BY <1>4, <1>5, <1>6 DEF RunEnd, IdInv, IdRows
<1>8. \A i \in Id : account[i] # NoAccount =>
        /\ account'[i] # NoAccount
        /\ account'[i].for = account[i].for /\ account'[i].by = account[i].by
  BY <1>3, <1>4 DEF OwnAccounts, Known
<1>9. \A i \in Id : account[i] = NoAccount /\ account'[i] # NoAccount =>
        /\ i \in DOMAIN mine.accounts /\ account'[i] = mine.accounts[i]
        /\ mine.accounts[i].for \in mine.raw \cap DOMAIN mine.links
        /\ MintedFor(mine.accounts[i].for) = {}
        /\ OwnMinted(mine, mine.accounts[i].for) = {i}
  BY <1>3, <1>4 DEF OwnAccounts
<1>10. \A c \in DOMAIN mine.links :
         mine.links[c].by \in {"created", "match"} /\ mine.links[c].to \in Id
  BY <1>3 DEF OwnLinks, Known
<1>11. \A c \in Company : sourceLink[c].to # 0 => sourceLink'[c].to # 0
  BY <1>5, <1>10, IdsAreNaturals
<1>12. DecisionsAgree'
  <2> SUFFICES ASSUME NEW c \in Company
               PROVE  /\ candidate'[c].status = "accepted" => sourceLink'[c].to # 0
                      /\ sourceLink'[c].by = "human" =>
                           candidate'[c].status = "accepted"
                             /\ candidate'[c].resolved = sourceLink'[c].to
    BY DEF DecisionsAgree
  <2>0. /\ candidate[c].status = "accepted" => sourceLink[c].to # 0
        /\ sourceLink[c].by = "human" =>
             candidate[c].status = "accepted" /\ candidate[c].resolved = sourceLink[c].to
    BY DEF IdInv, Committed, DecisionsAgree
  <2>1. candidate'[c].status = "accepted" => sourceLink'[c].to # 0
    BY <1>6, <1>11, <2>0
  <2>2. CASE c \in DOMAIN mine.links
    BY <1>5, <1>10, <2>1, <2>2
  <2>3. CASE c \notin DOMAIN mine.links
    <3>1. sourceLink'[c] = sourceLink[c]
      BY <1>5, <2>3
    <3>2. candidate[c].status = "accepted" => candidate'[c] = candidate[c]
      BY <1>6 DEF NoCandidate
    <3> QED
      BY <2>0, <2>1, <3>1, <3>2
  <2> QED
    BY <2>2, <2>3
<1>13. MintedOnce'
  <2> SUFFICES ASSUME NEW i \in Id, NEW k \in Id, account'[i] # NoAccount,
                      account'[k] # NoAccount,
                      account'[i].by = "run", account'[k].by = "run",
                      account'[i].for = account'[k].for
               PROVE  i = k
    BY DEF MintedOnce, Existing
  <2>1. CASE account[i] # NoAccount /\ account[k] # NoAccount
    BY <1>8, <2>1 DEF IdInv, Committed, MintedOnce, Existing
  <2>2. ASSUME account[i] = NoAccount, account[k] # NoAccount PROVE FALSE
    BY <1>8, <1>9, <2>2 DEF MintedFor
  <2>3. ASSUME account[k] = NoAccount, account[i] # NoAccount PROVE FALSE
    BY <1>8, <1>9, <2>3 DEF MintedFor
  <2>4. CASE account[i] = NoAccount /\ account[k] = NoAccount
    BY <1>9, <2>4 DEF OwnMinted
  <2> QED
    BY <2>1, <2>2, <2>3, <2>4
<1>14. DomainsListedOnce'
  <2> SUFFICES ASSUME NEW i \in Id, account'[i] # NoAccount PROVE IsInjective(account'[i].domains)
    BY DEF DomainsListedOnce, Existing
  <2>1. SeenAccounts(w)[i] = account'[i]
    BY DEF RunEnd
  <2> QED
    BY <1>1, <1>2, <1>4, <2>1, SeenInjective
<1>15. \A c \in Company : sourceLink'[c].to # 0 => account'[sourceLink'[c].to] # NoAccount
  <2> SUFFICES ASSUME NEW c \in Company, sourceLink'[c].to # 0
               PROVE  account'[sourceLink'[c].to] # NoAccount
    OBVIOUS
  <2>1. sourceLink'[c].to \in Id
    BY <1>5 DEF LinkRow
  <2>2. CASE c \in DOMAIN mine.links
    BY <1>3, <1>4, <1>5, <2>1, <2>2 DEF OwnLinks
  <2>3. CASE c \notin DOMAIN mine.links
    BY <1>5, <1>8, <2>1, <2>3 DEF IdInv, Committed
  <2> QED
    BY <2>2, <2>3
<1>16. \A c \in Company : MintedFor(c)' # {} => sourceLink'[c].to # 0
  <2> SUFFICES ASSUME NEW c \in Company, NEW k \in Id, account'[k] # NoAccount,
                      account'[k].by = "run", account'[k].for = c
               PROVE  sourceLink'[c].to # 0
    BY DEF MintedFor
  <2>1. CASE account[k] # NoAccount
    <3>1. k \in MintedFor(c)
      BY <1>8, <2>1 DEF MintedFor
    <3> QED
      BY <1>11, <3>1 DEF IdInv, Committed
  <2>2. CASE account[k] = NoAccount
    <3>1. c \in DOMAIN mine.links
      BY <1>9, <2>2
    <3> QED
      BY <1>5, <1>10, <3>1, IdsAreNaturals
  <2> QED
    BY <2>1, <2>2
<1>17. Committed'
  BY <1>12, <1>13, <1>14, <1>15, <1>16 DEF Committed, MintedFor
<1>18. \A v \in Syncer : run'[v] # NoRun => run'[v] = run[v] /\ v \in Others(w)
  BY DEF RunEnd, Others, Running, IdInv, IdRows
<1>19. ASSUME NEW v \in Others(w), NEW i, i = run[v] PROVE Fits(i)'
  <2>1. i \in Run /\ Fits(i) /\ mine.raw \cap i.raw = {}
          /\ DOMAIN mine.accounts \cap DOMAIN i.accounts = {}
    BY <1>1, <1>2, <1>19 DEF IdInv, Others, Apart
  <2>2. \A k \in DOMAIN i.accounts : account'[k] = account[k]
    BY <1>4, <2>1, RunOf
  <2>3. ASSUME NEW c \in i.raw PROVE MintedFor(c)' \subseteq MintedFor(c)
    <3> SUFFICES ASSUME NEW k \in Id, account'[k] # NoAccount,
                        account'[k].by = "run", account'[k].for = c
                 PROVE  account[k] # NoAccount /\ account[k].by = "run" /\ account[k].for = c
      BY DEF MintedFor
    <3>1. account[k] # NoAccount
      BY <1>9, <2>1
    <3> QED
      BY <1>8, <3>1
  <2> QED
    BY <1>8, <2>1, <2>2, <2>3, StillFits
<1> QED
  BY <1>7, <1>17, <1>18, <1>19, OthersStillFit DEF IdInv, IdRows

\* A step of a person that leaves the accounts and the links as they are.
LEMMA PersonStep ==
  ASSUME IdInv, UNCHANGED <<account, sourceLink, run>>,
         deciding' \in [Reviewer -> Company \cup {Nobody}],
         candidate' \in [Company -> [status : {"none", "pending", "accepted", "rejected"},
                                     resolved : Id \cup {0}]],
         \A c \in Company : candidate'[c] # candidate[c] =>
           candidate[c].status # "accepted" /\ candidate'[c].status # "accepted"
  PROVE  IdInv'
<1>1. IdRows'
  BY DEF IdInv, IdRows
<1>2. DecisionsAgree'
  BY DEF IdInv, Committed, DecisionsAgree
<1>3. Committed'
  BY <1>2 DEF IdInv, Committed, MintedOnce, DomainsListedOnce, MintedFor, Existing
<1>4. \A i : Fits(i) => Fits(i)'
  BY DEF Fits, OwnAccounts, OwnLinks, AtHand, MintedFor, OwnMinted, Known
<1>5. \A v \in Syncer : run'[v] # NoRun => \A i : i = run[v] => Fits(i)'
  BY <1>4 DEF IdInv, Running
<1> QED
  BY <1>1, <1>3, <1>5, OthersStillFit DEF IdInv, IdRows

\* A person links a company to an account that exists or is created for it.
LEMMA AcceptStep ==
  ASSUME IdInv, NEW p \in Reviewer, AcceptUpdate(p)
  PROVE  IdInv'
<1> DEFINE c == deciding[p]
<1>1. c \in Company
  BY DEF AcceptUpdate, IdInv, IdRows
<1>2. PICK i \in Id :
        /\ Accepted(c, i)
        /\ \/ UNCHANGED account /\ account[i] # NoAccount
           \/ /\ i \in Unused
              /\ account' = [account EXCEPT ![i] =
                   [name |-> NameOf[c], domains |-> DomainsOf(c), for |-> c, by |-> "person"]]
  BY LeastId, IdsAreNaturals DEF AcceptUpdate, Unused, Existing
<1>3. i \in Unused =>
        /\ account[i] = NoAccount
        /\ \A v \in Syncer : Running(v) => i \notin DOMAIN run[v].accounts
  BY DEF Unused
<1> HIDE DEF c
<1>4. PICK row : row = [name |-> NameOf[c], domains |-> DomainsOf(c), for |-> c, by |-> "person"]
  OBVIOUS
<1>5. row \in AccountRow /\ row.by = "person" /\ IsInjective(row.domains)
  <2>1. DomainsOf(c) \in Seq(Domain) /\ IsInjective(DomainsOf(c))
    BY <1>1, DomainsOfCompany
  <2> QED
    BY <1>1, <1>4, <2>1 DEF AccountRow, Name
<1>6. /\ account' \in [Id -> AccountRow \cup {NoAccount}]
      /\ account'[i] # NoAccount
      /\ \A k \in Id : account'[k] = account[k] \/ (k = i /\ i \in Unused /\ account'[k] = row)
  BY <1>2, <1>4, <1>5, AccountRowIs DEF IdInv, IdRows
<1>7. /\ sourceLink' \in [Company -> LinkRow]
      /\ sourceLink'[c] = [to |-> i, by |-> "human"]
      /\ \A d \in Company : d # c => sourceLink'[d] = sourceLink[d]
  BY <1>1, <1>2 DEF Accepted, IdInv, IdRows, LinkRow
<1>8. /\ candidate' \in [Company -> [status : {"none", "pending", "accepted", "rejected"},
                                     resolved : Id \cup {0}]]
      /\ candidate'[c] = [status |-> "accepted", resolved |-> i]
      /\ \A d \in Company : d # c => candidate'[d] = candidate[d]
  BY <1>1, <1>2 DEF Accepted, IdInv, IdRows
<1>9. UNCHANGED run /\ deciding' \in [Reviewer -> Company \cup {Nobody}]
  BY DEF AcceptUpdate, IdInv, IdRows
<1>10. IdRows'
  BY <1>6, <1>7, <1>8, <1>9 DEF IdInv, IdRows
<1>11. \A k \in Id : account[k] # NoAccount => account'[k] = account[k]
  BY <1>3, <1>6
<1>12. \A k \in Id : account'[k] # NoAccount /\ account'[k].by = "run" => account'[k] = account[k]
  BY <1>5, <1>6
<1>13. \A d : MintedFor(d)' \subseteq MintedFor(d)
  BY <1>12 DEF MintedFor
<1>14. DecisionsAgree'
  BY <1>7, <1>8, IdsAreNaturals DEF IdInv, Committed, DecisionsAgree
<1>15. MintedOnce'
  BY <1>12 DEF IdInv, Committed, MintedOnce, Existing
<1>16. DomainsListedOnce'
  BY <1>5, <1>6 DEF IdInv, Committed, DomainsListedOnce, Existing
<1>17. \A d \in Company : sourceLink'[d].to # 0 => account'[sourceLink'[d].to] # NoAccount
  <2> SUFFICES ASSUME NEW d \in Company, sourceLink'[d].to # 0
               PROVE  account'[sourceLink'[d].to] # NoAccount
    OBVIOUS
  <2>1. CASE d = c
    BY <1>6, <1>7, <2>1
  <2>2. CASE d # c
    <3>1. sourceLink[d] = sourceLink'[d] /\ sourceLink[d].to \in Id
      BY <1>7, <2>2 DEF LinkRow
    <3> QED
      BY <1>11, <3>1 DEF IdInv, Committed
  <2> QED
    BY <2>1, <2>2
<1>18. \A d \in Company : MintedFor(d)' # {} => sourceLink'[d].to # 0
  <2> SUFFICES ASSUME NEW d \in Company, MintedFor(d)' # {} PROVE sourceLink'[d].to # 0
    OBVIOUS
  <2>1. sourceLink[d].to # 0
    BY <1>13 DEF IdInv, Committed
  <2> QED
    BY <1>7, <2>1, IdsAreNaturals
<1>19. Committed'
  BY <1>14, <1>15, <1>16, <1>17, <1>18 DEF Committed, MintedFor
<1>20. ASSUME NEW v \in Syncer, run'[v] # NoRun, NEW j, j = run[v] PROVE Fits(j)'
  <2>1. j \in Run /\ Fits(j) /\ Running(v)
    BY <1>9, <1>20 DEF IdInv, IdRows, Running
  <2>2. \A k \in DOMAIN j.accounts : account'[k] = account[k]
    BY <1>3, <1>6, <1>20, <2>1, RunOf
  <2> QED
    BY <1>11, <1>13, <2>1, <2>2, StillFits
<1> QED
  BY <1>9, <1>10, <1>19, <1>20, OthersStillFit DEF IdInv, IdRows

\* IdInv is preserved by every step.
LEMMA IdInvStep ==
  ASSUME IdInv, [IdNext]_idVars
  PROVE  IdInv'
<1>0. /\ deciding \in [Reviewer -> Company \cup {Nobody}]
      /\ candidate \in [Company -> [status : {"none", "pending", "accepted", "rejected"},
                                    resolved : Id \cup {0}]]
  BY DEF IdInv, IdRows
<1>1. CASE UNCHANGED idVars
  BY <1>0, <1>1, PersonStep DEF idVars
<1>2. ASSUME NEW p \in Reviewer, AcceptSelect(p) PROVE IdInv'
  BY <1>0, <1>2, PersonStep DEF AcceptSelect
<1>3. ASSUME NEW p \in Reviewer, AcceptGivesUp(p) PROVE IdInv'
  BY <1>0, <1>3, PersonStep DEF AcceptGivesUp
<1>4. CASE Reject
  <2>1. \A c \in Company : candidate'[c] # candidate[c] =>
          candidate[c].status # "accepted" /\ candidate'[c].status # "accepted"
    BY <1>0, <1>4 DEF Reject, Rejectable
  <2>2. candidate' \in [Company -> [status : {"none", "pending", "accepted", "rejected"},
                                    resolved : Id \cup {0}]]
    BY <1>0, <1>4 DEF Reject
  <2> QED
    BY <1>0, <1>4, <2>1, <2>2, PersonStep DEF Reject
<1> QED
  BY <1>1, <1>2, <1>3, <1>4, StartStep, LandStep, UpdateStep, MatchStep, LinkStep,
     QueueStep, MintStep, EndStep, DiesStep, AcceptStep DEF IdNext

\* Every reachable state of identity resolution is well typed.
THEOREM IdentityTypes == IdSpec => []IdTypeOK
<1>1. IdInv => IdTypeOK
  BY TypesFollow DEF IdInv
<1> QED
  BY <1>1, IdInvInit, IdInvStep, PTL DEF IdSpec

\* Overlapping runs of the CRM create at most one account for one of its companies
\* (HubSpotConnector._apply_company), for any number of runs and people.
THEOREM IdentityMintedOnce == IdSpec => []MintedOnce
<1>1. IdInv => MintedOnce
  BY DEF IdInv, Committed
<1> QED
  BY <1>1, IdInvInit, IdInvStep, PTL DEF IdSpec

\* Runs that enrich one account at the same time list a domain once
\* (resolve_account, resolution.py).
THEOREM IdentityDomainsOnce == IdSpec => []DomainsListedOnce
<1>1. IdInv => DomainsListedOnce
  BY DEF IdInv, Committed
<1> QED
  BY <1>1, IdInvInit, IdInvStep, PTL DEF IdSpec

\* Candidates and links tell one story, whatever accepts, rejections and runs race
\* (accept_candidate, reject_candidate, resolve_account).
THEOREM IdentityDecisions == IdSpec => []DecisionsAgree
<1>1. IdInv => DecisionsAgree
  BY DEF IdInv, Committed
<1> QED
  BY <1>1, IdInvInit, IdInvStep, PTL DEF IdSpec

-----------------------------------------------------------------------------
(* The two side by side, as TLC runs them.                                 *)

\* Every step of the composition is a step or a stutter of each part.
LEMMA BothSteps == [BothNext]_<<vars, idVars>> => [Next]_vars /\ [IdNext]_idVars
  BY DEF BothNext

\* The type invariants of both parts hold in their composition.
THEOREM ConnectorTypes == BothSpec => []BothTypeOK
<1>1. BothInit => Init /\ IdInit
  BY DEF BothInit
<1>2. BothSpec => Spec /\ IdSpec
  BY <1>1, BothSteps, PTL DEF BothSpec, Spec, IdSpec
<1>3. TypeOK /\ IdTypeOK => BothTypeOK
  BY DEF BothTypeOK
<1> QED
  BY <1>2, <1>3, SyncTypes, IdentityTypes, PTL
=============================================================================
