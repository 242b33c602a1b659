------------------------- MODULE IdentityResolution -------------------------
(***************************************************************************)
(* Identity resolution (rig/resolution.py): which account a company of the *)
(* CRM or a customer of another source is, under runs that overlap and     *)
(* people who decide what the matching could not.  SourceSync has one      *)
(* source, its cursors and how its runs end; here runs of several sources  *)
(* match companies with accounts that other transactions are creating,     *)
(* renaming and enriching.                                                 *)
(*                                                                         *)
(* A run is one READ COMMITTED transaction.  It lists some companies of    *)
(* its source, each once, in an order the source chooses.  Landing a       *)
(* company locks its raw_record row and writing an account locks its row,  *)
(* both to the transaction's end.  Two names are as alike as Likeness says,*)
(* which stands for normalize_name and SequenceMatcher.  No code deletes   *)
(* an account.                                                             *)
(***************************************************************************)
EXTENDS Naturals, SequencesExt, FiniteSetsExt

CONSTANTS Syncer,       \* request threads that run syncs
          Reviewer,     \* people who decide on candidates
          Company,      \* source records that stand for a company
          SourceOf,     \* [Company -> source]; "hubspot" is the primary one
          NameOf,       \* [Company -> name]
          DomainOf,     \* [Company -> domain or NoDomain]
          NoDomain,
          Likeness,     \* [name -> [name -> 0..100]]
          MaxCreated,   \* bound on the accounts people create
          Dies          \* whether runs may die

Name == {NameOf[c] : c \in Company}
Domain == {DomainOf[c] : c \in Company} \ {NoDomain}

ASSUME CompaniesAssumption ==
  /\ IsFiniteSet(Company)
  /\ DOMAIN SourceOf = Company /\ DOMAIN NameOf = Company /\ DOMAIN DomainOf = Company
  /\ Likeness \in [Name -> [Name -> 0..100]]
  /\ MaxCreated \in Nat /\ Dies \in BOOLEAN

VARIABLES
  account,    \* [Id -> committed account row, or NoAccount]
  sourceLink,  \* [Company -> its source_link row]
  candidate,  \* [Company -> its identity_candidate row]
  deciding,   \* [Reviewer -> company whose pending candidate an accept has read]
  run         \* [Syncer -> run under way, with what it has not committed]

idVars == <<account, sourceLink, candidate, deciding, run>>

AUTO_LINK_CONFIDENCE == 95
REVIEW_CONFIDENCE == 70

\* Ids are drawn as they are needed; 0 is no account.
Id == 1..(Cardinality(Company) + MaxCreated)
NoAccount == [name |-> "none"]
Unlinked == [to |-> 0, by |-> "none"]
NoCandidate == [status |-> "none", resolved |-> 0]
NoRun == [phase |-> "none"]
Nobody == "nobody"
NoMatch == [to |-> 0, likeness |-> 0]

Running(w) == run[w] # NoRun
Others(w) == {v \in Syncer \ {w} : Running(v)}

\* Rows with the rows of one transaction over those committed.
Over(rows, own) == [k \in DOMAIN rows |-> IF k \in DOMAIN own THEN own[k] ELSE rows[k]]
SeenAccounts(w) == Over(account, run[w].accounts)
SeenLinks(w) == Over(sourceLink, run[w].links)
Put(f, k, row) == [x \in DOMAIN f \cup {k} |-> IF x = k THEN row ELSE f[x]]

Existing(accounts) == {i \in Id : accounts[i] # NoAccount}

\* An id nobody has used, committed or not.
Unused ==
  {i \in Id : account[i] = NoAccount /\ \A v \in Syncer : Running(v) => i \notin DOMAIN run[v].accounts}

\* domains of a new account.
DomainsOf(c) == IF DomainOf[c] = NoDomain THEN <<>> ELSE <<DomainOf[c]>>

-----------------------------------------------------------------------------

IdInit ==
  /\ account = [i \in Id |-> NoAccount]
  /\ sourceLink = [c \in Company |-> Unlinked]
  /\ candidate = [c \in Company |-> NoCandidate]
  /\ deciding = [r \in Reviewer |-> Nobody]
  /\ run = [w \in Syncer |-> NoRun]

RunStart(w) ==
  /\ ~Running(w)
  /\ \E s \in {SourceOf[c] : c \in Company} :
       \E listed \in SUBSET {c \in Company : SourceOf[c] = s} \ {{}} :
         \E order \in SetToSeqs(listed) :
           run' = [run EXCEPT ![w] =
             [phase |-> "land", todo |-> order, found |-> NoMatch,
              raw |-> {}, accounts |-> <<>>, links |-> <<>>, queued |-> {}]]
  /\ UNCHANGED <<account, sourceLink, candidate, deciding>>

\* The run goes on with the next company.
Done(j) == [j EXCEPT !.phase = "land", !.todo = Tail(@), !.found = NoMatch]

Current(w) == Head(run[w].todo)

\* Mutant of RawFree: landing takes no lock.
RawUnlocked(w, c) == TRUE

RawFree(w, c) == \A v \in Others(w) : c \notin run[v].raw

AccountFree(w, i) == \A v \in Others(w) : i \notin DOMAIN run[v].accounts

\* _land_raw, then _existing_link.  Of a company that is linked the CRM goes on
\* to update the account, other sources do nothing.
Land(w) ==
  /\ run[w].phase = "land" /\ run[w].todo # <<>>
  /\ LET c == Current(w)
         to == SeenLinks(w)[c].to
         landed == [run[w] EXCEPT !.raw = @ \cup {c}]
     IN
     /\ RawFree(w, c)
     /\ run' = [run EXCEPT ![w] =
          IF to = 0 THEN [landed EXCEPT !.phase = "match"]
          ELSE IF SourceOf[c] = "hubspot"
               THEN [landed EXCEPT !.phase = "update", !.found = [to |-> to, likeness |-> 100]]
               ELSE Done(landed)]
  /\ UNCHANGED <<account, sourceLink, candidate, deciding>>

\* HubSpotConnector._apply_company: the CRM's fields on the account.
Update(w) ==
  /\ run[w].phase = "update"
  /\ LET to == run[w].found.to IN
     /\ AccountFree(w, to)
     /\ run' = [run EXCEPT ![w] =
          Done([run[w] EXCEPT !.accounts =
            Put(@, to, [SeenAccounts(w)[to] EXCEPT !.name = NameOf[Current(w)]])])]
  /\ UNCHANGED <<account, sourceLink, candidate, deciding>>

\* _best_match: any account with the domain, else one whose name is most alike.
BestMatches(accounts, c) ==
  LET same == {i \in Existing(accounts) : DomainOf[c] \in Range(accounts[i].domains)}
      Alike(i) == Likeness[NameOf[c]][accounts[i].name]
      best == {i \in Existing(accounts) : \A k \in Existing(accounts) : Alike(k) <= Alike(i)}
      close == {i \in best : Alike(i) >= REVIEW_CONFIDENCE}
  IN IF same # {} THEN {[to |-> i, likeness |-> 98] : i \in same}
     ELSE IF close # {} THEN {[to |-> i, likeness |-> Alike(i)] : i \in close}
     ELSE {NoMatch}

Match(w) ==
  /\ run[w].phase = "match"
  /\ \E m \in BestMatches(SeenAccounts(w), Current(w)) :
       run' = [run EXCEPT ![w] = [@ EXCEPT !.phase = "write", !.found = m]]
  /\ UNCHANGED <<account, sourceLink, candidate, deciding>>

\* Mutant of Lacks: appended whether or not it is there by now.
LacksAny(row, c) == DomainOf[c] # NoDomain

Lacks(row, c) == DomainOf[c] \notin Range(row.domains) \cup {NoDomain}

\* A match of AUTO_LINK_CONFIDENCE: linked, and the account gets the domain if it
\* lacks it, also when its row was locked and has changed.  An UPDATE whose
\* snapshot already has the domain waits for nobody.
LinkMatch(w) ==
  /\ run[w].phase = "write" /\ run[w].found.likeness >= AUTO_LINK_CONFIDENCE
  /\ LET c == Current(w)
         to == run[w].found.to
         row == SeenAccounts(w)[to]
         linked == [run[w] EXCEPT !.links = Put(@, c, [to |-> to, by |-> "match"])]
         enriched == [row EXCEPT !.domains = Append(@, DomainOf[c])]
     IN
     \/ /\ ~Lacks(row, c)
        /\ run' = [run EXCEPT ![w] = Done(linked)]
     \/ /\ Lacks(row, c)
        /\ AccountFree(w, to)
        /\ run' = [run EXCEPT ![w] =
             Done([linked EXCEPT !.accounts = Put(@, to, enriched)])]
  /\ UNCHANGED <<account, sourceLink, candidate, deciding>>

\* A weaker match, or none for a secondary source: put before a person.
Queue(w) ==
  /\ run[w].phase = "write" /\ run[w].found.likeness < AUTO_LINK_CONFIDENCE
  /\ run[w].found # NoMatch \/ SourceOf[Current(w)] # "hubspot"
  /\ run' = [run EXCEPT ![w] = Done([run[w] EXCEPT !.queued = @ \cup {Current(w)}])]
  /\ UNCHANGED <<account, sourceLink, candidate, deciding>>

\* No match for the CRM's company: a new account.
Mint(w) ==
  /\ run[w].phase = "write" /\ run[w].found = NoMatch
  /\ LET c == Current(w) IN
     /\ SourceOf[c] = "hubspot"
     /\ Unused # {}
     /\ LET i == Min(Unused) IN
        run' = [run EXCEPT ![w] =
          Done([run[w] EXCEPT !.links = Put(@, c, [to |-> i, by |-> "created"]),
                              !.accounts = Put(@, i, [name |-> NameOf[c], domains |-> DomainsOf(c),
                                                      for |-> c, by |-> "run"])])]
  /\ UNCHANGED <<account, sourceLink, candidate, deciding>>

\* The run ends, or fails between two records: what it applied is committed,
\* a candidate only where there is none.
RunEnd(w) ==
  /\ run[w].phase = "land"
  /\ account' = SeenAccounts(w)
  /\ sourceLink' = SeenLinks(w)
  /\ candidate' = [c \in Company |->
       IF c \in run[w].queued /\ candidate[c] = NoCandidate
       THEN [status |-> "pending", resolved |-> 0] ELSE candidate[c]]
  /\ run' = [run EXCEPT ![w] = NoRun]
  /\ UNCHANGED deciding

\* What w has to write next, another run has written.
Waits(w) ==
  \/ run[w].phase = "land" /\ run[w].todo # <<>> /\ ~RawFree(w, Current(w))
  \/ run[w].phase \in {"update", "write"} /\ run[w].found.to \in Id /\ ~AccountFree(w, run[w].found.to)

\* A run dies, or waits for another that waits for it: all is rolled back.  The
\* handler in SyncRunner.run cannot commit a failure in an aborted transaction.
RunDies(w) ==
  /\ Running(w)
  /\ Dies \/ (Waits(w) /\ \E v \in Others(w) : Waits(v))
  /\ run' = [run EXCEPT ![w] = NoRun]
  /\ UNCHANGED <<account, sourceLink, candidate, deciding>>

-----------------------------------------------------------------------------
(* POST /v1/admin/identity/candidates/{id}/accept and /reject.             *)

\* accept_candidate: SELECT the pending candidate.
AcceptSelect(r) ==
  /\ deciding[r] = Nobody
  /\ \E c \in Company : candidate[c].status = "pending" /\ deciding' = [deciding EXCEPT ![r] = c]
  /\ UNCHANGED <<account, sourceLink, candidate, run>>

\* The link and the candidate are written by id, whatever they are by now.
Accepted(c, i) ==
  /\ sourceLink' = [sourceLink EXCEPT ![c] = [to |-> i, by |-> "human"]]
  /\ candidate' = [candidate EXCEPT ![c] = [status |-> "accepted", resolved |-> i]]

Created == {i \in Existing(account) : account[i].by = "person"}

\* To a new account, or to one that exists; the link row must be free.
AcceptUpdate(r) ==
  /\ deciding[r] # Nobody
  /\ LET c == deciding[r] IN
     /\ \A v \in Syncer : Running(v) => c \notin DOMAIN run[v].links
     /\ \/ /\ Cardinality(Created) < MaxCreated /\ Unused # {}
           /\ LET i == Min(Unused) IN
              /\ account' = [account EXCEPT ![i] =
                   [name |-> NameOf[c], domains |-> DomainsOf(c), for |-> c, by |-> "person"]]
              /\ Accepted(c, i)
        \/ /\ \E i \in Existing(account) : Accepted(c, i)
           /\ UNCHANGED account
  /\ deciding' = [deciding EXCEPT ![r] = Nobody]
  /\ UNCHANGED run

\* The request ends without a target.
AcceptGivesUp(r) ==
  /\ deciding[r] # Nobody
  /\ deciding' = [deciding EXCEPT ![r] = Nobody]
  /\ UNCHANGED <<account, sourceLink, candidate, run>>

\* Mutant of Rejectable: the UPDATE is by id alone.
RejectableAny(c) == candidate[c] # NoCandidate

Rejectable(c) == candidate[c].status = "pending"

\* reject_candidate: one UPDATE guarded by the pending status.
Reject ==
  /\ \E c \in Company :
       Rejectable(c) /\ candidate' = [candidate EXCEPT ![c].status = "rejected"]
  /\ UNCHANGED <<account, sourceLink, deciding, run>>

IdNext ==
  \/ \E w \in Syncer :
       \/ RunStart(w) \/ Land(w) \/ Update(w) \/ Match(w) \/ LinkMatch(w)
       \/ Queue(w) \/ Mint(w) \/ RunEnd(w) \/ RunDies(w)
  \/ \E r \in Reviewer : AcceptSelect(r) \/ AcceptUpdate(r) \/ AcceptGivesUp(r)
  \/ Reject

IdSpec == IdInit /\ [][IdNext]_idVars

-----------------------------------------------------------------------------

AccountRow == [name : Name, domains : Seq(Domain), for : Company, by : {"run", "person"}]
LinkRow == [to : Id \cup {0}, by : {"none", "created", "match", "human"}]

IdTypeOK ==
  /\ \A i \in Id : account[i] = NoAccount \/ account[i] \in AccountRow
  /\ sourceLink \in [Company -> LinkRow]
  /\ candidate \in [Company -> [status : {"none", "pending", "accepted", "rejected"},
                                resolved : Id \cup {0}]]
  /\ deciding \in [Reviewer -> Company \cup {Nobody}]
  /\ \A w \in Syncer : Running(w) =>
       /\ run[w].phase \in {"land", "match", "update", "write"}
       /\ run[w].raw \subseteq Company /\ run[w].queued \subseteq Company
       /\ DOMAIN run[w].accounts \subseteq Id /\ DOMAIN run[w].links \subseteq Company

\* However runs of the CRM overlap, die and follow each other, and whatever
\* people link meanwhile, runs create at most one account for one of its
\* companies, although nothing in the table of accounts forbids a second.
MintedOnce ==
  \A i, k \in Existing(account) :
    account[i].by = "run" /\ account[k].by = "run" /\ account[i].for = account[k].for => i = k

\* Runs of two sources that enrich one account at the same time, each having
\* seen it without the domain, append it once.
DomainsListedOnce == \A i \in Existing(account) : IsInjective(account[i].domains)

\* The candidate and the link are written by different statements of handlers
\* that race; still they tell one story: a person's link is to the account the
\* candidate was accepted for, and a rejected company has no such link.
DecisionsAgree ==
  \A c \in Company :
    /\ candidate[c].status = "accepted" => sourceLink[c].to # 0
    /\ sourceLink[c].by = "human" =>
         candidate[c].status = "accepted" /\ candidate[c].resolved = sourceLink[c].to

-----------------------------------------------------------------------------
(* What one may expect and the code does not do.                           *)

\* A run that looked before a person decided replaces the person's link.
DecisionStands ==
  [][\A c \in Company : sourceLink[c].by = "human" => sourceLink'[c].by = "human"]_idVars

\* accept_candidate overrides a rejection made after it read the candidate.
RejectionStands ==
  [][\A c \in Company : candidate[c].status = "rejected" => candidate'[c].status = "rejected"]_idVars

\* A domain belongs to one account.
DomainsExclusive ==
  \A i, k \in Existing(account) :
    i # k => Range(account[i].domains) \cap Range(account[k].domains) = {}
=============================================================================
