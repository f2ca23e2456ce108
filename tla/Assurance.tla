----------------------------- MODULE Assurance ------------------------------
(***************************************************************************)
(* M3: what it takes to call a candidate ready.  A candidate is a commit   *)
(* and the digest of the files; a ledger of claims and evidence, a review, *)
(* a UI record and an installation are each stamped with one.  Gates G1 to *)
(* G4, the UI gate and the local publication gate are pure functions of    *)
(* those files and of an observation of git, which is made in two looks:   *)
(* branch, HEAD and status first, the digest of the files after.           *)
(*                                                                         *)
(* Files are changed by their authors between any two of these steps;      *)
(* evidence is added by several writers under a lock file.                 *)
(***************************************************************************)
EXTENDS Naturals, Sequences, FiniteSets

CONSTANTS
  Baseline,     \* [must, criteria: requirement -> criteria, tested, problems]
  Contents,     \* what the files can be; 0 is the first commit
  Publishable,  \* the contents whose local audits have no finding
  ClaimSets,    \* claim id -> [reqs, criteria, state, hard]
  Records,      \* evidence id -> [type, status, claims, whole]: whole when its artifacts verify
  DiffReview,   \* the evidence id a ledger names as its diff review
  InstallTest,  \* the evidence id a release candidate names as its installation
  Reviews,      \* [completed, apart, covers, findings: set of [severity, status, approved]]
  UiRecords,    \* [brief, attempts: sequence of [pass, traced, whole]]
  UiPresent,    \* whether the manifest declares a UI
  Writers,      \* processes adding evidence
  MaxCommits, MaxLooks   \* bounds of the model

\* ReviewFindingSeverity; and a lock file's owner is a process.
Severities == {"low", "medium", "high", "critical"}
AssuranceBounds ==
  /\ \A r \in Reviews : \A f \in r.findings : f.severity \in Severities
  /\ "free" \notin Writers

VARIABLES
  commit, files,      \* HEAD as [id, content], and the content of the files
  ledger, assessed, ui, copied,   \* the ledger, the review, the UI record and the installed copy: <<>> or <<x>>
  adders, lockOwner,  \* writers of the ledger and the owner of its lock file, "free" or "dead"
  seen, looks,        \* what the running inspection saw: <<>>, [head, clean] or with the
                      \* digest, and how often it was run
  results,            \* gate artifacts: gate -> <<>> or <<[at, result]>>
  handoff, ready,     \* the last handoff and the last local-readiness result
  trial               \* history: the identity of the copy installed when the gates last ran

assuranceVars == <<commit, files, ledger, assessed, ui, copied, adders, lockOwner, seen, looks, results,
                   handoff, ready, trial>>

Gates == {"G1", "G2", "G3", "G4"}
\* _candidate_identity; the specification is one of the files.
Here == [head |-> commit.id, digest |-> files]
EvidenceAt(l, c) == {e \in DOMAIN l.evidence : c \in l.evidence[e].claims}

----------------------------------------------------------------------------
(* G1 and G2 *)

\* RequirementsGateService.evaluate: every requirement has criteria and no blocker is open.
G1 == /\ Baseline.must # {} /\ Baseline.problems = {}
      /\ \A r \in DOMAIN Baseline.criteria : Baseline.criteria[r] # {}

Must == Baseline.must
CriteriaOf(R) == UNION {Baseline.criteria[r] : r \in R}
Conformance == {"STATIC_ANALYSIS", "TYPE_CHECK", "BENCHMARK", "VISUAL", "MANUAL_REVIEW", "SOURCE_REVIEW"}

\* parse_evidence_ledger
LedgerLoads(l) ==
  /\ l.claims # <<>> /\ DOMAIN l.evidence # {}
  /\ \A e \in DOMAIN l.evidence : /\ l.evidence[e].claims \subseteq DOMAIN l.claims
                                  /\ l.evidence[e].type = "UNVERIFIED" <=> l.evidence[e].status = "NOT_VERIFIED"
  /\ DiffReview \in DOMAIN l.evidence
  /\ l.evidence[DiffReview].type = "SOURCE_REVIEW" /\ l.evidence[DiffReview].status = "PASS"

\* _claim_evidence_consistent
M_Consistent(l, c) ==
  LET E == EvidenceAt(l, c) IN
  /\ E # {}
  /\ l.claims[c].state = "verified" =>
       /\ \A e \in E : l.evidence[e].status = "PASS"
       /\ \E e \in E : l.evidence[e].type \in Conformance
Consistent(l, c) ==
  LET E        == EvidenceAt(l, c)
      statuses == {l.evidence[e].status : e \in E}
      unverified == \E e \in E : l.evidence[e].type = "UNVERIFIED"
      state    == l.claims[c].state
  IN  /\ E # {}
      /\ CASE state = "verified" ->
                /\ statuses = {"PASS"}
                /\ \E e \in E \ {DiffReview} : l.evidence[e].type \in Conformance
           [] state = "implemented" ->
                "PASS" \in statuses /\ "FAIL" \notin statuses /\ unverified
           [] state = "unverified" -> statuses = {"NOT_VERIFIED"} /\ unverified
           [] state = "failed"     -> "FAIL" \in statuses

\* The references of the claims of a ledger hold in the baseline.
References(l) ==
  \A c \in DOMAIN l.claims : /\ l.claims[c].reqs \subseteq DOMAIN Baseline.criteria
                             /\ l.claims[c].criteria \subseteq CriteriaOf(l.claims[c].reqs)
MustClaims(l) == {c \in DOMAIN l.claims : l.claims[c].reqs \cap Must # {}}
\* A verified claim on a tested criterion has a passing test.
Tests(l) ==
  \A c \in DOMAIN l.claims :
    (l.claims[c].state = "verified" /\ l.claims[c].criteria \cap Baseline.tested # {})
      => \E e \in EvidenceAt(l, c) : l.evidence[e].type = "TEST" /\ l.evidence[e].status = "PASS"
Critical(l) ==
  \A c \in DOMAIN l.claims : l.claims[c].hard =>
    l.claims[c].state = "verified" /\ \A e \in EvidenceAt(l, c) : l.evidence[e].status = "PASS"

\* ImplementationEvidenceGateService.evaluate
G2(l, candidate) ==
  /\ l.at = candidate
  /\ References(l)
  /\ CriteriaOf(Must) # {}
  /\ CriteriaOf(Must) \subseteq UNION {l.claims[c].criteria : c \in MustClaims(l)}
  /\ \E c \in DOMAIN l.claims : l.claims[c].state = "verified"
  /\ \A e \in DOMAIN l.evidence : l.evidence[e].at = candidate /\ l.evidence[e].whole
  /\ Tests(l)
  /\ \A c \in DOMAIN l.claims : Consistent(l, c)
  /\ \A e \in DOMAIN l.evidence : l.evidence[e].status # "FAIL"
  /\ \A c \in MustClaims(l) : l.claims[c].state = "verified"
  /\ Critical(l)

----------------------------------------------------------------------------
(* G3, the UI gate, G4 and local readiness *)

\* IndependentReviewGateService.evaluate, with the Owner's acceptances it was given.
G3(r, candidate, accepted) ==
  /\ r.at = candidate /\ r.completed /\ r.apart /\ r.covers
  /\ \A f \in r.findings : f.severity \in {"high", "medium"} => f.status = "resolved"
  /\ \A f \in r.findings : f.severity = "critical" =>
       f.status = "resolved" \/ (f.status = "accepted" /\ f \in accepted)
  /\ \A f \in r.findings : (f.status = "accepted" /\ f.severity = "critical") <=> f.approved
Acceptable(r) == {f \in r.findings : f.approved}

\* parse_ui_validation
UiLoads(u) ==
  IF UiPresent THEN u.brief /\ Len(u.attempts) \in 1..3 ELSE ~ u.brief /\ u.attempts = <<>>
\* UiValidationService.evaluate: every attempt has its trace, the last one passes in full.
Attempt(a) == a.traced /\ (a.pass => a.whole)
Ui(u, candidate) ==
  /\ u.at = candidate /\ UiLoads(u)
  /\ UiPresent => /\ \A i \in DOMAIN u.attempts : Attempt(u.attempts[i])
                  /\ u.attempts[Len(u.attempts)].pass

\* The installation test of a release candidate: its trace, and the copy it installed.
Installed(l, candidate) ==
  /\ InstallTest \in DOMAIN l.evidence
  /\ l.evidence[InstallTest].type = "TEST" /\ l.evidence[InstallTest].status = "PASS"
  /\ l.evidence[InstallTest].at = candidate
  /\ copied = <<candidate>>

Candidate(look) == [head |-> look.head, digest |-> look.digest]
\* audit_repository, audit_dependencies, license and documentation: of the files as they are now.
Audited == files \in Publishable
\* ReleaseCandidateGateService.evaluate
G4(l, r, u, look) ==
  /\ G2(l, Candidate(look)) /\ G3(r, Candidate(look), Acceptable(r)) /\ Ui(u, Candidate(look))
  /\ Installed(l, Candidate(look))
  /\ \A q \in Must : \E c \in DOMAIN l.claims : /\ l.claims[c].state = "verified"
                                                /\ q \in l.claims[c].reqs
  /\ Audited /\ look.clean /\ l.at = Candidate(look) /\ r.at = Candidate(look)

\* _valid_gate_result_artifact: a recorded PASS of the same candidate.
Recorded(g, candidate) == results[g] = <<[at |-> candidate, passed |-> TRUE]>>

\* PublicationReadinessService.evaluate: G1 to G3 again, without acceptances; G4 from its artifact.
LocalReady(l, r, look) ==
  /\ Audited /\ look.clean /\ l.at = Candidate(look) /\ r.at = Candidate(look)
  /\ G1 /\ G2(l, Candidate(look)) /\ G3(r, Candidate(look), {})
  /\ \A g \in Gates : Recorded(g, Candidate(look))

----------------------------------------------------------------------------
(* Authors *)

Ledgered == IF ledger = <<>> THEN <<>> ELSE <<ledger[1].at>>
Outside(w) == adders[w].stage = "idle"
EditFiles ==
  /\ files' \in {n \in Contents : n > files}
  /\ UNCHANGED <<commit, ledger, assessed, ui, copied, adders, lockOwner, seen, looks, results, handoff, ready, trial>>
Commit == /\ commit.id < MaxCommits /\ commit.content # files
          /\ commit' = [id |-> commit.id + 1, content |-> files]
          /\ UNCHANGED <<files, ledger, assessed, ui, copied, adders, lockOwner, seen, looks, results, handoff, ready, trial>>
\* One ledger a candidate, while nobody adds to it; it starts with its diff review.
WriteLedger ==
  /\ \A w \in Writers : Outside(w)
  /\ Ledgered # <<Here>>
  /\ \E claims \in ClaimSets :
       ledger' = <<[at |-> Here, claims |-> claims,
                    evidence |-> [e \in {DiffReview} |->
                      [type |-> "SOURCE_REVIEW", status |-> "PASS", claims |-> DOMAIN claims,
                       whole |-> TRUE, at |-> Here]]]>>
  /\ UNCHANGED <<commit, files, assessed, ui, copied, adders, lockOwner, seen, looks, results, handoff, ready, trial>>
\* A review is made of the candidate as it is; so are a UI record and an installed copy.
Reviewed == IF assessed = <<>> THEN <<>> ELSE <<assessed[1].at>>
Review == /\ Reviewed # <<Here>>
          /\ \E r \in Reviews : assessed' = <<[at |-> Here, completed |-> r.completed, apart |-> r.apart,
                                              covers |-> r.covers, findings |-> r.findings]>>
          /\ UNCHANGED <<commit, files, ledger, ui, copied, adders, lockOwner, seen, looks, results, handoff, ready, trial>>
Observe == /\ \E u \in UiRecords : ui' = <<[at |-> Here, brief |-> u.brief, attempts |-> u.attempts]>>
           /\ copied' = <<Here>>
           /\ UNCHANGED <<commit, files, ledger, assessed, adders, lockOwner, seen, looks, results, handoff, ready, trial>>

----------------------------------------------------------------------------
(* EvidenceLedgerStore.add *)

NotAdding == [stage |-> "idle"]
\* O_CREAT | O_EXCL: a lock file left by a dead writer refuses everyone.
M_LockFree == lockOwner # "dead"
LockFree == lockOwner = "free"
Fits(l, e) == e \notin DOMAIN l.evidence /\ Records[e].claims \subseteq DOMAIN l.claims
Lock(w, e) ==
  /\ Outside(w) /\ ledger # <<>> /\ LockFree /\ Fits(ledger[1], e)
  /\ lockOwner' = w
  /\ adders' = [adders EXCEPT ![w] = [stage |-> "locked", ledger |-> ledger[1], id |-> e]]
  /\ UNCHANGED <<commit, files, ledger, assessed, ui, copied, seen, looks, results, handoff, ready, trial>>
Recording(e, at) ==
  [type |-> Records[e].type, status |-> Records[e].status, claims |-> Records[e].claims,
   whole |-> Records[e].whole, at |-> at]
ReplaceLedger(w) ==
  /\ adders[w].stage = "locked"
  /\ LET a == adders[w]
         updated == [a.ledger EXCEPT !.evidence =
                      [e \in DOMAIN a.ledger.evidence \cup {a.id} |->
                         IF e = a.id THEN Recording(e, a.ledger.at) ELSE a.ledger.evidence[e]]]
     IN  /\ LedgerLoads(updated)
         /\ ledger' = <<updated>>
  /\ adders' = [adders EXCEPT ![w] = NotAdding]
  /\ lockOwner' = "free"
  /\ UNCHANGED <<commit, files, assessed, ui, copied, seen, looks, results, handoff, ready, trial>>
WriterDies(w) ==
  /\ adders[w].stage = "locked"
  /\ adders' = [adders EXCEPT ![w] = NotAdding] /\ lockOwner' = "dead"
  /\ UNCHANGED <<commit, files, ledger, assessed, ui, copied, seen, looks, results, handoff, ready, trial>>

----------------------------------------------------------------------------
(* Gates, readiness and handoffs *)

\* GitInspector.inspect, in its two looks.
Look == /\ seen = <<>> /\ looks < MaxLooks /\ looks' = looks + 1
        /\ seen' = <<[head |-> commit.id, clean |-> (files = commit.content)]>>
        /\ UNCHANGED <<commit, files, ledger, assessed, ui, copied, adders, lockOwner, results, handoff, ready, trial>>
Digest == /\ seen # <<>> /\ "digest" \notin DOMAIN seen[1]
          /\ seen' = <<[head |-> seen[1].head, clean |-> seen[1].clean, digest |-> files]>>
          /\ UNCHANGED <<commit, files, ledger, assessed, ui, copied, adders, lockOwner, looks, results, handoff, ready, trial>>
Inspected == IF seen = <<>> THEN FALSE ELSE "digest" \in DOMAIN seen[1]
Complete == Inspected /\ ledger # <<>> /\ assessed # <<>> /\ ui # <<>>
Passes(g) ==
  CASE g = "G1" -> G1
    [] g = "G2" -> G2(ledger[1], Candidate(seen[1]))
    [] g = "G3" -> G3(assessed[1], Candidate(seen[1]), Acceptable(assessed[1]))
    [] g = "G4" -> G4(ledger[1], assessed[1], ui[1], seen[1])
\* The gates are run on one observation and their results kept as artifacts.
RunGates ==
  /\ Complete
  /\ results' = [g \in Gates |-> <<[at |-> Candidate(seen[1]), passed |-> Passes(g)]>>]
  /\ trial' = copied
  /\ seen' = <<>>
  /\ UNCHANGED <<commit, files, ledger, assessed, ui, copied, adders, lockOwner, looks, handoff, ready>>
Judge ==
  /\ Complete
  /\ ready' = <<[at |-> Candidate(seen[1]), passed |-> LocalReady(ledger[1], assessed[1], seen[1]),
                 ledger |-> ledger[1], review |-> assessed[1], trial |-> trial]>>
  /\ seen' = <<>>
  /\ UNCHANGED <<commit, files, ledger, assessed, ui, copied, adders, lockOwner, looks, results, handoff, trial>>

\* _validate_observed_identity, HandoffService.create and validate_handoff_resume
Observed(look) == ledger[1].at = Candidate(look)
HandOff ==
  /\ Inspected /\ ledger # <<>> /\ Observed(seen[1])
  /\ handoff' = <<[look |-> seen[1], cites |-> DOMAIN ledger[1].evidence, resumed |-> FALSE]>>
  /\ seen' = <<>>
  /\ UNCHANGED <<commit, files, ledger, assessed, ui, copied, adders, lockOwner, looks, results, ready, trial>>
Resume ==
  /\ Inspected /\ ledger # <<>> /\ handoff # <<>> /\ Observed(seen[1])
  /\ handoff[1].look = seen[1] /\ handoff[1].cites \subseteq DOMAIN ledger[1].evidence
  /\ handoff' = <<[handoff[1] EXCEPT !.resumed = TRUE]>>
  /\ seen' = <<>>
  /\ UNCHANGED <<commit, files, ledger, assessed, ui, copied, adders, lockOwner, looks, results, ready, trial>>

AssuranceInit ==
  /\ commit = [id |-> 0, content |-> 0] /\ files = 0
  /\ ledger = <<>> /\ assessed = <<>> /\ ui = <<>> /\ copied = <<>>
  /\ adders = [w \in Writers |-> NotAdding] /\ lockOwner = "free"
  /\ seen = <<>> /\ looks = 0 /\ results = [g \in Gates |-> <<>>] /\ handoff = <<>> /\ ready = <<>> /\ trial = <<>>
AssuranceNext ==
  \/ EditFiles \/ Commit \/ WriteLedger \/ Review \/ Observe
  \/ \E w \in Writers : ReplaceLedger(w) \/ WriterDies(w) \/ \E e \in DOMAIN Records : Lock(w, e)
  \/ Look \/ Digest \/ RunGates \/ Judge \/ HandOff \/ Resume
AssuranceSpec == AssuranceInit /\ [][AssuranceNext]_assuranceVars

----------------------------------------------------------------------------
(* Properties *)

\* Ready means proved, of one candidate: every criterion of every Must requirement has a verified
\* claim with passing conformance evidence of that candidate besides the diff review, and a test
\* where one is due; the review of the same candidate leaves nothing open and nothing accepted, and
\* what was installed when G4 ran was that candidate.
ProvedReady(r) ==
  /\ \A c \in CriteriaOf(Must) : \E k \in DOMAIN r.ledger.claims :
       LET proof == {e \in EvidenceAt(r.ledger, k) \ {DiffReview} :
                       r.ledger.evidence[e].status = "PASS" /\ r.ledger.evidence[e].at = r.at}
       IN  /\ c \in r.ledger.claims[k].criteria /\ r.ledger.claims[k].state = "verified"
           /\ \E e \in proof : r.ledger.evidence[e].type \in Conformance
           /\ c \in Baseline.tested => \E e \in proof : r.ledger.evidence[e].type = "TEST"
  /\ r.review.at = r.at
  /\ \A f \in r.review.findings : f.severity # "low" => f.status = "resolved"
  /\ r.trial = <<r.at>>
ReadyIsProved == \A r \in {ready[i] : i \in DOMAIN ready} : r.passed => ProvedReady(r)

\* However writers of one ledger interleave or die, evidence once added stays.
EvidenceStays ==
  (Ledgered # <<>> /\ Ledgered' = Ledgered)
    => DOMAIN ledger[1].evidence \subseteq DOMAIN ledger'[1].evidence
=============================================================================
