---------------------------- MODULE Recommendation ----------------------------
(***************************************************************************)
(* The recommendation of Admission and the decision of Direction about one *)
(* application: packages/database/src/recommendation.ts and the tables and *)
(* append-only triggers of migration e5e.                                  *)
(*                                                                         *)
(* Every operation locks the application row before it reads the rows it   *)
(* decides on, so each one is a single step.  What interleaves is people:  *)
(* they act on the version identifiers they have seen, which may be old.   *)
(* An approval that finds no seat rolls back: it is no step at all.        *)
(* Its specification is CaseSpec, so that a module can extend it beside    *)
(* Access, which says who the people are.                                  *)
(***************************************************************************)
EXTENDS Integers, Sequences, FiniteSets

CONSTANTS
  Recommenders,  \* staff with application.recommend
  Deciders,      \* staff with application.decide (may overlap)
  MaxVersions,   \* bound: recommendation versions
  MaxEdits       \* bound: updates of one draft

ASSUME BoundsAssumption == MaxVersions \in Nat /\ MaxEdits \in Nat

VARIABLES
  status,     \* applications.status, from its submission on
  versions,   \* admission_recommendation_versions, by version_number
  current,    \* admission_recommendations.current_version_id, 0 for NULL
  decisions   \* direction_decision_versions, by version_number

caseVars == <<status, versions, current, decisions>>

Final == {"APROBADO", "LISTA_DE_ESPERA", "RECHAZADO"}
Returned == "DEVUELTO_A_REVISION"
Disposition == Final \cup {Returned}

CaseInit ==
  /\ status = "SUBMITTED"
  /\ versions = <<>>
  /\ current = 0
  /\ decisions = <<>>

Drafts == {v \in DOMAIN versions : versions[v].lifecycle = "DRAFT"}
Submitted == {v \in DOMAIN versions : versions[v].lifecycle = "SUBMITTED"}

LastDisposition ==
  IF decisions = <<>> THEN "none" ELSE decisions[Len(decisions)].disposition

(* createDraft: a draft that exists is returned as it is.  After a submission
   the LAST decision of the case must be a return to review. *)
MayCorrect == current = 0 \/ LastDisposition = Returned
NoOpenDraft_Ignored == TRUE
NoOpenDraft == Drafts = {}

CreateDraft ==
  /\ status = "SUBMITTED"
  /\ Len(versions) < MaxVersions
  /\ NoOpenDraft
  /\ MayCorrect
  /\ versions' = Append(versions, [lifecycle |-> "DRAFT", previous |-> current,
                                   edits |-> 0, submittedBy |-> {}])
  /\ UNCHANGED <<status, current, decisions>>

UpdateDraft_Submitted(v) ==
  /\ status = "SUBMITTED"
  /\ versions[v].edits < MaxEdits
  /\ versions' = [versions EXCEPT ![v].edits = @ + 1]
  /\ UNCHANGED <<status, current, decisions>>
UpdateDraft(v) ==
  /\ status = "SUBMITTED"
  /\ versions[v].lifecycle = "DRAFT"
  /\ versions[v].edits < MaxEdits
  /\ versions' = [versions EXCEPT ![v].edits = @ + 1]
  /\ UNCHANGED <<status, current, decisions>>

(* submitRecommendation: a version that is submitted is returned as it is. *)
SubmitRecommendation(s, v) ==
  /\ status = "SUBMITTED"
  /\ versions[v].lifecycle = "DRAFT"
  /\ versions' = [versions EXCEPT ![v].lifecycle = "SUBMITTED",
                                  ![v].submittedBy = {s}]
  /\ current' = v
  /\ UNCHANGED <<status, decisions>>

(* recordDirectionDecision: what the last decision of the case allows.  The
   repetition of a final decision returns the recorded one. *)
MayDecide ==
  /\ LastDisposition \notin Final
  /\ LastDisposition = Returned => decisions[Len(decisions)].recommendation # current

(* authorize(): the person who submitted the current version may not decide. *)
Separated(d) == d \notin versions[current].submittedBy

RecordDirectionDecision(d, expected, disposition) ==
  /\ status = "SUBMITTED"
  /\ current # 0
  /\ expected = current
  /\ Separated(d)
  /\ MayDecide
  /\ decisions' = Append(decisions, [disposition |-> disposition, decidedBy |-> d,
                                     recommendation |-> current,
                                     edits |-> versions[current].edits])
  /\ UNCHANGED <<status, versions, current>>

(* withdrawApplication of capacity-offer.ts takes the same lock. *)
Withdraw ==
  /\ status = "SUBMITTED"
  /\ status' = "WITHDRAWN"
  /\ UNCHANGED <<versions, current, decisions>>

CaseNext ==
  \/ CreateDraft
  \/ \E v \in DOMAIN versions : UpdateDraft(v)
  \/ \E v \in DOMAIN versions, s \in Recommenders : SubmitRecommendation(s, v)
  \/ \E v \in DOMAIN versions, d \in Deciders, disposition \in Disposition :
       RecordDirectionDecision(d, v, disposition)
  \/ Withdraw

CaseSpec == CaseInit /\ [][CaseNext]_caseVars

-----------------------------------------------------------------------------
(* The rows keep the shape of the tables of migration e5e. *)
Version == [lifecycle : {"DRAFT", "SUBMITTED"}, previous : Nat, edits : Nat,
            submittedBy : SUBSET Recommenders]
Decision == [disposition : Disposition, decidedBy : Deciders,
             recommendation : Nat, edits : Nat]
TypeOK ==
  /\ status \in {"SUBMITTED", "WITHDRAWN"}
  /\ versions \in Seq(Version)
  /\ current \in 0 .. Len(versions)
  /\ decisions \in Seq(Decision)

(* The pointer Direction decides on is the newest recommendation that was sent:
   a draft that was left open and sent late never brings an older one back. *)
CurrentIsNewestSubmitted ==
  /\ current = 0 <=> Submitted = {}
  /\ \A v \in Submitted : v <= current
  /\ \A v \in Drafts : v > current

(* A final decision ends the case and a returned version is not decided again:
   of all the decisions of a case only the last can be final, and no two are
   about the same recommendation. *)
OnlyTheLastIsFinal ==
  \A i \in DOMAIN decisions : i < Len(decisions) => decisions[i].disposition = Returned
EachVersionDecidedOnce ==
  \A i, j \in DOMAIN decisions :
    decisions[i].recommendation = decisions[j].recommendation => i = j

(* The text Direction decided on is the text the recommendation still has. *)
DecidedTextStands ==
  \A i \in DOMAIN decisions :
    decisions[i].edits = versions[decisions[i].recommendation].edits

(* The person who sent a recommendation is never the one who decided on it. *)
NobodyDecidesTheirOwn ==
  \A i \in DOMAIN decisions :
    decisions[i].decidedBy \notin versions[decisions[i].recommendation].submittedBy

(* What was decided stands: decided once, by somebody else, on a text that is
   still the same, and nothing follows a final decision, whatever corrections
   and drafts come before and after. *)
DecisionsStand ==
  /\ OnlyTheLastIsFinal
  /\ EachVersionDecidedOnce
  /\ DecidedTextStands
  /\ NobodyDecidesTheirOwn

(* Acceptance criterion AC-028: who recommended the case does not decide it. *)
RecommenderNeverDecides ==
  \A i \in DOMAIN decisions, v \in DOMAIN versions :
    v <= decisions[i].recommendation => decisions[i].decidedBy \notin versions[v].submittedBy

(* createDraft: "A submitted recommendation can only be corrected after return
   to review": the version a correction replaces was itself returned. *)
CorrectionFollowsReturn ==
  \A v \in DOMAIN versions :
    versions[v].previous # 0 =>
      \E i \in DOMAIN decisions : /\ decisions[i].recommendation = versions[v].previous
                                  /\ decisions[i].disposition = Returned
=============================================================================
