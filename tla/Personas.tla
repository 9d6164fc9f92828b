------------------------------ MODULE Personas ------------------------------
(***************************************************************************)
(* The presentation of one user on one campus, saved and published from    *)
(* several devices, and the pictures that may be selected for it.  The row *)
(* of the persona, or of the picture, is locked by every transaction; a    *)
(* first save finds no row that it could lock.                             *)
(***************************************************************************)
EXTENDS Naturals, Sequences

CONSTANTS Drafts,      \* PUTs of the persona; each has a presentation of its own
          Pictures,    \* social_persona_assets
          MaxAudits    \* bound of the model: audit records

ASSUME AuditsAssumption == MaxAudits \in Nat

VARIABLES persona,   \* the row of social_personas, or NoPersona
          saves,     \* where each save is
          audits,    \* social_persona_audits without the pictures'
          pictures,
          inPublic   \* the user is active, and a verified member of an active campus

personaVars == <<persona, saves, audits, pictures, inPublic>>

NoPersona == [status |-> "none", look |-> "none", selected |-> "none"]

PersonaInit ==
    /\ persona = NoPersona
    /\ saves = [d \in Drafts |-> "idle"]
    /\ audits = <<>>
    /\ pictures = [p \in Pictures |-> [status |-> "none", review |-> "not_required", verified |-> FALSE]]
    /\ inPublic = TRUE

Exists == persona.status # "none"

InsertAudit(action) ==
    /\ Len(audits) < MaxAudits
    /\ audits' = Append(audits, [action |-> action, look |-> persona'.look, status |-> persona'.status])

-----------------------------------------------------------------------------
(* The presentation.                                                       *)

\* upsert_draft in a verified membership.  If there is a row it stays locked
\* to the end; otherwise others may come first.
FindNoPersona(d) ==
    /\ saves[d] = "idle" /\ inPublic /\ ~Exists
    /\ saves' = [saves EXCEPT ![d] = "created"]
    /\ UNCHANGED <<persona, audits, pictures, inPublic>>

Saved(d) == [status |-> "draft", look |-> d, selected |-> "none"]

UpsertDraft(d) ==
    /\ saves[d] = "created" \/ (saves[d] = "idle" /\ inPublic /\ Exists)
    /\ persona' = Saved(d)
    /\ InsertAudit(IF saves[d] = "created" THEN "created" ELSE "edited")
    /\ saves' = [saves EXCEPT ![d] = "done"]
    /\ UNCHANGED <<pictures, inPublic>>

Publish ==
    /\ Exists /\ inPublic
    /\ persona' = [persona EXCEPT !.status = "published", !.selected = "none"]
    /\ InsertAudit("published")
    /\ UNCHANGED <<saves, pictures, inPublic>>

Archive ==
    /\ Exists /\ inPublic
    /\ persona' = [persona EXCEPT !.status = "archived", !.selected = "none"]
    /\ InsertAudit("archived")
    /\ UNCHANGED <<saves, pictures, inPublic>>

\* A ban, a membership that ends, a campus that closes, and the way back.
StandingChanges ==
    /\ inPublic' = ~inPublic
    /\ UNCHANGED <<persona, saves, audits, pictures>>

\* get_published_for_user: one statement.
PublicLook == IF persona.status = "published" /\ inPublic THEN persona.look ELSE "none"

-----------------------------------------------------------------------------
(* Pictures.  No handler calls these operations any more; the service      *)
(* offers them, and its tests use them.                                    *)

CreateAsset(p) ==
    /\ Exists /\ pictures[p].status = "none"
    /\ pictures' = [pictures EXCEPT ![p].status = "pending_upload"]
    /\ UNCHANGED <<persona, saves, audits, inPublic>>

CompleteAsset(p, reviewed) ==
    /\ pictures[p].status = "pending_upload"
    /\ pictures' = [pictures EXCEPT ![p] = [verified |-> TRUE,
          status |-> IF reviewed THEN "pending_review" ELSE "active",
          review |-> IF reviewed THEN "pending" ELSE "not_required"]]
    /\ UNCHANGED <<persona, saves, audits, inPublic>>

\* The worker and the reviewers; also of a picture that was active.
JudgeAsset(p, verdict) ==
    /\ pictures[p].verified
    /\ pictures' = [pictures EXCEPT ![p].review = verdict,
          ![p].status = IF @ \in {"revoked", "deleted"} THEN @
                        ELSE IF verdict = "approved" THEN "active" ELSE "rejected"]
    /\ UNCHANGED <<persona, saves, audits, inPublic>>

Unpublished(status) == IF status = "published" THEN "draft" ELSE status

SelectAsset(p) ==
    /\ pictures[p].status = "active" /\ pictures[p].verified
    /\ pictures[p].review \in {"approved", "not_required"}
    /\ persona' = [persona EXCEPT !.selected = p, !.status = Unpublished(@)]
    /\ InsertAudit("edited")
    /\ UNCHANGED <<saves, pictures, inPublic>>

\* revoke_asset, and the expiry of an upload that was never completed.
RevokeAsset(p) ==
    /\ pictures[p].status \notin {"none", "revoked", "deleted"}
    /\ pictures' = [pictures EXCEPT ![p].status = "revoked"]
    /\ persona' = IF persona.selected = p
                  THEN [persona EXCEPT !.selected = "none", !.status = Unpublished(@)] ELSE persona
    /\ UNCHANGED <<saves, audits, inPublic>>

ExpireUpload(p) ==
    /\ pictures[p].status = "pending_upload"
    /\ pictures' = [pictures EXCEPT ![p].status = "revoked"]
    /\ UNCHANGED <<persona, saves, audits, inPublic>>

PersonaNext ==
    \/ \E d \in Drafts : FindNoPersona(d) \/ UpsertDraft(d)
    \/ Publish \/ Archive \/ StandingChanges
    \/ \E p \in Pictures :
          \/ CreateAsset(p) \/ SelectAsset(p) \/ RevokeAsset(p) \/ ExpireUpload(p)
          \/ \E reviewed \in BOOLEAN : CompleteAsset(p, reviewed)
          \/ \E verdict \in {"approved", "rejected"} : JudgeAsset(p, verdict)

PersonaSpec == PersonaInit /\ [][PersonaNext]_personaVars

-----------------------------------------------------------------------------
(* Properties.                                                             *)

\* What others see is what was published last, and nothing was saved since;
\* a picture that was withdrawn is not selected.  PUT saves a private draft.
PersonaIsAsPublished ==
    /\ PublicLook # "none" =>
          audits[Len(audits)] = [action |-> "published", look |-> PublicLook, status |-> "published"]
    /\ persona.selected # "none" =>
          /\ pictures[persona.selected].verified
          /\ pictures[persona.selected].status \in {"active", "rejected"}

\* Refuted: two first saves at once are both recorded as the creation.
CreatedOnce == \A i, j \in DOMAIN audits :
    audits[i].action = "created" /\ audits[j].action = "created" => i = j
\* Refuted: a picture that is rejected after it was selected stays selected.
SelectedIsApproved == persona.selected # "none" => pictures[persona.selected].status = "active"
=============================================================================
