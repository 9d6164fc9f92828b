------------------------------ MODULE Memories ------------------------------
(***************************************************************************)
(* What the assistant remembers of one user: the profile with its privacy  *)
(* settings, the listings of the session, notes on two campuses, and the   *)
(* skills the user wrote.  Requests and prompts run side by side, and each *)
(* reads in one statement what it writes, or tells the model, in others.   *)
(***************************************************************************)
EXTENDS FiniteSetsExt, Sequences

CONSTANTS Edits, Searches, Notes,
          Prompts,                   \* contexts that are assembled
          NoteCampus,              \* the campus of a note
          Here,                    \* the campus of the prompts
          SessionLimit,            \* SESSION_RECENT_LIMIT
          SkillNames, SkillEdits,
          MaxSkills, MaxChars      \* MAX_SKILLS_PER_USER, MAX_ENABLED_PROMPT_CHARS

ASSUME MemoryAssumption ==
    /\ {SessionLimit, MaxSkills, MaxChars} \subseteq Nat
    /\ {"session", "profile"} \cap Notes = {}

VARIABLES profile,   \* the row of user_agent_profiles, or NoProfile
          edits, session, searches, notes, prompts,
          open,      \* prompts during which the profile was once open to the assistant
          skills, skillEdits

memoryVars == <<profile, edits, session, searches, notes, prompts, open>>
skillVars  == <<skills, skillEdits>>

Levels == {"standard", "strict", "minimal"}
NoProfile == [enabled |-> FALSE, level |-> "none"]
DefaultProfile == [enabled |-> TRUE, level |-> "standard"]

MemoryInit ==
    /\ profile = NoProfile /\ session = <<>> /\ notes = {} /\ open = {}
    /\ edits = [e \in Edits |-> [step |-> "idle"]]
    /\ searches = [s \in Searches |-> [step |-> "idle"]]
    /\ prompts = [t \in Prompts |-> [step |-> "idle", told |-> {}]]

SkillInit ==
    /\ skills = [n \in SkillNames |-> [enabled |-> FALSE, chars |-> 0]]
    /\ skillEdits = [k \in SkillEdits |-> [step |-> "idle"]]

IsOpen(p) == p.enabled /\ p.level \in {"standard", "strict"}

-----------------------------------------------------------------------------
(* The profile, the session, the notes.                                    *)

\* update_profile: get_or_create_profile, then everything is written.
Opened(p) == IF IsOpen(p) THEN {t \in Prompts : prompts[t].step \notin {"idle", "done"}} ELSE {}
ReadProfile(e) ==
    /\ edits[e].step = "idle"
    /\ profile' = IF profile = NoProfile THEN DefaultProfile ELSE profile
    /\ open' = open \cup Opened(profile')
    /\ \E new \in {[profile' EXCEPT !.enabled = ~@]} \cup {[profile' EXCEPT !.level = v] : v \in Levels} :
          edits' = [edits EXCEPT ![e] = [step |-> "read", new |-> new]]
    /\ UNCHANGED <<session, searches, notes, prompts>>
WriteProfile(e) ==
    /\ edits[e].step = "read"
    /\ profile' = edits[e].new
    /\ edits' = [edits EXCEPT ![e].step = "done"]
    /\ open' = open \cup Opened(profile')
    /\ UNCHANGED <<session, searches, notes, prompts>>

\* record_session_search: the newest first, each once, and no more than the limit.
OthersThan(s) ==
    IF \E i \in DOMAIN session : session[i] = s
    THEN LET at == CHOOSE i \in DOMAIN session : session[i] = s
         IN  SubSeq(session, 1, at - 1) \o SubSeq(session, at + 1, Len(session))
    ELSE session
Within(n) == IF n < SessionLimit THEN n ELSE SessionLimit
MergeSearch(s) ==
    /\ searches[s].step = "idle"
    /\ searches' = [searches EXCEPT ![s] = [step |-> "merged",
           ids |-> LET all == <<s>> \o OthersThan(s) IN SubSeq(all, 1, Within(Len(all)))]]
    /\ UNCHANGED <<profile, edits, session, notes, prompts, open>>
RecordSearch(s) ==
    /\ searches[s].step = "merged"
    /\ session' = searches[s].ids
    /\ searches' = [searches EXCEPT ![s].step = "done"]
    /\ UNCHANGED <<profile, edits, notes, prompts, open>>
ClearSessionMemory ==
    /\ session' = <<>> /\ UNCHANGED <<profile, edits, searches, notes, prompts, open>>

AddMemory(n)    == notes' = notes \cup {n} /\ UNCHANGED <<profile, edits, session, searches, prompts, open>>
DeleteMemory(n) == notes' = notes \ {n} /\ UNCHANGED <<profile, edits, session, searches, prompts, open>>
ClearAllMemories == notes' = {} /\ UNCHANGED <<profile, edits, session, searches, prompts, open>>

-----------------------------------------------------------------------------
(* format_memory_context.                                                  *)

StartPrompt(t) ==
    /\ prompts[t].step = "idle"
    /\ prompts' = [prompts EXCEPT ![t].step = "started"]
    /\ open' = IF IsOpen(profile) THEN open \cup {t} ELSE open
    /\ UNCHANGED <<profile, edits, session, searches, notes>>

\* A profile that cannot be read does not suppress the session, as little as
\* one that does not exist.
CheckSession(t) ==
    /\ prompts[t].step = "started"
    /\ \E failed \in BOOLEAN :
          prompts' = [prompts EXCEPT ![t].step =
              IF ~failed /\ profile # NoProfile /\ ~IsOpen(profile) THEN "session_done" ELSE "session_due"]
    /\ UNCHANGED <<profile, edits, session, searches, notes, open>>
TellSession(t) ==
    /\ prompts[t].step = "session_due"
    /\ prompts' = [prompts EXCEPT ![t].step = "session_done",
                              ![t].told = IF session = <<>> THEN {} ELSE {"session"}]
    /\ UNCHANGED <<profile, edits, session, searches, notes, open>>

Suppressed(p) == ~IsOpen(p)

\* Locations, categories, instructions and enabled skills; notes only at the
\* level "standard", after their own queries.
TellProfile(t) ==
    /\ prompts[t].step = "session_done"
    /\ prompts' = [prompts EXCEPT ![t] =
           IF Suppressed(profile) THEN [@ EXCEPT !.step = "done"]
           ELSE [step |-> IF profile.level = "standard" THEN "notes_due" ELSE "done",
                 told |-> @.told \cup {"profile"}]]
    /\ UNCHANGED <<profile, edits, session, searches, notes, open>>
RecallMemories(t) ==
    /\ prompts[t].step = "notes_due"
    /\ prompts' = [prompts EXCEPT ![t] = [step |-> "done", told |-> @.told \cup {n \in notes : NoteCampus[n] = Here}]]
    /\ UNCHANGED <<profile, edits, session, searches, notes, open>>

MemoryNext ==
    \/ \E e \in Edits : ReadProfile(e) \/ WriteProfile(e)
    \/ \E s \in Searches : MergeSearch(s) \/ RecordSearch(s)
    \/ ClearSessionMemory \/ ClearAllMemories
    \/ \E n \in Notes : AddMemory(n) \/ DeleteMemory(n)
    \/ \E t \in Prompts : StartPrompt(t) \/ CheckSession(t) \/ TellSession(t) \/ TellProfile(t) \/ RecallMemories(t)

MemorySpec == MemoryInit /\ [][MemoryNext]_memoryVars

-----------------------------------------------------------------------------
(* Skills.                                                                 *)

Enabled(table) == {n \in SkillNames : table[n].enabled}
CharsOf(table) == FoldSet(LAMBDA n, sum : sum + table[n].chars, 0, Enabled(table))
HasSkill(table, n) == table[n].chars > 0

\* upsert_skill and patch_skill list the skills, compare with the limits, and
\* write.  A skill that is imported again under its name is not compared.
AskSkill(k, n, chars, enabled, how) ==
    LET is_new == ~HasSkill(skills, n)
        after  == [skills EXCEPT ![n] = [enabled |-> enabled, chars |-> chars]]
        number == Cardinality({m \in SkillNames : HasSkill(skills, m)})
    IN  /\ skillEdits[k].step = "idle"
        /\ how = "patch" => ~is_new
        /\ how = "upsert" /\ is_new => number < MaxSkills
        /\ enabled /\ (how = "patch" \/ is_new) => CharsOf(after) <= MaxChars
        /\ skillEdits' = [skillEdits EXCEPT ![k] =
               [step |-> "checked", name |-> n, to |-> [enabled |-> enabled, chars |-> chars], how |-> how]]
        /\ UNCHANGED skills

\* A patch of a skill that is gone finds no row.
WriteSkill(k) ==
    LET it == skillEdits[k]
    IN  /\ it.step = "checked"
        /\ skills' = IF it.how = "upsert" \/ HasSkill(skills, it.name)
                     THEN [skills EXCEPT ![it.name] = it.to] ELSE skills
        /\ skillEdits' = [skillEdits EXCEPT ![k] = [step |-> "idle"]]

Gone == [enabled |-> FALSE, chars |-> 0]
DeleteSkill(n) == skills' = [skills EXCEPT ![n] = Gone] /\ UNCHANGED skillEdits
ClearSkills    == skills' = [n \in SkillNames |-> Gone] /\ UNCHANGED skillEdits

SkillNext ==
    \/ \E k \in SkillEdits :
          \/ WriteSkill(k)
          \/ \E n \in SkillNames, chars \in 1..MaxChars, enabled \in BOOLEAN, how \in {"upsert", "patch"} :
                AskSkill(k, n, chars, enabled, how)
    \/ \E n \in SkillNames : DeleteSkill(n)
    \/ ClearSkills

-----------------------------------------------------------------------------
(* Properties.                                                             *)

\* Context injection respects the privacy levels: what the profile and the
\* notes contribute was allowed at some time while the context was assembled,
\* however the settings change meanwhile; no note comes from another campus.
OptOutIsHonoured == \A t \in Prompts :
    /\ prompts[t].told \ {"session"} # {} => t \in open
    /\ \A n \in prompts[t].told \cap Notes : NoteCampus[n] = Here
    /\ prompts[t].told \cap Notes # {} => "profile" \in prompts[t].told

\* The listings of the session are the latest ones, each once.
SessionIsShort == Len(session) <= SessionLimit /\ \A i, j \in DOMAIN session : session[i] = session[j] => i = j

\* Refuted: an opt-out suppresses the session too, but for a failed read.
SessionIsSuppressed == \A t \in Prompts : prompts[t].told # {} => t \in open \/ profile = NoProfile
\* Refuted: a search that read the session before it was cleared writes it back.
ClearedIsGone == [][\A s \in Searches :
    searches[s].step = "merged" /\ searches'[s].step = "done" =>
        \A i \in DOMAIN session' : session'[i] = s \/ session'[i] \in {session[j] : j \in DOMAIN session}]_memoryVars
\* Refuted: caps so that imported skills can never blow up the prompt.
SkillsFitThePrompt == CharsOf(skills) <= MaxChars /\ Cardinality({n \in SkillNames : HasSkill(skills, n)}) <= MaxSkills
=============================================================================
