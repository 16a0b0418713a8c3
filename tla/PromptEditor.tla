------------------------------ MODULE PromptEditor ------------------------------
(***************************************************************************)
(* The Prompt editor of the Studio page (app.js): one Prompt is open at a time,    *)
(* opened from the server or from a cache, checked and saved in two requests while   *)
(* the user goes on, with a draft of every Prompt that survives the page.          *)
(*                                                                         *)
(* A content is a set of changes, each with the Prompt it was meant for; a hash and   *)
(* a version are the content they are of.  Nobody types into a Prompt that is being    *)
(* loaded, loads do not fail, and the browser's own question on leaving is left out.  *)
(***************************************************************************)
EXTENDS Integers, FiniteSets

CONSTANTS
  PromptId,
  MaxTyped,    \* bound: changes typed in this page
  MaxForeign,  \* bound: changes of other editors
  MaxDeaths    \* bound: pages that die

ASSUME PromptAssumption == {MaxTyped, MaxForeign, MaxDeaths} \subseteq Nat

PromptChange == PromptId \X (-MaxForeign .. MaxTyped)   \* number 0 is what the file began with
KeptDraft == [hash : SUBSET PromptChange, content : SUBSET PromptChange]

VARIABLES
  promptFile,      \* the fileVars
  studioFile,      \* the Prompt that is open, if any
  textarea,
  studioOriginal,  \* what was loaded or saved, and its hash
  opening,         \* the load whose answer still counts: at most one [prompt, got]
  saving,          \* at most one save: [at, prompt, content, hash], with the Prompt it goes to
  promptDraft,     \* localStorage: at most one draft of each Prompt
  offer,           \* the question whether to restore a draft: at most one, asked over content of that hash
  cache,           \* studioFileCache: at most one content of each Prompt
  typed, foreign, deaths,
  made,            \* history: the changes typed here or saved by others
  crossed,         \* history: Prompts a text was about to be saved to that was not made from them
  dropped,         \* history: changes that the user gave up, or typed during a save
  outdated,        \* history: changes in drafts that the page removed as they were of another content
  behind           \* history: Prompts that somebody else saved, or that were shown as they were before

promptVars == <<promptFile, studioFile, textarea, studioOriginal, opening, saving, promptDraft, offer,
                cache, typed, foreign, deaths, made, crossed, dropped, outdated, behind>>
fileVars == <<promptFile, typed, foreign, deaths, made>>

dirty == studioFile # {} /\ textarea # studioOriginal
Open(p) == studioFile = {p}
New(content) == {c \in content : c[2] > 0}
InDrafts(drafts) == UNION {New(d.content) : d \in drafts}
Forgotten(drafts) == InDrafts(UNION {promptDraft[q] \ drafts[q] : q \in PromptId})
NoDialog == offer = {}   \* a dialog keeps everything else from being clicked

PromptInit ==
  /\ promptFile = [p \in PromptId |-> {<<p, 0>>}]
  /\ studioFile = {} /\ textarea = {} /\ studioOriginal = {}
  /\ opening = {} /\ saving = {} /\ offer = {}
  /\ promptDraft = [p \in PromptId |-> {}] /\ cache = [p \in PromptId |-> {}]
  /\ typed = 0 /\ foreign = 0 /\ deaths = 0 /\ made = {} /\ crossed = {} /\ dropped = {}
  /\ outdated = {} /\ behind = {}

--------------------------------------------------------------------------
(* Every input stores the draft. *)
Type ==
  /\ NoDialog /\ opening = {} /\ typed < MaxTyped
  /\ \E p \in studioFile :
       LET change == <<p, typed + 1>>
       IN /\ textarea' = textarea \cup {change}
          /\ promptDraft' = [promptDraft EXCEPT ![p] = {[hash |-> studioOriginal, content |-> textarea']}]
          /\ dropped' = IF saving = {} THEN dropped ELSE dropped \cup {change}
          /\ made' = made \cup {change}
  /\ typed' = typed + 1
  /\ UNCHANGED <<promptFile, studioFile, studioOriginal, opening, saving, offer, cache, foreign,
                 deaths, crossed, outdated, behind>>

OtherEditorSaves ==
  /\ foreign < MaxForeign /\ foreign' = foreign + 1
  /\ \E p \in PromptId : /\ promptFile' = [promptFile EXCEPT ![p] = @ \cup {<<p, -foreign'>>}]
                         /\ made' = made \cup {<<p, -foreign'>>}
                         /\ behind' = behind \cup {p}
  /\ UNCHANGED <<studioFile, textarea, studioOriginal, opening, saving, promptDraft, offer, cache,
                 typed, deaths, crossed, dropped, outdated>>

--------------------------------------------------------------------------
(* applyStudioLoaded, then maybeRestorePromptDraft: a draft of another content is      *)
(* removed, and nobody is told; one that changes something is offered.              *)
MutantStillValid(d, content) == TRUE
StillValid(d, content) == d.hash = content
Shown(p, content, drafts) ==
  /\ studioFile' = {p} /\ textarea' = content /\ studioOriginal' = content
  /\ LET valid == {d \in drafts[p] : StillValid(d, content) /\ d.content # content}
     IN /\ promptDraft' = [drafts EXCEPT ![p] = valid]
        /\ offer' = {[prompt |-> p, hash |-> content, content |-> d.content] : d \in valid}
        /\ outdated' = outdated \cup InDrafts({d \in drafts[p] : ~StillValid(d, content)})
  /\ dropped' = dropped \cup Forgotten(drafts)
  /\ behind' = IF content = promptFile[p] THEN behind ELSE behind \cup {p}

(* The rest of openStudioFile.  What is cached is used for 15 seconds, and as long as    *)
(* the list of Prompts, which the page reads anew now and then, has the same version.     *)
Fetch(p, drafts) ==
  \/ \E content \in cache[p] : Shown(p, content, drafts) /\ opening' = {}
  \/ /\ studioFile' = {p} /\ textarea' = {} /\ promptDraft' = drafts
     /\ opening' = {[prompt |-> p, got |-> {}]}
     /\ dropped' = dropped \cup Forgotten(drafts)
     /\ UNCHANGED <<studioOriginal, offer, outdated, behind>>

(* confirmDiscardStudio; while a Prompt is loading, dirtiness is as it was or as      *)
(* renderStudioGuard made it.                                                   *)
Discarded == [p \in PromptId |-> IF Open(p) THEN {} ELSE promptDraft[p]]
Asks == IF opening = {} THEN {dirty} ELSE {FALSE, dirty}
OpenStudioFile ==
  /\ NoDialog
  /\ \E p \in PromptId, asks \in Asks :
       /\ Open(p) => asks
       /\ Fetch(p, IF asks /\ ~Open(p) THEN Discarded ELSE promptDraft)
  /\ UNCHANGED <<fileVars, saving, cache, crossed>>

(* The reload of a Prompt without changes ends in the first line of openStudioFile.     *)
ReloadPrompt ==
  /\ NoDialog /\ opening = {} /\ dirty
  /\ \E p \in studioFile :
       /\ cache' = [cache EXCEPT ![p] = {}]
       /\ promptDraft' = Discarded /\ dropped' = dropped \cup New(textarea)
       /\ textarea' = {} /\ opening' = {[prompt |-> p, got |-> {}]}
  /\ UNCHANGED <<fileVars, studioFile, studioOriginal, saving, offer, crossed, outdated, behind>>

ServeLoad ==
  /\ \E o \in opening : o.got = {} /\ opening' = {[o EXCEPT !.got = {promptFile[o.prompt]}]}
  /\ UNCHANGED <<fileVars, studioFile, textarea, studioOriginal, saving, promptDraft, offer, cache,
                 crossed, dropped, outdated, behind>>
PromptLoaded ==
  /\ \E o \in opening : \E content \in o.got :
       /\ cache' = [cache EXCEPT ![o.prompt] = {content}]
       /\ Shown(o.prompt, content, promptDraft)
  /\ opening' = {}
  /\ UNCHANGED <<fileVars, saving, crossed>>

(* The answer goes to the textarea, whatever is open by then. *)
RestoreDraft ==
  /\ \E o \in offer :
       /\ textarea' = o.content
       /\ crossed' = crossed \cup {p \in studioFile : p # o.prompt \/ studioOriginal # o.hash}
  /\ offer' = {}
  /\ UNCHANGED <<fileVars, studioFile, studioOriginal, opening, saving, promptDraft, cache, dropped,
                 outdated, behind>>
DiscardDraft ==
  /\ \E o \in offer :
       /\ promptDraft' = [promptDraft EXCEPT ![o.prompt] = {}]
       /\ dropped' = dropped \cup InDrafts(promptDraft[o.prompt])
  /\ offer' = {}
  /\ UNCHANGED <<fileVars, studioFile, textarea, studioOriginal, opening, saving, cache, crossed,
                 outdated, behind>>

--------------------------------------------------------------------------
(* saveStudio: the text is taken now; the Prompt it goes to, and the hash, after the    *)
(* answer of the check.                                                        *)
SaveStudio ==
  /\ NoDialog /\ opening = {} /\ saving = {} /\ dirty
  /\ \E p \in studioFile :
       saving' = {[at |-> "check", prompt |-> p, content |-> textarea, hash |-> studioOriginal]}
  /\ UNCHANGED <<fileVars, studioFile, textarea, studioOriginal, opening, promptDraft, offer, cache,
                 crossed, dropped, outdated, behind>>
CheckAnswered ==
  /\ \E s \in saving :
       /\ s.at = "check"
       /\ \/ saving' = {} /\ UNCHANGED crossed
          \/ \E p \in studioFile :
               /\ saving' = {[s EXCEPT !.at = "write", !.prompt = p, !.hash = studioOriginal]}
               /\ crossed' = IF p = s.prompt /\ s.hash = studioOriginal THEN crossed
                             ELSE crossed \cup {p}
  /\ UNCHANGED <<fileVars, studioFile, textarea, studioOriginal, opening, promptDraft, offer, cache,
                 dropped, outdated, behind>>

(* studio_save *)
ServeStudioSave ==
  /\ \E s \in saving :
       /\ s.at \in {"write", "unheard"}
       /\ IF s.hash = promptFile[s.prompt]
          THEN /\ promptFile' = [promptFile EXCEPT ![s.prompt] = s.content]
               /\ saving' = IF s.at = "write" THEN {[s EXCEPT !.at = "saved"]} ELSE {}
               /\ behind' = IF s.at = "write" THEN behind ELSE behind \cup {s.prompt}
          ELSE saving' = {} /\ UNCHANGED <<promptFile, behind>>
  /\ UNCHANGED <<studioFile, textarea, studioOriginal, opening, promptDraft, offer, cache, typed,
                 foreign, deaths, made, crossed, dropped, outdated>>
StudioSaved ==
  /\ \E s \in saving :
       /\ s.at = "saved"
       /\ studioFile' = {s.prompt} /\ textarea' = s.content /\ studioOriginal' = s.content
       /\ promptDraft' = [promptDraft EXCEPT ![s.prompt] = {}]
  /\ saving' = {}
  /\ UNCHANGED <<fileVars, opening, offer, cache, crossed, dropped, outdated, behind>>

(* The page ends and another one begins; the server may still carry out the save.      *)
PageDies ==
  /\ deaths < MaxDeaths /\ deaths' = deaths + 1
  /\ studioFile' = {} /\ textarea' = {} /\ studioOriginal' = {} /\ opening' = {} /\ offer' = {}
  /\ saving' = {[s EXCEPT !.at = "unheard"] : s \in {r \in saving : r.at = "write"}}
  /\ cache' = [p \in PromptId |-> {}]
  /\ UNCHANGED <<promptFile, promptDraft, typed, foreign, made, crossed, dropped, outdated, behind>>

PromptNext ==
  \/ Type \/ OtherEditorSaves \/ OpenStudioFile \/ ReloadPrompt \/ ServeLoad \/ PromptLoaded \/ RestoreDraft \/ DiscardDraft
  \/ SaveStudio \/ CheckAnswered \/ ServeStudioSave \/ StudioSaved \/ PageDies

PromptSpec == PromptInit /\ [][PromptNext]_promptVars

--------------------------------------------------------------------------
PromptTypeOK ==
  /\ promptFile \in [PromptId -> SUBSET PromptChange]
  /\ studioFile \subseteq PromptId /\ Cardinality(studioFile) <= 1
  /\ {textarea, studioOriginal, dropped, outdated} \subseteq SUBSET PromptChange
  /\ \A p \in PromptId : promptDraft[p] \subseteq KeptDraft /\ Cardinality(promptDraft[p]) <= 1
  /\ \A p \in PromptId : Cardinality(cache[p]) <= 1
  /\ Cardinality(opening) <= 1 /\ Cardinality(saving) <= 1 /\ Cardinality(offer) <= 1
  /\ crossed \cup behind \subseteq PromptId /\ made \subseteq PromptChange

(* A Prompt's file holds only what was meant for it, and nobody's saved change is lost by *)
(* a save.  What was typed is in its file, or in a draft that waits for the Prompt to be    *)
(* opened, whatever page dies; or the user gave it up, or typed it during a save; or the     *)
(* page lost it without a word: opening a Prompt removes a draft that was of another        *)
(* content (app.js:1282-1284), so what was typed before a page died is gone once another     *)
(* editor saves the Prompt.  The page loses nothing that way unless another editor, or a     *)
(* save of a page that had died, changed the file, or the Prompt was shown as the cache, or a *)
(* load that a save overtook, still had it (app.js:1268-1345, 1523-1546).                  *)
(* Nothing is said of a Prompt that was opened, or loaded anew, while a text was being        *)
(* checked, or opened or saved under a question about a draft.                        *)
PromptsSafe ==
  /\ PromptTypeOK
  /\ \A p \in PromptId \ crossed : promptFile[p] \subseteq {<<p, 0>>} \cup {c \in made : c[1] = p}
  /\ \A c \in made : c[1] \in crossed \/
       IF c[2] < 0 THEN c \in promptFile[c[1]]
       ELSE \/ c \in dropped \cup promptFile[c[1]]
            \/ \E d \in promptDraft[c[1]] : c \in d.content
            \/ c \in outdated /\ c[1] \in behind
=============================================================================
