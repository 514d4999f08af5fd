----------------------------- MODULE AgentSettings -----------------------------
(***************************************************************************)
(* The settings page of the console (routes/settings.tsx) and the PUT      *)
(* /settings it posts through the BFF.  The service (settings.py) loads    *)
(* the stored row, merges the update and saves, with an await on each      *)
(* side: two updates can merge with the same row.  One agent kind stands   *)
(* for all, and a setting the update names is always valid.                *)
(***************************************************************************)
EXTENDS Naturals

CONSTANTS
  Grant,       \* extra tools of the agent
  Model,       \* models, CLI_DEFAULT among them
  Put,         \* bound: updates in flight at once
  Unknown

VARIABLES
  stored,    \* the settings row
  put,       \* the updates in flight
  page,      \* SettingsPage's state and its loader's data
  raced      \* history: an update met another, or another tab wrote

settingsVars == <<stored, put, page, raced>>

Settings == [model : Model, grants : SUBSET Grant]

ASSUME SettingsAssumption == Unknown \notin Settings /\ Model # {}

NoPut == [at |-> "none", update |-> Unknown, merged |-> Unknown, heard |-> FALSE]

Closed == [open |-> FALSE, loaded |-> Unknown, saved |-> Unknown, phase |-> "idle"]

SettingsInit ==
  /\ stored \in [model : {CHOOSE m \in Model : TRUE}, grants : {{}}]
  /\ put = [p \in Put |-> NoPut]
  /\ page = Closed
  /\ raced = FALSE

InFlight == {p \in Put : put[p].at # "none"}

\* the last answer of a save wins over what the loader read
Displayed == IF page.saved # Unknown THEN page.saved ELSE page.loaded

\* what an update does not name keeps its value
Merge(settings, update) ==
  [field \in DOMAIN settings |->
     IF field \in DOMAIN update THEN update[field] ELSE settings[field]]

-----------------------------------------------------------------------------
(* The page.                                                               *)

\* the loader: null when agent-service is down
OpenSettings(found) ==
  /\ page' = [Closed EXCEPT !.open = TRUE, !.loaded = IF found THEN stored ELSE Unknown]
  /\ raced' = (InFlight # {})
  /\ UNCHANGED <<stored, put>>

\* Retry, or any other invalidation of the route
Reload ==
  /\ page.open
  /\ page' = [page EXCEPT !.loaded = stored]
  /\ UNCHANGED <<stored, put, raced>>

\* updates in flight are carried out, their answers are for nobody
CloseSettings ==
  /\ page' = Closed
  /\ put' = [p \in Put |-> [put[p] EXCEPT !.heard = FALSE]]
  /\ UNCHANGED <<stored, raced>>

\* push: one save state for the page, whatever is in flight
Push(p, update) ==
  /\ page.open /\ Displayed # Unknown
  /\ put[p] = NoPut
  /\ put' = [put EXCEPT ![p] = [NoPut EXCEPT !.at = "sent", !.update = update, !.heard = TRUE]]
  /\ page' = [page EXCEPT !.phase = "saving"]
  /\ raced' = (raced \/ InFlight # {})
  /\ UNCHANGED stored

\* nextGrants: the whole map as displayed, with one tool toggled
NextGrants(tool) ==
  IF tool \in Displayed.grants THEN Displayed.grants \ {tool} ELSE Displayed.grants \cup {tool}

ToggleGrant(p, tool) ==
  /\ page.phase # "saving"
  /\ Push(p, [grants |-> NextGrants(tool)])

\* the picker is not disabled while a save runs
PickModel(p, model) ==
  /\ Displayed # Unknown /\ Displayed.model # model
  /\ Push(p, [model |-> model])

Answered(answer, phase) ==
  page' = [page EXCEPT !.phase = phase, !.saved = IF answer = Unknown THEN @ ELSE answer]

\* Mutant: the page merges its own update into what it displays.
PutReturnsLocal(p) ==
  /\ put[p].at = "answered"
  /\ put' = [put EXCEPT ![p] = NoPut]
  /\ IF put[p].heard THEN Answered(Merge(Displayed, put[p].update), "saved")
     ELSE UNCHANGED page
  /\ UNCHANGED <<stored, raced>>

PutReturns(p) ==
  /\ put[p].at = "answered"
  /\ put' = [put EXCEPT ![p] = NoPut]
  /\ IF put[p].heard THEN Answered(put[p].merged, "saved") ELSE UNCHANGED page
  /\ UNCHANGED <<stored, raced>>

\* no answer: the update never arrived, or it is carried out all the same
PutFails(p) ==
  /\ put[p].heard
  /\ put' = [put EXCEPT ![p] = IF @.at = "merged" THEN [@ EXCEPT !.heard = FALSE] ELSE NoPut]
  /\ Answered(Unknown, "error")
  /\ UNCHANGED <<stored, raced>>

\* the timer of a save that succeeded
SavedFades ==
  /\ page.phase = "saved"
  /\ page' = [page EXCEPT !.phase = "idle"]
  /\ UNCHANGED <<stored, put, raced>>

-----------------------------------------------------------------------------
(* PUT /settings.                                                          *)

\* load
MergeStored(p) ==
  /\ put[p].at = "sent"
  /\ put' = [put EXCEPT ![p].at = "merged", ![p].merged = Merge(stored, put[p].update)]
  /\ UNCHANGED <<stored, page, raced>>

\* db.save_settings
SaveMerged(p) ==
  /\ put[p].at = "merged"
  /\ stored' = put[p].merged
  /\ put' = [put EXCEPT ![p].at = "answered"]
  /\ UNCHANGED <<page, raced>>

\* another tab, one update at a time
OtherTabSaves(update) ==
  /\ stored' = Merge(stored, update)
  /\ raced' = TRUE
  /\ UNCHANGED <<put, page>>

===============================================================================
