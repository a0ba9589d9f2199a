----------------------------- MODULE UploadForm -----------------------------
(***************************************************************************)
(* The form that adds a dataset: Upload and UploadForm of                  *)
(* frontend/src/components/Upload.  A file that is chosen is profiled, and *)
(* the user corrects the types of its columns while the server answers in  *)
(* any order; an answer is not compared with the file that is chosen by    *)
(* then.  One form serves both tabs, so that what it keeps outlives a      *)
(* switch between them.  The texts of the form are left out.               *)
(***************************************************************************)
EXTENDS Naturals, Sequences

CONSTANTS Files, Columns, MaxProfiles   \* Columns: those of each file

VARIABLES
  tab,             \* the state of Upload: "upload" or "url"
  input,           \* the file of the file input, or NoFile
  address,         \* whether an address was typed
  profiles,        \* the profiles asked for: [file, status, rivals]
  profiledData,    \* the one in the state; 0 is undefined
  edited,          \* its columns that the user changed
  columnsName,
  profilingStatus,
  submitting,
  cleared,         \* the profile that was in the state when an upload succeeded
  uploaded         \* the last upload: [file, columns, data, latest, answered, edited]

uploadVars == <<tab, input, address, profiles, profiledData, edited, columnsName,
                profilingStatus, submitting, cleared, uploaded>>

NoFile == "none"
ProfiledColumns == IF profiledData = 0 THEN {} ELSE Columns[profiles[profiledData].file]

Init ==
  /\ tab = "upload" /\ input = NoFile /\ address = FALSE /\ profiles = <<>> /\ profiledData = 0
  /\ edited = {} /\ columnsName = {} /\ profilingStatus = "undefined" /\ submitting = FALSE
  /\ cleared = 0 /\ uploaded = <<>>

(* The input of the other tab is not rendered.                              *)
SwitchTab ==
  /\ tab' = IF tab = "upload" THEN "url" ELSE "upload"
  /\ input' = NoFile
  /\ UNCHANGED <<address, profiles, profiledData, edited, columnsName, profilingStatus, submitting, cleared, uploaded>>
TypeAddress(typed) ==
  /\ tab = "url" /\ address' = typed
  /\ UNCHANGED <<tab, input, profiles, profiledData, edited, columnsName, profilingStatus, submitting, cleared, uploaded>>

(* onProfileData().  A dialog that is cancelled leaves the input empty: it  *)
(* shows "Profiling CSV file ..." as well.                                  *)
OnProfileData(file) ==
  /\ tab = "upload" /\ file # input /\ Len(profiles) < MaxProfiles
  /\ input' = file /\ profilingStatus' = "progress"
  /\ profiles' = IF file = NoFile THEN profiles
                 ELSE Append(profiles, [file |-> file, status |-> "pending",
                        rivals |-> {n \in DOMAIN profiles : profiles[n].status = "pending"}])
  /\ UNCHANGED <<tab, address, profiledData, edited, columnsName, submitting, cleared, uploaded>>

Pending(n) == n \in DOMAIN profiles /\ profiles[n].status = "pending"
Profiled(n) ==
  /\ Pending(n) /\ profiles' = [profiles EXCEPT ![n].status = "answered"]
  /\ profiledData' = n /\ edited' = {} /\ profilingStatus' = "success"
  /\ UNCHANGED <<tab, input, address, columnsName, submitting, cleared, uploaded>>
ProfileFails(n) ==
  /\ Pending(n) /\ profiles' = [profiles EXCEPT ![n].status = "failed"]
  /\ profilingStatus' = "error"
  /\ UNCHANGED <<tab, input, address, profiledData, edited, columnsName, submitting, cleared, uploaded>>

(* updateColumnType(), from the badges of the table.                        *)
UpdateColumnType(column) ==
  /\ tab = "upload" /\ profilingStatus = "success" /\ column \in ProfiledColumns
  /\ edited' = edited \cup {column} /\ columnsName' = columnsName \cup {column}
  /\ UNCHANGED <<tab, input, address, profiles, profiledData, profilingStatus, submitting, cleared, uploaded>>

(* onFormSubmit(), with validate() and upload(): an address goes before the *)
(* file, whichever tab it was typed in.  The columns are sent in any case.  *)
Submit ==
  /\ ~submitting /\ (tab = "upload" => input # NoFile) /\ (tab = "url" => address)
  /\ submitting' = TRUE
  /\ uploaded' = [file |-> IF address THEN "url" ELSE input, columns |-> ProfiledColumns \cap columnsName,
                  data |-> profiledData, latest |-> Len(profiles),
                  answered |-> Len(profiles) # 0 /\ profiles[Len(profiles)].status = "answered",
                  edited |-> IF profiledData = cleared THEN {} ELSE edited]
  /\ UNCHANGED <<tab, input, address, profiles, profiledData, edited, columnsName, profilingStatus, cleared>>
(* Success sets initialState(), that leaves profiledData alone.             *)
SubmitAnswered ==
  /\ submitting /\ submitting' = FALSE
  /\ address' = FALSE /\ profilingStatus' = "undefined" /\ columnsName' = {}
  /\ cleared' = profiledData
  /\ UNCHANGED <<tab, input, profiles, profiledData, edited, uploaded>>
SubmitFails ==
  /\ submitting /\ submitting' = FALSE /\ profilingStatus' = "undefined"
  /\ UNCHANGED <<tab, input, address, profiles, profiledData, edited, columnsName, cleared, uploaded>>

Next ==
  \/ SwitchTab \/ \E typed \in BOOLEAN : TypeAddress(typed)
  \/ \E file \in Files \cup {NoFile} : OnProfileData(file)
  \/ \E n \in DOMAIN profiles : Profiled(n) \/ ProfileFails(n)
  \/ \E column \in ProfiledColumns : UpdateColumnType(column)
  \/ Submit \/ SubmitAnswered \/ SubmitFails

-----------------------------------------------------------------------------
UploadTypeOK ==
  /\ tab \in {"upload", "url"} /\ input \in Files \cup {NoFile} /\ address \in BOOLEAN
  /\ profiledData \in 0..Len(profiles) /\ edited \subseteq ProfiledColumns
  /\ profilingStatus \in {"undefined", "progress", "success", "error"} /\ submitting \in BOOLEAN
  /\ tab = "url" => input = NoFile

(* A file goes with corrections of its own columns, once its profile was    *)
(* shown, unless that of a file chosen before came later; and with all of   *)
(* them, unless they were made before an earlier upload succeeded.          *)
AnnotationsOfFile ==
  uploaded # <<>> /\ uploaded.file # "url" =>
    /\ uploaded.answered /\ uploaded.columns # {} =>
         uploaded.data \in {uploaded.latest} \cup profiles[uploaded.latest].rivals
    /\ uploaded.edited \subseteq uploaded.columns
(* The form that is profiling a file waits for an answer.                   *)
ProgressMeansPending ==
  profilingStatus = "progress" /\ input # NoFile => Pending(Len(profiles))
=============================================================================
