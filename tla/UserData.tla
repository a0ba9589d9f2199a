------------------------------ MODULE UserData ------------------------------
(***************************************************************************)
(* What the API servers keep for clients: the files they send and their    *)
(* profiles, the results of augmentations, and the sessions that another   *)
(* system picks results up from.  Files and results are in caches that the *)
(* coordinator shrinks; profiles and sessions in Redis, that drops any key *)
(* when it is full.  Each worker is a replica of the server, that answers  *)
(* one request at a time.  An entry of a cache is created under a lock, so *)
(* in one step here, and stays while a request uses it.  A hash is known   *)
(* by the contents it is the hash of.                                      *)
(***************************************************************************)
EXTENDS Naturals, Sequences

CONSTANTS
  Workers, Contents, Csv,  \* Csv: the file that contents are converted to
  Formats, MaxRequests, MaxFaults

VARIABLES
  profiles,   \* Redis, of contents: "none", "complete", or "bare", without the conversions
  files,      \* /cache/user_data
  results,    \* /cache/aug, by key: [left, right, format], the versions or contents joined
  session,    \* Redis: the results attached, with what was asked for
  version,    \* of the dataset that others are augmented with, or that is augmented itself
  requests,   \* of each worker
  evicted, incomplete,  \* files that were evicted; profiles that were lost, or made twice
  given,      \* the tokens that clients have
  refused,    \* those that were answered "Data token expired"
  asks, faults  \* how many requests were made, and how often something was dropped or changed

userVars ==
  <<profiles, files, results, session, version, requests, evicted, incomplete, given, refused, asks, faults>>

ById == "dataset"
Dataset == [posted |-> FALSE, data |-> ById]
Asks == [posted : BOOLEAN, data : Contents] \cup {Dataset}
Idle == [phase |-> "idle", for |-> "nothing", data |-> ById, known |-> FALSE, created |-> FALSE,
         asked |-> Dataset, format |-> "none"]

Init ==
  /\ profiles = [c \in Contents |-> "none"] /\ files = {} /\ results = <<>> /\ session = <<>>
  /\ version = 1 /\ requests = [w \in Workers |-> Idle] /\ evicted = {} /\ incomplete = {}
  /\ given = {} /\ refused = {} /\ asks = 0 /\ faults = 0

Asked == asks < MaxRequests /\ asks' = asks + 1 /\ UNCHANGED faults
Fault == faults < MaxFaults /\ faults' = faults + 1 /\ UNCHANGED asks
Goes(w, request) == requests' = [requests EXCEPT ![w] = request]

(* Profile.post() with a file.                                              *)
Profile(w, c) ==
  /\ requests[w] = Idle /\ Asked
  /\ Goes(w, [Idle EXCEPT !.phase = "get", !.for = "profile", !.data = c])
  /\ UNCHANGED <<profiles, files, results, session, version, evicted, incomplete, given, refused>>

(* Augment.post(): of a file, a token, or a dataset.  A token stands for    *)
(* the file of the cache, which was converted, and is hashed as it is; a    *)
(* file is used as it was sent.                                             *)
Augment(w, asked, format) ==
  /\ requests[w] = Idle /\ Asked
  /\ asked.posted \/ asked.data \in given \cup {ById}
  /\ IF asked.data \in Contents /\ ~asked.posted /\ asked.data \notin files
     THEN refused' = refused \cup {asked.data} /\ UNCHANGED requests
     ELSE /\ UNCHANGED refused
          /\ Goes(w, [Idle EXCEPT !.phase = IF asked.data = ById THEN "augment" ELSE "get", !.for = "augment",
                      !.data = IF asked.data = ById \/ asked.posted THEN asked.data ELSE Csv[asked.data],
                      !.asked = asked, !.format = format])
  /\ UNCHANGED <<profiles, files, results, session, version, evicted, incomplete, given>>

-----------------------------------------------------------------------------
(* handle_data_parameter(): reads Redis, enters the cache, profiles.        *)
GetProfile(w) ==
  /\ requests[w].phase = "get"
  /\ Goes(w, [requests[w] EXCEPT !.phase = "cache", !.known = profiles[requests[w].data] # "none"])
  /\ UNCHANGED <<profiles, files, results, session, version, evicted, incomplete, given, refused, asks, faults>>

Profiling(w, c) ==
  requests[w].phase \in {"cache", "profile"} /\ requests[w].data = c /\ ~requests[w].known
Ended(w) ==
  IF requests[w].for = "profile" THEN Idle ELSE [requests[w] EXCEPT !.phase = "augment"]
Answered(w) ==
  given' = IF requests[w].for = "profile" THEN given \cup {requests[w].data} ELSE given
EnterCache(w) ==
  /\ requests[w].phase = "cache"
  /\ LET c == requests[w].data IN
     /\ files' = files \cup {c}
     /\ Goes(w, IF requests[w].known THEN Ended(w)
                ELSE [requests[w] EXCEPT !.phase = "profile", !.created = c \notin files])
  /\ IF requests[w].known THEN Answered(w) ELSE UNCHANGED given
  /\ UNCHANGED <<profiles, results, session, version, evicted, incomplete, refused, asks, faults>>

(* The conversions are known to the request that created the entry.         *)
SetProfile(w) ==
  /\ requests[w].phase = "profile"
  /\ LET c == requests[w].data IN
     /\ profiles' = [profiles EXCEPT ![c] =
                       IF requests[w].created \/ Csv[c] = c THEN "complete" ELSE "bare"]
     /\ incomplete' = IF \E v \in Workers \ {w} : Profiling(v, c)
                      THEN incomplete \cup {c} ELSE incomplete
  /\ Goes(w, Ended(w)) /\ Answered(w)
  /\ UNCHANGED <<files, results, session, version, evicted, refused, asks, faults>>
ProfileFails(w) ==
  /\ requests[w].phase = "profile" /\ Fault
  /\ Goes(w, Idle) /\ incomplete' = incomplete \cup {requests[w].data}
  /\ UNCHANGED <<profiles, files, results, session, version, evicted, given, refused>>

-----------------------------------------------------------------------------
(* Mutant: the format of the result is left out.                            *)
KeyOfData(data, format) == [data |-> data, format |-> "any"]
(* hash_json(): the key of a result has the identifier of a dataset, or the *)
(* hash of a file, and all that the request asks for.                       *)
Key(data, format) == [data |-> data, format |-> format]

KeyOf(w) == Key(requests[w].data, requests[w].format)
Result(w) ==
  [left |-> IF requests[w].data = ById THEN version ELSE requests[w].data, right |-> version,
   format |-> requests[w].format]
CreateAug(w) ==
  /\ requests[w].phase = "augment"
  /\ results' = IF KeyOf(w) \in DOMAIN results THEN results
                ELSE [k \in DOMAIN results \cup {KeyOf(w)} |->
                        IF k = KeyOf(w) THEN Result(w) ELSE results[k]]
  /\ Goes(w, [requests[w] EXCEPT !.phase = "send"])
  /\ UNCHANGED <<profiles, files, session, version, evicted, incomplete, given, refused, asks, faults>>
(* The result is attached to the session, while its entry is locked.        *)
AttachToSession(w) ==
  /\ requests[w].phase = "send"
  /\ session' = Append(session, [key |-> KeyOf(w), result |-> results[KeyOf(w)],
                                 asked |-> requests[w].asked, format |-> requests[w].format])
  /\ Goes(w, Idle)
  /\ UNCHANGED <<profiles, files, results, version, evicted, incomplete, given, refused, asks, faults>>

-----------------------------------------------------------------------------
(* The caches are shrunk, Redis is full, the dataset changes.               *)
EvictFile(c) ==
  /\ c \in files /\ Fault
  /\ \A w \in Workers : requests[w].phase = "profile" => requests[w].data # c
  /\ files' = files \ {c} /\ evicted' = evicted \cup {c}
  /\ UNCHANGED <<profiles, results, session, version, requests, incomplete, given, refused>>
EvictAug(key) ==
  /\ key \in DOMAIN results /\ Fault
  /\ \A w \in Workers : requests[w].phase = "send" => KeyOf(w) # key
  /\ results' = [k \in DOMAIN results \ {key} |-> results[k]]
  /\ UNCHANGED <<profiles, files, session, version, requests, evicted, incomplete, given, refused>>
DropProfile(c) ==
  /\ profiles[c] # "none" /\ Fault
  /\ profiles' = [profiles EXCEPT ![c] = "none"] /\ incomplete' = incomplete \cup {c}
  /\ UNCHANGED <<files, results, session, version, requests, evicted, given, refused>>
DropSession ==
  /\ session # <<>> /\ Fault /\ session' = <<>>
  /\ UNCHANGED <<profiles, files, results, version, requests, evicted, incomplete, given, refused>>
UpdateDataset ==
  /\ Fault /\ version' = version + 1
  /\ UNCHANGED <<profiles, files, results, session, requests, evicted, incomplete, given, refused>>

Next ==
  \/ \E w \in Workers :
       \/ \E c \in Contents : Profile(w, c)
       \/ \E asked \in Asks, format \in Formats : Augment(w, asked, format)
       \/ GetProfile(w) \/ EnterCache(w) \/ SetProfile(w) \/ ProfileFails(w)
       \/ CreateAug(w) \/ AttachToSession(w)
  \/ \E c \in Contents : EvictFile(c) \/ DropProfile(c)
  \/ \E key \in DOMAIN results : EvictAug(key)
  \/ DropSession \/ UpdateDataset

-----------------------------------------------------------------------------
Request ==
  [phase : {"idle", "get", "cache", "profile", "augment", "send"}, for : {"nothing", "profile", "augment"},
   data : Contents \cup {ById}, known : BOOLEAN, created : BOOLEAN, asked : Asks, format : Formats \cup {"none"}]
Keys == [data : Contents \cup {ById}, format : Formats \cup {"none"}]
Results ==
  [left : Contents \cup 1..(MaxFaults + 1), right : 1..(MaxFaults + 1), format : Formats \cup {"none"}]
Attached == [key : Keys, result : Results, asked : Asks, format : Formats \cup {"none"}]
UserTypeOK ==
  /\ profiles \in [Contents -> {"none", "complete", "bare"}] /\ files \subseteq Contents
  /\ evicted \subseteq Contents /\ incomplete \subseteq Contents
  /\ given \subseteq Contents /\ refused \subseteq Contents
  /\ requests \in [Workers -> Request] /\ session \in Seq(Attached)
  /\ DOMAIN results \subseteq Keys /\ \A k \in DOMAIN results : results[k] \in Results
  /\ asks \in 0..MaxRequests /\ faults \in 0..MaxFaults /\ version \in 1..(faults + 1)

(* A profile lacks the conversions only if it was lost, failed or made by   *)
(* two servers at once.                                                     *)
ProfilesComplete ==
  \A c \in Contents : profiles[c] = "bare" => Csv[c] # c /\ c \in incomplete

(* What a session leads to is the file that was asked for, in its format,   *)
(* with the dataset; but a file that was sent is not converted.  Its URL    *)
(* leads to the same unless the dataset has changed.  A token is refused    *)
(* only if its file was evicted.                                            *)
SessionsTruthful ==
  /\ \A i \in DOMAIN session :
       LET r == session[i] IN
       /\ r.result.format = r.format
       /\ r.asked.data # ById =>
            r.result.left = Csv[r.asked.data] \/ (r.asked.posted /\ r.result.left = r.asked.data)
       /\ r.key \in DOMAIN results => results[r.key] = r.result \/ version > r.result.right
  /\ refused \subseteq evicted
=============================================================================
