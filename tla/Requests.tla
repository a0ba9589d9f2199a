------------------------------- MODULE Requests -------------------------------
(***************************************************************************)
(* What a request for a file, an upload or a session says, and what it is  *)
(* answered: apiserver/apiserver/{base,download,sessions,upload}.py.  The  *)
(* format that a session is opened with is written and read five times on  *)
(* its way: the session, the link to the frontend, the request that the    *)
(* frontend makes, the record in the session, and the client that fetches  *)
(* the result.                                                             *)
(*                                                                         *)
(* Options are functions from names to texts; an argument of a URL may     *)
(* have several values.  `index` maps identifiers to what the metadata     *)
(* says of the file: [direct, convert, file].                              *)
(***************************************************************************)
EXTENDS Naturals, Sequences, SequencesExt, FiniteSetsExt, Functions, TLC

-----------------------------------------------------------------------------
(* D3mWriter.parse_options().                                               *)
DefaultOptions == [version |-> "4.0.0", need_d3mindex |-> "False"]
FalseTexts == {"", "False", "false", "0", "off", "no"}
Versions == {"", "3.2.0", "4.0.0"}
KnownOptions(options) == DOMAIN options \subseteq DOMAIN DefaultOptions
(* What a Boolean is as a text: str() writes "True", JavaScript "true".     *)
ParseOptions(options) ==
  LET merged == [name \in DOMAIN options \cup DOMAIN DefaultOptions |->
                   IF name \in DOMAIN options THEN options[name] ELSE DefaultOptions[name]]
  IN [merged EXCEPT !["need_d3mindex"] = IF @ \in FalseTexts THEN "False" ELSE "True"]

(* validate_format(): an unknown format or option raises ValueError, and    *)
(* the CSV writer has no options.                                           *)
Refuse(status) == [status |-> status]
ValidateFormat(format, options) ==
  IF format \notin {"csv", "d3m"} THEN Refuse(500)
  ELSE IF format = "d3m"
  THEN IF KnownOptions(options)
       THEN [status |-> 200, format |-> format, options |-> ParseOptions(options)]
       ELSE Refuse(500)
  ELSE IF options # <<>> THEN Refuse(400)
  ELSE [status |-> 200, format |-> format, options |-> options]

(* read_format(): arguments are [format, options], where each option has a  *)
(* list of values, and the format may be missing.                           *)
ReadFormat(arguments, default) ==
  IF \E name \in DOMAIN arguments.options : Len(arguments.options[name]) # 1 THEN Refuse(400)
  ELSE ValidateFormat(IF arguments.format = "" THEN default ELSE arguments.format,
                      [name \in DOMAIN arguments.options |-> arguments.options[name][1]])

(* serialize_format(), and the frontend (api/rest.ts) with the options of a *)
(* session that it read as JSON.                                            *)
Serialize(format, options) ==
  [format |-> format, options |-> [name \in DOMAIN options |-> <<options[name]>>]]
InJavaScript(text) == CASE text = "True" -> "true" [] text = "False" -> "false" [] OTHER -> text
SessionArguments(session) ==
  [format |-> session.format,
   options |-> [name \in DOMAIN session.options |->
                  <<IF name = "need_d3mindex" THEN InJavaScript(session.options[name])
                    ELSE session.options[name]>>]]

(* SessionNew.post(): a token that is no hash and a key that is not known   *)
(* are refused.                                                             *)
SessionNew(request) ==
  LET valid == ValidateFormat(request.format, request.options)
  IN IF request.token = "invalid" THEN Refuse(400)
     ELSE IF valid.status # 200 THEN valid
     ELSE IF request.other THEN Refuse(400)
     ELSE valid

-----------------------------------------------------------------------------
(* BaseDownload.send_dataset(): a redirection, the file, or a record in the *)
(* session, once the file is in the cache.  get_dataset() raises if it can  *)
(* not be downloaded, and for a version of the D3M schema that is not known. *)
Link(id, format, options) == [id |-> id, arguments |-> Serialize(format, options)]
Materializes(metadata, read) ==
  metadata.file # "none" /\ (read.format = "d3m" => read.options["version"] \in Versions)
SendDataset(id, metadata, arguments, session) ==
  LET read == ReadFormat(arguments, "csv")
  IN IF read.status # 200 THEN [kind |-> "error", status |-> read.status]
     ELSE IF metadata.direct /\ ~session /\ read.format = "csv" /\ ~metadata.convert
     THEN [kind |-> "redirect", file |-> metadata.file]
     ELSE IF ~Materializes(metadata, read) THEN [kind |-> "error", status |-> 500]
     ELSE IF session THEN [kind |-> "attached", link |-> Link(id, read.format, read.options)]
     ELSE [kind |-> "file", file |-> metadata.file, format |-> read.format, options |-> read.options]

(* DownloadId.get() and Download.post(), whose task has the metadata, or an *)
(* identifier, or both.                                                     *)
DownloadId(index, id, arguments, session) ==
  IF id \in DOMAIN index THEN SendDataset(id, index[id], arguments, session)
  ELSE [kind |-> "error", status |-> 404]
Download(index, task, arguments, session) ==
  LET id == IF task.id = "" THEN "unknown_id" ELSE task.id
  IN IF task.metadata # <<>> THEN SendDataset(id, task.metadata[1], arguments, session)
     ELSE IF task.id = "" THEN [kind |-> "error", status |-> 400]
     ELSE DownloadId(index, task.id, arguments, session)

-----------------------------------------------------------------------------
(* Upload.post(), until it records and publishes the dataset: `fields` are  *)
(* the custom fields, each with whether it is required and a value that is  *)
(* "none", "valid" or "invalid" for its type.                               *)
Kept(request) == {f \in DOMAIN request.fields : request.fields[f].value # "none"}
Metadata(request, identifier) ==
  [identifier |-> identifier, fields |-> Kept(request),
   annotations |-> identifier = "datamart.upload" /\ request.annotations = "valid",
   direct |-> identifier = "datamart.url"]
Upload(request) ==
  LET ill(f) == request.fields[f].value = "invalid"
      lacks(f) == request.fields[f].required /\ request.fields[f].value = "none"
      before(f) == \A g \in 1..(f - 1) : ~ill(g) /\ ~lacks(g)
      refused(status) == [status |-> status, stored |-> FALSE, metadata |-> <<>>]
  IN IF \E f \in DOMAIN request.fields : before(f) /\ ill(f) THEN refused(500)
     ELSE IF \E f \in DOMAIN request.fields : before(f) /\ lacks(f) THEN refused(400)
     ELSE IF request.file
     THEN IF request.annotations = "invalid" THEN refused(400)
          ELSE [status |-> 200, stored |-> TRUE, metadata |-> <<Metadata(request, "datamart.upload")>>]
     ELSE IF request.address = "valid"
     THEN [status |-> 200, stored |-> FALSE, metadata |-> <<Metadata(request, "datamart.url")>>]
     ELSE refused(400)

-----------------------------------------------------------------------------
(* The client that a session was opened for gets the format and the options *)
(* that it asked for, after all the conversions on the way and whatever the *)
(* default of the endpoint.                                                 *)
SessionKeepsFormat(request) ==
  LET session == SessionNew(request)
      sent == ReadFormat(SessionArguments(session), "d3m")
      fetched == ReadFormat(Serialize(sent.format, sent.options), "csv")
  IN session.status = 200 => sent = session /\ fetched = session

(* What was attached to a session is found behind its link: the file in the *)
(* same format with the same options, or a redirection to it; but a task    *)
(* with metadata of its own leads to the dataset of the index, if any.      *)
LinksLead(index, task, arguments) ==
  LET attached == Download(index, task, arguments, TRUE)
      sent == Download(index, task, arguments, FALSE)
      found == DownloadId(index, attached.link.id, attached.link.arguments, FALSE)
  IN attached.kind = "attached" =>
       /\ task.metadata = <<>> => found = sent /\ found.kind \in {"file", "redirect"}
       /\ found.kind = "file" /\ sent.kind = "file" =>
            found.format = sent.format /\ found.options = sent.options
       /\ found.kind = "error" =>
            /\ task.metadata # <<>>
            /\ attached.link.id \notin DOMAIN index \/ index[attached.link.id].file = "none"

(* An upload that is refused leaves no file behind, a file is stored if and *)
(* only if the dataset is materialized from it, and a required field is     *)
(* never missing from a dataset that is accepted.                           *)
UploadsWhole(request) ==
  LET answer == Upload(request)
  IN /\ answer.status # 200 => ~answer.stored /\ answer.metadata = <<>>
     /\ answer.status = 200 =>
          /\ answer.stored <=> answer.metadata[1].identifier = "datamart.upload"
          /\ answer.stored <=> ~answer.metadata[1].direct
          /\ {f \in DOMAIN request.fields : request.fields[f].required}
               \subseteq answer.metadata[1].fields
=============================================================================
