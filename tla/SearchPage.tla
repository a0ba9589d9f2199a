----------------------------- MODULE SearchPage -----------------------------
(***************************************************************************)
(* The page that searches and augments: SearchApp, SearchResults,          *)
(* HitInfoBox, AugmentationOptions, JoinColumnsSelector and AddToSession   *)
(* of frontend/src/components.  The user acts and the server answers in    *)
(* any order; a promise cannot be cancelled, so that the answers to        *)
(* earlier searches are still applied.  What a component keeps lasts while *)
(* it is rendered at the same place, whichever hit it is rendered for.     *)
(* A search is known by its number; a dataset has one column to add.       *)
(***************************************************************************)
EXTENDS Naturals, Sequences

CONSTANTS
  Queries, FileOf, Found,  \* the file of a query, and the hits it finds, [id, type]
  NoFile, HasSession, MaxSearches

VARIABLES
  asked,           \* the searches, [query, rivals]: rivals were unanswered by then
  searching,       \* the searches in flight
  searchQuery,     \* the search of the state; 0 is undefined
  searchState,
  searchResponse,  \* the search whose response it is; 0 is undefined
  infobox,         \* SearchResults: [hit, type, seen] or Nothing
  options,         \* AugmentationOptions: [hit, columns, aggregations, result] or Nothing
  added,           \* AddToSession of the details: [hit, result] or Nothing
  sent             \* the last task sent: [hit, aggregations, search] or Nothing

pageVars == <<asked, searching, searchQuery, searchState, searchResponse, infobox, options, added, sent>>

Nothing == [result |-> "nothing"]
Hits(n) ==
  IF n = 0 THEN {}
  ELSE {[search |-> n, id |-> h.id, type |-> h.type] :
          h \in {Found[asked[n].query][i] : i \in DOMAIN Found[asked[n].query]}}
First(n) ==
  LET h == Found[asked[n].query][1] IN [search |-> n, id |-> h.id, type |-> h.type]

Init ==
  /\ asked = <<>> /\ searching = {} /\ searchQuery = 0 /\ searchState = "clean" /\ searchResponse = 0
  /\ infobox = Nothing /\ options = Nothing /\ added = Nothing /\ sent = Nothing

Unmounted == infobox' = Nothing /\ options' = Nothing /\ added' = Nothing
Shown == searchQuery # 0 /\ searchState = "success" /\ Hits(searchResponse) # {}

(* The URL has a query: it was submitted, or the user went back to it.      *)
(* Results of earlier searches are replaced by "Searching...".              *)
FetchSearchResults(q) ==
  /\ Len(asked) < MaxSearches
  /\ asked' = Append(asked, [query |-> q, rivals |-> searching])
  /\ searching' = searching \cup {Len(asked')}
  /\ searchQuery' = Len(asked') /\ searchState' = "requesting"
  /\ Unmounted /\ UNCHANGED <<searchResponse, sent>>
(* Mutant: the results that are there stay until there are new ones.        *)
FetchInBackground(q) ==
  /\ Len(asked) < MaxSearches
  /\ asked' = Append(asked, [query |-> q, rivals |-> searching])
  /\ searching' = searching \cup {Len(asked')}
  /\ searchQuery' = Len(asked')
  /\ searchState' = IF searchState = "success" THEN "success" ELSE "requesting"
  /\ UNCHANGED <<searchResponse, infobox, options, added, sent>>

(* The URL has none: initialState(), while searches stay in flight.         *)
GoHome ==
  /\ searchQuery # 0
  /\ searchQuery' = 0 /\ searchState' = "clean" /\ searchResponse' = 0
  /\ Unmounted /\ UNCHANGED <<asked, searching, sent>>

(* A response is applied whatever the current query, on the landing page    *)
(* too; the first hit is selected and its details are shown.  AddToSession  *)
(* is kept if details were shown already.                                   *)
Respond(n) ==
  /\ n \in searching
  /\ searching' = searching \ {n} /\ searchResponse' = n /\ searchState' = "success"
  /\ options' = Nothing
  /\ IF searchQuery = 0 \/ Found[asked[n].query] = <<>>
     THEN infobox' = Nothing /\ added' = Nothing
     ELSE LET kept == infobox # Nothing /\ infobox.type = "detail" IN
          /\ infobox' = [hit |-> First(n), type |-> "detail",
                         seen |-> {First(n)} \cup IF kept THEN infobox.seen ELSE {}]
          /\ added' = IF kept THEN added ELSE Nothing
  /\ UNCHANGED <<asked, searchQuery, sent>>
SearchFails(n) ==
  /\ n \in searching
  /\ searching' = searching \ {n} /\ searchState' = "failed" /\ Unmounted
  /\ UNCHANGED <<asked, searchQuery, searchResponse, sent>>

(* "View Details" and "Augment Options" of a hit.                           *)
Select(hit, type) ==
  infobox' = [hit |-> hit, type |-> type,
              seen |-> {hit} \cup IF infobox.type = type THEN infobox.seen ELSE {}]
ViewDetails(hit) ==
  /\ Shown /\ hit \in Hits(searchResponse)
  /\ Select(hit, "detail") /\ options' = Nothing
  /\ UNCHANGED <<asked, searching, searchQuery, searchState, searchResponse, added, sent>>

(* getDerivedStateFromProps(): for another dataset or another type the      *)
(* state is initialised, but setState() keeps the result, which the initial *)
(* state lacks, and JoinColumnsSelector its columns.                        *)
Derived(hit) ==
  CASE options = Nothing -> [hit |-> hit, columns |-> {}, aggregations |-> {}, result |-> "undefined"]
    [] options # Nothing /\ options.hit.id = hit.id /\ options.hit.type = hit.type -> options
    [] OTHER -> [hit |-> hit, aggregations |-> {}, result |-> options.result,
                 columns |-> IF hit.type = "join" /\ options.hit.type = "join" THEN options.columns ELSE {}]
AugmentOptions(hit) ==
  /\ Shown /\ hit \in Hits(searchResponse) /\ hit.type # "none"
  /\ Select(hit, "augmentation") /\ options' = Derived(hit) /\ added' = Nothing
  /\ UNCHANGED <<asked, searching, searchQuery, searchState, searchResponse, sent>>

(* handleDrop() and removeColumn() of JoinColumnsSelector.                  *)
SetColumns(columns) ==
  /\ options' = [options EXCEPT !.columns = columns, !.aggregations = columns]
  /\ UNCHANGED <<asked, searching, searchQuery, searchState, searchResponse, infobox, added, sent>>
HandleDrop ==
  /\ options # Nothing /\ options.hit.type = "join" /\ options.hit.id \notin options.columns
  /\ SetColumns(options.columns \cup {options.hit.id})
RemoveColumn(c) ==
  options # Nothing /\ c \in options.columns /\ SetColumns(options.columns \ {c})

(* submitAugmentationForm(), while the button is active.  augment() raises  *)
(* if the query has no file.  It answers an error by a status that nothing  *)
(* looks at, so that the result is "success" in any case.                   *)
SubmitAugmentationForm ==
  /\ options # Nothing /\ options.result # "progress" /\ ~(HasSession /\ options.result = "success")
  /\ FileOf[asked[searchQuery].query] # NoFile
  /\ options' = [options EXCEPT !.result = "progress"]
  /\ sent' = [hit |-> options.hit, aggregations |-> options.aggregations, search |-> searchQuery]
  /\ UNCHANGED <<asked, searching, searchQuery, searchState, searchResponse, infobox, added>>
AugmentAnswers ==
  /\ options # Nothing /\ options.result = "progress"
  /\ options' = [options EXCEPT !.result = "success"]
  /\ UNCHANGED <<asked, searching, searchQuery, searchState, searchResponse, infobox, added, sent>>

(* AddToSession: the button of a dataset that was added is disabled.        *)
AddToSession ==
  /\ HasSession /\ Shown /\ infobox.type = "detail" /\ added.result \in {"nothing", "error"}
  /\ added' = [hit |-> infobox.hit, result |-> "progress"]
  /\ UNCHANGED <<asked, searching, searchQuery, searchState, searchResponse, infobox, options, sent>>
SessionAnswers(result) ==
  /\ added.result = "progress" /\ added' = [added EXCEPT !.result = result]
  /\ UNCHANGED <<asked, searching, searchQuery, searchState, searchResponse, infobox, options, sent>>

Next ==
  \/ \E q \in Queries : FetchSearchResults(q)
  \/ GoHome
  \/ \E n \in searching : Respond(n) \/ SearchFails(n)
  \/ \E hit \in Hits(searchResponse) : ViewDetails(hit) \/ AugmentOptions(hit)
  \/ HandleDrop \/ (options # Nothing /\ \E c \in options.columns : RemoveColumn(c))
  \/ SubmitAugmentationForm \/ AugmentAnswers
  \/ AddToSession \/ \E result \in {"success", "error"} : SessionAnswers(result)

-----------------------------------------------------------------------------
PageTypeOK ==
  /\ searching \subseteq DOMAIN asked /\ searchQuery \in 0..Len(asked) /\ searchResponse \in 0..Len(asked)
  /\ searchState \in {"clean", "requesting", "success", "failed"}
  /\ options # Nothing => options.aggregations \subseteq options.columns

Rivals(n) == asked[n].rivals
(* The results shown for a query are its own, or those of a search that was *)
(* still unanswered when the query was made; the selected hit is of them.   *)
ResultsExplained ==
  Shown => /\ searchResponse \in {searchQuery} \cup Rivals(searchQuery)
           /\ infobox # Nothing /\ infobox.hit \in Hits(searchResponse)
(* A task goes with the file its hit was found for, and has the columns of  *)
(* the hit, unless an earlier search answered late or other hits were shown *)
(* since the form appeared; so does what the buttons say.                   *)
TasksMatch ==
  /\ sent # Nothing =>
       sent.hit.search \in {sent.search} \cup Rivals(sent.search)
  /\ options # Nothing =>
       /\ infobox.type = "augmentation" /\ options.hit = infobox.hit
       /\ options.columns \subseteq {h.id : h \in infobox.seen}
       /\ infobox.seen = {infobox.hit} => options.aggregations = options.columns
       /\ FileOf[asked[searchQuery].query] = NoFile => searchResponse \in Rivals(searchQuery)
  /\ added # Nothing => added.hit = infobox.hit \/ infobox.seen # {infobox.hit}
=============================================================================
