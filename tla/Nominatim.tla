------------------------------ MODULE Nominatim ------------------------------
(***************************************************************************)
(* The resolution of a column of addresses in batches                      *)
(* (lib_profiler/datamart_profiler/spatial.py): when the server refuses a  *)
(* batch, it is asked again for each half of it.                           *)
(*                                                                         *)
(* A batch is a sequence of <<value, count>>, each value once.  `server`   *)
(* says what the server knows and which batches it refuses after every     *)
(* retry: those longer than `limit` (status 414) and those with a value in *)
(* `broken` (status 500).                                                  *)
(***************************************************************************)
EXTENDS Integers, Sequences, SequencesExt, FiniteSetsExt

CONSTANTS
  BatchSize,      \* NOMINATIM_BATCH_SIZE
  MinSplit,       \* NOMINATIM_MIN_SPLIT_BATCH_SIZE, at least 2
  MaxRequests     \* the `max_requests` parameter

(* Values of white space, and those longer than MAX_ADDRESS_LENGTH.         *)
Empty == "empty"
TooLong == "too long"

Values(batch) == {batch[i][1] : i \in DOMAIN batch}

(* nominatim_query(): status 502 to 504 is tried five times.                *)
Refuses(server, batch) == Len(batch) > server.limit \/ Values(batch) \cap server.broken # {}

(* The batches that are sent for one batch, in order.                       *)
Pieces(batch, server) ==
  LET pieces[part \in (1..Len(batch)) \X (0..Len(batch))] ==
        LET b == SubSeq(batch, part[1], part[2])
            mid == part[1] + Len(b) \div 2
        IN IF Refuses(server, b) /\ Len(b) >= MinSplit
           THEN pieces[<<part[1], mid - 1>>] \o pieces[<<mid, part[2]>>] ELSE <<b>>
  IN pieces[<<1, Len(batch)>>]

(* cache: the locations of each value that was asked for, one or none.      *)
(* locations: how many there are for each value.  resent: whether the batch *)
(* is going to be sent again.                                               *)
Start(values) ==
  [cache |-> <<>>, locations |-> [v \in values |-> 0], nonEmpty |-> 0,
   batch |-> <<>>, resent |-> FALSE, status |-> "reading"]

AnswerPiece(state, piece, server) ==
  IF state.status = "raised" THEN state
  ELSE IF Refuses(server, piece) THEN [state EXCEPT !.status = "raised"]
  ELSE LET found == Values(piece) \cap server.known
           count(v) == (CHOOSE i \in DOMAIN piece : piece[i][1] = v)
       IN [state EXCEPT
             !.cache = [v \in DOMAIN @ \cup Values(piece) |->
                          IF v \notin Values(piece) THEN @[v]
                          ELSE IF v \in found THEN 1 ELSE 0],
             !.locations = [v \in DOMAIN @ |->
                              IF v \in found THEN @[v] + piece[count(v)][2] ELSE @[v]]]

(* _nominatim_batch(): the answer empties the batch that was sent, which is *)
(* not the caller's when it was a piece.                                    *)
Batch(state, server) ==
  LET pieces == Pieces(state.batch, server)
      answered == FoldLeft(LAMBDA s, piece : AnswerPiece(s, piece, server), state, pieces)
  IN [answered EXCEPT !.batch = IF Len(pieces) = 1 THEN <<>> ELSE @]

(* A batch that is full is sent; too many locations end the loop.           *)
Sent(batched) == [batched EXCEPT !.resent = @ \/ batched.batch # <<>>]
StopAtLimit(state) ==
  [state EXCEPT !.status = IF Cardinality(DOMAIN state.cache) >= MaxRequests /\ @ = "reading"
                           THEN "stopped" ELSE @]
SendIfFull(state, server) ==
  IF Len(state.batch) # BatchSize THEN state ELSE StopAtLimit(Sent(Batch(state, server)))
AddToBatch(state, value, server) ==
  SendIfFull([state EXCEPT !.batch = Append(@, <<value, 1>>)], server)

(* One turn of the loop of nominatim_resolve_all().                         *)
Locate(counted, value, server) ==
  IF value = TooLong THEN counted
  ELSE IF value \in DOMAIN counted.cache
  THEN [counted EXCEPT !.locations[value] = @ + counted.cache[value]]
  ELSE IF value \in Values(counted.batch)
  THEN [counted EXCEPT !.batch = [i \in DOMAIN @ |->
          IF @[i][1] = value THEN <<value, @[i][2] + 1>> ELSE @[i]]]
  ELSE AddToBatch(counted, value, server)
Read(state, value, server) ==
  IF state.status # "reading" \/ value = Empty THEN state
  ELSE Locate([state EXCEPT !.nonEmpty = @ + 1], value, server)

SendRest(read, server) ==
  IF read.batch # <<>> /\ Cardinality(DOMAIN read.cache) < MaxRequests /\ read.status = "reading"
  THEN Batch(read, server) ELSE read
ResolveAll(array, server) ==
  SendRest(FoldLeft(LAMBDA s, v : Read(s, v, server), Start(ToSet(array)), array), server)

-----------------------------------------------------------------------------
(* Each address that the server knows has one location for each time it is  *)
(* in the column, unless there are too many.  Only the addresses of a batch *)
(* that was sent in pieces may be counted twice: the profiler sends it      *)
(* again at the end.                                                        *)
LocationsCounted(array, server) ==
  LET result == ResolveAll(array, server)
      count(v) == IF v \in server.known \ {Empty, TooLong}
                  THEN Cardinality({i \in DOMAIN array : array[i] = v}) ELSE 0
      complete == Cardinality(DOMAIN result.cache) < MaxRequests \/ result.batch = <<>>
  IN IF result.status = "raised"
     THEN server.broken # {} \/ server.limit < MinSplit
     ELSE \A v \in ToSet(array) :
            /\ result.locations[v] <= IF result.resent THEN 2 * count(v) ELSE count(v)
            /\ result.status = "reading" /\ complete => result.locations[v] >= count(v)
=============================================================================
