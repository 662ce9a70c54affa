------------------------------ MODULE BodySize -------------------------------
(***************************************************************************)
(* BodySizeLimitMiddleware of coordinator/limits.py: one HTTP request that *)
(* passes through it to the application, FastAPI with its route handlers,  *)
(* and the client that sends the body in chunks, with or without a length. *)
(***************************************************************************)
EXTENDS Integers

CONSTANTS
  MaxBytes,   \* max_bytes
  Sizes,      \* what a Content-Length may say, and a chunk may hold
  NoLength    \* no Content-Length, or one that int() refuses

ASSUME MaxBytesAssumption == MaxBytes \in Nat
ASSUME SizesAssumption == Sizes \subseteq Nat /\ NoLength \notin Nat

VARIABLES
  declared,   \* the Content-Length header
  received,   \* the bytes of the http.request messages so far
  read,       \* the bytes the application was given
  responses,  \* how many http.response.start messages went to the client ...
  status,     \* ... and the status of the first
  stage       \* where the request is

bodyVars == <<declared, received, read, responses, status, stage>>

(***************************************************************************)
(* "raised": the application has the 413 exception of limited_receive;     *)
(* "broken": an exception left the middleware and ends the connection.     *)
(***************************************************************************)
Stages == {"new", "app", "raised", "answered", "broken"}

Statuses == {0, 200, 400, 413}     \* 0: none yet; 200: the application's own

BodyTypeOK ==
  /\ declared \in Sizes \cup {NoLength}
  /\ received \in Nat
  /\ read \in Nat
  /\ responses \in Nat
  /\ status \in Statuses
  /\ stage \in Stages

BodyInit ==
  /\ declared \in Sizes \cup {NoLength}
  /\ received = 0
  /\ read = 0
  /\ responses = 0
  /\ status = 0
  /\ stage = "new"

(***************************************************************************)
(* A response starts; it is the application's or that of _send_413.        *)
(***************************************************************************)
StartResponse(code) ==
  /\ responses' = responses + 1
  /\ status' = IF status = 0 THEN code ELSE status

TooBig == declared # NoLength /\ declared > MaxBytes

RefuseByLength ==
  /\ stage = "new"
  /\ TooBig
  /\ StartResponse(413)
  /\ stage' = "answered"
  /\ UNCHANGED <<declared, received, read>>

CallApp ==
  /\ stage = "new"
  /\ ~TooBig
  /\ stage' = "app"
  /\ UNCHANGED <<declared, received, read, responses, status>>

(***************************************************************************)
(* limited_receive: the application asks for the next chunk of `size'.     *)
(***************************************************************************)
Overflows(size) == received + size > MaxBytes

ReceiveChunk(size) ==
  /\ stage = "app"
  /\ received' = received + size
  /\ IF Overflows(size)
       THEN stage' = "raised" /\ UNCHANGED read
       ELSE read' = read + size /\ UNCHANGED stage
  /\ UNCHANGED <<declared, responses, status>>

(***************************************************************************)
(* The application starts its response, at most once, and returns after it *)
(* was sent; or it raises something else, which the middleware passes on.  *)
(***************************************************************************)
AppStarts ==
  /\ stage = "app"
  /\ responses = 0
  /\ StartResponse(200)
  /\ UNCHANGED <<declared, received, read, stage>>

AppReturns ==
  /\ stage = "app"
  /\ responses > 0
  /\ stage' = "answered"
  /\ UNCHANGED <<declared, received, read, responses, status>>

AppFails ==
  /\ stage = "app"
  /\ stage' = "broken"
  /\ UNCHANGED <<declared, received, read, responses, status>>

(***************************************************************************)
(* The 413 exception: FastAPI answers it for a route handler while nothing *)
(* was sent.  Otherwise it reaches the middleware's `except'.              *)
(***************************************************************************)
AppAnswers413 ==
  /\ stage = "raised"
  /\ responses = 0
  /\ StartResponse(413)
  /\ stage' = "answered"
  /\ UNCHANGED <<declared, received, read>>

\* The forum's forms are read through a middleware of its own, Starlette's
\* BaseHTTPMiddleware, which may pass the exception on in a group: to FastAPI that
\* is a body it could not parse.
FormAnswers400 ==
  /\ stage = "raised"
  /\ responses = 0
  /\ StartResponse(400)
  /\ stage' = "answered"
  /\ UNCHANGED <<declared, received, read>>

\* A mutant: tracking_send does not note that a response has started.
ResponseUntracked == FALSE

ResponseStarted == responses > 0

ExceptionArrives ==
  /\ stage = "raised"
  /\ IF ResponseStarted
       THEN stage' = "broken" /\ UNCHANGED <<responses, status>>
       ELSE StartResponse(413) /\ stage' = "answered"
  /\ UNCHANGED <<declared, received, read>>

BodyNext ==
  \/ RefuseByLength
  \/ CallApp
  \/ \E size \in Sizes : ReceiveChunk(size)
  \/ AppStarts
  \/ AppReturns
  \/ AppFails
  \/ AppAnswers413
  \/ FormAnswers400
  \/ ExceptionArrives

BodySpec == BodyInit /\ [][BodyNext]_bodyVars

(***************************************************************************)
(* The application is never given more than MaxBytes, however the body is  *)
(* cut into chunks and whatever its length was said to be.                 *)
(***************************************************************************)
AppReadsAtMostMaxBytes == read <= MaxBytes

(***************************************************************************)
(* A body over the limit gets exactly one response: a refusal, 413 or on   *)
(* the forum's forms 400, or the one the application had started before    *)
(* the limit was passed, which is cut off.                                 *)
(***************************************************************************)
OversizedGetsOneResponse ==
  /\ responses <= 1
  /\ received > MaxBytes /\ stage = "answered" => status \in {400, 413}
==============================================================================
