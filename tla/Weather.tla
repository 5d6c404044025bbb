------------------------------ MODULE Weather ------------------------------
(***************************************************************************)
(* The two web clients of the PAN demo: the shell commands weather         *)
(* (pan_iperf/src/wheather.c) and doubao (doubao.c).  Both run in the      *)
(* shell's thread, one at a time.  Any call may fail: there may be no      *)
(* memory, the connection may be lost, the answer may be anything.         *)
(*                                                                         *)
(* webclient, cJSON and lwIP are external: a step of a command is one call *)
(* of theirs with what the code does about its outcome.  The texts         *)
(* themselves do not matter.  PanIperfProofs extends this module together  *)
(* with PanIperf, so that no definition here has the name of one there.    *)
(***************************************************************************)
EXTENDS Integers

CONSTANTS
    Lengths,        \* what Content-Length may say; -1 without one
    BufSize,        \* GET_RESP_BUFSZ
    MaxResults,     \* how many results an answer may have
    Fields,         \* strings printed of a result: itself and its 10 fields
    MaxCommands     \* bound: how many commands are given

ASSUME WeatherAssumption ==
    /\ Lengths \subseteq Int /\ BufSize \in Nat \ {0}
    /\ MaxResults \in Nat /\ Fields \in Nat \ {0} /\ MaxCommands \in Nat

VARIABLES
    pc,             \* the call to be made
    live,           \* per kind of object, how many are allocated
    pointers,       \* the objects that a variable of the command points to
    content_length, content_pos,
    results,        \* results of the answer still to be parsed
    filled,         \* user_sen_config has been assigned
    commands        \* commands given so far

reading == <<content_length, content_pos>>
parsing == <<results, filled>>
heap == <<live, pointers>>
clientVars == <<pc, heap, reading, parsing, commands>>

\* What is printed of the results, and message, a part of the request's document
\* when it could be attached to it, are objects that no variable keeps.
Objects == {"weather_url", "session", "buffer", "root", "strings", "message", "request_data",
            "response_data", "response_json"}

Smaller(a, b) == IF a < b THEN a ELSE b

ClientInit ==
    /\ pc = "idle" /\ pointers = {} /\ live = [o \in Objects |-> 0]
    /\ content_length = -1 /\ content_pos = 0
    /\ results = 0 /\ filled = FALSE
    /\ commands = 0

\* A pointer that is not set is used: the processor faults, or the code goes on
\* with whatever is there.
Wild(next) == pc' \in {next, "fault"}

\* An object is made, and a variable set to it; the object that a variable points to
\* is freed, and the variable is not used again.
Make(o) == live' = [live EXCEPT ![o] = @ + 1] /\ pointers' = pointers \cup {o}
FreeAll(os) ==
    /\ live' = [o \in Objects |-> IF o \in os THEN live[o] - 1 ELSE live[o]]
    /\ pointers' = pointers \ os

\* An allocation, and where the code goes on with and without the object.
Allocate(at, object, next, failed) ==
    /\ pc = at
    /\ \/ Make(object) /\ pc' = next
       \/ UNCHANGED heap /\ pc' = failed
    /\ UNCHANGED <<reading, parsing, commands>>

Begin(first) ==
    /\ pc = "idle" /\ commands < MaxCommands
    /\ commands' = commands + 1
    /\ pc' = first
    /\ UNCHANGED <<heap, reading, parsing>>

-----------------------------------------------------------------------------
(* get_weather                                                             *)

weather == Begin("lookup")

check_internet_access ==
    /\ pc = "lookup"
    /\ pc' \in {"url", "idle"}
    /\ content_length' = -1 /\ content_pos' = 0
    /\ UNCHANGED <<heap, parsing, commands>>

AllocateUrl    == Allocate("url", "weather_url", "session", "exit")
CreateSession  == Allocate("session", "session", "get", "exit")
AllocateBuffer == Allocate("buffer", "buffer", "length", "exit")

\* Broken variant: a refused request returns without the cleanup.
GetAndReturn ==
    /\ pc = "get"
    /\ pc' \in {"buffer", "idle"}
    /\ UNCHANGED <<heap, reading, parsing, commands>>

webclient_get ==
    /\ pc = "get"
    /\ pc' \in {"buffer", "exit"}
    /\ UNCHANGED <<heap, reading, parsing, commands>>

webclient_content_length_get ==
    /\ pc = "length"
    /\ content_length' \in Lengths
    /\ IF content_length' > 0
       THEN pc' = "read" /\ UNCHANGED heap
       ELSE pc' = "exit" /\ FreeAll({"buffer"})
    /\ UNCHANGED <<content_pos, parsing, commands>>

\* What a read may return: an error, the end of the connection, or some bytes.
Returned == -1 .. Smaller(BufSize, content_length - content_pos)

\* Broken variant: after a read that returns nothing the loop begins again.
ReadAgain ==
    /\ pc = "read"
    /\ \E bytes_read \in Returned :
         /\ content_pos' = IF bytes_read <= 0 THEN 0 ELSE content_pos + bytes_read
         /\ pc' = IF content_pos' < content_length THEN "read" ELSE "exit"
    /\ UNCHANGED <<content_length, heap, parsing, commands>>

\* Every piece is read to the start of the buffer.
webclient_read ==
    /\ pc = "read"
    /\ \E bytes_read \in Returned :
         /\ content_pos' = IF bytes_read <= 0 THEN content_pos ELSE content_pos + bytes_read
         /\ pc' = IF bytes_read > 0 /\ content_pos' < content_length THEN "read" ELSE "exit"
    /\ UNCHANGED <<content_length, heap, parsing, commands>>

\* The label __exit, and the return to the command: it frees what its variables point
\* to, and returns the buffer.
Exit ==
    /\ pc = "exit"
    /\ FreeAll(pointers \cap {"weather_url", "session"})
    /\ pc' = IF "buffer" \in pointers THEN "parse" ELSE "idle"
    /\ UNCHANGED <<reading, parsing, commands>>

-----------------------------------------------------------------------------
(* http_weather_data_parse                                                 *)

ParseRoot ==
    /\ pc = "parse"
    /\ \/ Make("root") /\ pc' = "results" /\ results' \in 0 .. MaxResults
       \/ UNCHANGED <<heap, results>> /\ pc' = "free"
    /\ filled' = FALSE
    /\ UNCHANGED <<reading, commands>>

Printed(n) == live' = [live EXCEPT !["strings"] = @ + n]

\* A result: printed, parsed again, its fields printed, the document deleted.  The
\* strings are never freed; at a result that cannot be parsed the function returns and
\* leaves the root as it is (wheather.c:104-107).
ParseResult ==
    /\ pc = "results" /\ results > 0
    /\ \/ /\ \E n \in 1 .. Fields : Printed(n)
          /\ results' = results - 1 /\ filled' = TRUE
          /\ UNCHANGED <<pc, pointers>>
       \/ /\ \E n \in 0 .. 1 : Printed(n)
          /\ pointers' = pointers \ {"root"} /\ pc' = "free"
          /\ UNCHANGED parsing
    /\ UNCHANGED <<reading, commands>>

\* Without a result the fields printed were never assigned.
PrintWeather ==
    /\ pc = "results" /\ results = 0
    /\ IF filled THEN pc' = "delete" ELSE Wild("delete")
    /\ UNCHANGED <<heap, reading, parsing, commands>>

DeleteRoot ==
    /\ pc = "delete"
    /\ FreeAll({"root"}) /\ pc' = "free"
    /\ UNCHANGED <<reading, parsing, commands>>

FreeWeather ==
    /\ pc = "free"
    /\ FreeAll({"buffer"}) /\ pc' = "idle"
    /\ UNCHANGED <<reading, parsing, commands>>

-----------------------------------------------------------------------------
(* webclient_post_request of doubao                                        *)

doubao == Begin("compose")

\* A document, its array of messages, the message and the text printed of it all may
\* fail for lack of memory.  The document is deleted with what is attached to it; a
\* message made without an array to go into stays behind (doubao.c:17-25).  strlen
\* then takes the text for granted.
ComposeRequest ==
    /\ pc = "compose"
    /\ \E root, messages, message, text \in BOOLEAN :
         /\ messages \/ text => root
         /\ live' = [live EXCEPT !["message"] = IF message /\ ~messages THEN @ + 1 ELSE @,
                                !["request_data"] = IF text THEN @ + 1 ELSE @]
         /\ pointers' = IF text THEN pointers \cup {"request_data"} ELSE pointers
         /\ IF text THEN pc' = "post" ELSE Wild("post")
    /\ UNCHANGED <<reading, parsing, commands>>

\* An answer may be stored whether or not the call reports success.
webclient_request ==
    /\ pc = "post"
    /\ UNCHANGED heap \/ Make("response_data")
    /\ pc' \in {"answer", "release"}
    /\ UNCHANGED <<reading, parsing, commands>>

ParseAnswer ==
    /\ pc = "answer"
    /\ \/ "response_data" \in pointers /\ Make("response_json") /\ pc' = "choices"
       \/ UNCHANGED heap /\ pc' = "release"
    /\ UNCHANGED <<reading, parsing, commands>>

\* The message is printed if there is one, its content taken for granted.
PrintAnswer ==
    /\ pc = "choices"
    /\ Wild("deleteAnswer")
    /\ UNCHANGED <<heap, reading, parsing, commands>>

DeleteAnswer ==
    /\ pc = "deleteAnswer"
    /\ FreeAll({"response_json"}) /\ pc' = "release"
    /\ UNCHANGED <<reading, parsing, commands>>

Release ==
    /\ pc = "release"
    /\ FreeAll(pointers \cap {"request_data", "response_data"}) /\ pc' = "idle"
    /\ UNCHANGED <<reading, parsing, commands>>

-----------------------------------------------------------------------------
get_weather ==
    check_internet_access \/ AllocateUrl \/ CreateSession \/ webclient_get \/ AllocateBuffer
        \/ webclient_content_length_get \/ webclient_read \/ Exit

http_weather_data_parse == ParseRoot \/ ParseResult \/ PrintWeather \/ DeleteRoot

webclient_post_request ==
    ComposeRequest \/ webclient_request \/ ParseAnswer \/ PrintAnswer \/ DeleteAnswer \/ Release

Steps == get_weather \/ http_weather_data_parse \/ FreeWeather \/ webclient_post_request

ClientNext == weather \/ doubao \/ Steps

ClientSpec == ClientInit /\ [][ClientNext]_clientVars

\* Every call into the stack comes back, if only with an error.
ClientLiveSpec == ClientSpec /\ WF_clientVars(Steps)

-----------------------------------------------------------------------------
ClientTypeOK ==
    /\ pc \in {"idle", "fault", "lookup", "url", "session", "get", "buffer", "length", "read",
               "exit", "parse", "results", "delete", "free", "compose", "post", "answer",
               "choices", "deleteAnswer", "release"}
    /\ live \in [Objects -> Int] /\ pointers \subseteq Objects
    /\ content_length \in Lengths \cup {-1} /\ content_pos \in Nat
    /\ results \in 0 .. MaxResults /\ filled \in BOOLEAN
    /\ commands \in 0 .. MaxCommands

\* What a command may leave behind: the strings it prints of the results, the root of
\* the weather when a result of it cannot be parsed, and a message of the chat without
\* an array.
Lost == {"strings", "root", "message"}

\* Whichever of its calls fails, a command frees the URL, the session, the buffer, the
\* texts and the answer's document, each of them once, on every way out of it; no
\* variable points to what is freed; and of root and message a command loses one.
Released ==
    /\ pc = "idle" => pointers = {} /\ \A o \in Objects \ Lost : live[o] = 0
    /\ \A o \in Objects : IF o \in pointers THEN live[o] > 0 ELSE live[o] >= 0
    /\ live["root"] + live["message"] <= commands

\* The loop never asks for more than the answer has left, and never reads on when
\* all of it has come.
ReadsWithin == pc = "read" => 0 <= content_pos /\ content_pos < content_length

WeatherInv == ClientTypeOK /\ Released /\ ReadsWithin

\* A command comes to its end, also when the connection is closed in the middle of
\* the answer, unless it faults.
CommandEnds == pc # "idle" ~> pc \in {"idle", "fault"}
=============================================================================
