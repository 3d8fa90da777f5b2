----------------------------- MODULE ErrorCodes -----------------------------
(***************************************************************************)
(* From the result codes of the signaling server to the errors of the      *)
(* program (codeToError) and from these to the codes of the public API     *)
(* (ProcessError).  The two lists of codes agree on 0 to 3 only.           *)
(***************************************************************************)
EXTENDS Naturals

\* client/protocol.go
ServerCodes == 0 .. 9
SERVER_SUCCESS == 0
SERVER_PAYLOAD_SUCCESS == 4

Errors == {"notFound", "alreadyExists", "requestTimeout", "internal",
           "offline", "appClosing", "himself"}

\* Three codes have an error of their own; OFFLINE is not one of them.
codeToError ==
    [code \in ServerCodes |-> CASE code = 1 -> "notFound"
                                [] code = 2 -> "alreadyExists"
                                [] code = 3 -> "requestTimeout"
                                [] OTHER -> "internal"]

\* What checkResp returns for an answer, of a command or of a query: no error,
\* written "none", for the one code the request expects.
checkResp(expected, code) == IF code = expected THEN "none" ELSE codeToError[code]

\* ... and without one: a deadline, a closed pending channel, the closing.
NoAnswer == {"requestTimeout", "offline", "appClosing"}

RequestOutcomes(expected) ==
    {checkResp(expected, code) : code \in ServerCodes} \cup NoAnswer

\* errs/handlers: the API's codes.  VALIDATION_ERROR and those of chat, voice
\* and video, 4 to 7, are produced by no path of the program.
ProcessError ==
    [e \in Errors \cup {"none"} |-> CASE e = "none" -> 0
                                      [] e = "notFound" -> 1
                                      [] e = "alreadyExists" -> 2
                                      [] e = "requestTimeout" -> 3
                                      [] e = "offline" -> 8
                                      [] OTHER -> 9]
=============================================================================
