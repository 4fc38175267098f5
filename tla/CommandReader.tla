---------------------------- MODULE CommandReader ----------------------------
(***************************************************************************)
(* The command reader goroutine of src/internal/session/command.go and    *)
(* the session handler that consumes its channel.                         *)
(*                                                                         *)
(* The client writes lines (pipelined, up to MaxLines) and may close its  *)
(* side.  The reader parses one line per iteration (Parse of              *)
(* src/imap/command/parser.go), handles STARTTLS inline by writing the    *)
(* tagged OK and upgrading the connection, and publishes every other      *)
(* result on the unbuffered cmdCh, or returns when ctx is done.  It       *)
(* returns on EOF, on an error that is not an *rfcparser.Error, and on a  *)
(* raw TLS ClientHello; closing cmdCh on return.                          *)
(*                                                                         *)
(* The handler (session.serve, not in this repository, modelled from spec *)
(* 4.1 / 4.2) takes one result at a time, answers BAD to a parse error    *)
(* and OK otherwise; LOGOUT cancels ctx; when cmdCh is closed or after    *)
(* LOGOUT the session ends and closes the connection.                     *)
(*                                                                         *)
(* A line is abstracted to its kind; a response to the line it answers,   *)
(* its status ("+" for the literal continuation) and whether it went out  *)
(* over TLS.  A "literal" line carries one synchronising literal: the     *)
(* client writes its header, waits for "+ Ready", then writes the bytes.  *)
(* A raw TLS ClientHello ("hello" if its bytes hold a CRLF,               *)
(* "hello_nocrlf" if not) is followed by nothing: a TLS client waits for  *)
(* the ServerHello.                                                       *)
(***************************************************************************)
EXTENDS Naturals, Sequences, SequencesExt

CONSTANTS
    LineKinds,          \* kinds of lines the client may write
    MaxLines,           \* bound: lines written per connection
    PipelineStartTLS    \* the client may send STARTTLS with commands unanswered

(* Every kind of line the model knows.                                    *)
AllKinds == {"noop", "logout", "starttls", "starttls_junk", "bad",
             "unknown", "hello", "hello_nocrlf", "uid_expunge", "uid_copy_bad",
             "uid_unknown", "literal", "literal_big"}

HelloKinds == {"hello", "hello_nocrlf"}

ASSUME LineKinds \subseteq AllKinds /\ MaxLines \in Nat /\ PipelineStartTLS \in BOOLEAN

VARIABLES
    input,      \* lines the client has written
    eof,        \* the client closed its side
    closed,     \* the session closed the connection
    tls,        \* the connection has been upgraded
    bodySent,   \* lines whose literal bytes the client has written
    pos,        \* index of the next line the reader parses
    rpc,        \* reader: "parse" | "body" | "publish" | "exited"
    slot,       \* the result the reader is publishing: [line, err]
    hpc,        \* handler: "wait" | "exec" | "ended"
    hcmd,       \* the result the handler executes
    ctxDone,    \* the session context is cancelled
    out         \* responses written: [line, status, tls]

vars == <<input, eof, closed, tls, bodySent, pos, rpc, slot, hpc, hcmd, ctxDone, out>>

NoCmd == [line |-> 0, err |-> FALSE]

(* What Parse returns for a line: whether the payload is a StartTLS, the  *)
(* class of its error ("none", "parser" for an *rfcparser.Error, "other"  *)
(* for fmt.Errorf), and whether the bytes read start with a TLS record    *)
(* header.  A STARTTLS line with bytes before CRLF fails in               *)
(* ConsumeNewLine after result.Payload is set; an unknown keyword fails   *)
(* in parseCommand with fmt.Errorf.                                       *)
(* CopyCommandParser.FromParser: SP, sequence set, SP, mailbox; a        *)
(* missing part fails in the parser (a parser error).                     *)
ParseCopy(wellFormed) ==
    [startTLS |-> FALSE, err |-> IF wellFormed THEN "none" ELSE "parser",
     hello |-> FALSE]

(* UIDCommandParser.FromParser: after SP the sub-keyword is read and      *)
(* lowercased; "expunge" goes to UIDExpungeCommandParser, copy / fetch /  *)
(* search / move / store to their parsers, and any other keyword fails    *)
(* with fmt.Errorf("unknown uid command"), not a parser error.            *)
ParseUID(kind) ==
    CASE kind = "uid_expunge"  -> [startTLS |-> FALSE, err |-> "none", hello |-> FALSE]
      [] kind = "uid_copy_bad" -> ParseCopy(FALSE)
      [] kind = "uid_unknown"  -> [startTLS |-> FALSE, err |-> "other", hello |-> FALSE]

Parse(kind) ==
    CASE kind \in {"uid_expunge", "uid_copy_bad", "uid_unknown"} -> ParseUID(kind)
      [] kind = "noop"          -> [startTLS |-> FALSE, err |-> "none",   hello |-> FALSE]
      [] kind = "logout"        -> [startTLS |-> FALSE, err |-> "none",   hello |-> FALSE]
      [] kind = "starttls"      -> [startTLS |-> TRUE,  err |-> "none",   hello |-> FALSE]
      [] kind = "starttls_junk" -> [startTLS |-> TRUE,  err |-> "parser", hello |-> FALSE]
      [] kind = "bad"           -> [startTLS |-> FALSE, err |-> "parser", hello |-> FALSE]
      [] kind = "unknown"       -> [startTLS |-> FALSE, err |-> "other",  hello |-> FALSE]
      [] kind \in HelloKinds    -> [startTLS |-> FALSE, err |-> "parser", hello |-> TRUE]
      [] kind = "literal"       -> [startTLS |-> FALSE, err |-> "none",   hello |-> FALSE]
      [] kind = "literal_big"   -> [startTLS |-> FALSE, err |-> "other",  hello |-> FALSE]

(* Mutant: the response loses the tag of the line it answers.            *)
RespondUntagged(line, status) == [line |-> 0, status |-> status, tls |-> tls]

Respond(line, status) == [line |-> line, status |-> status, tls |-> tls]

(* Line i has had its tagged response.                                    *)
TaggedAnswered(i) == \E j \in 1..Len(out) : out[j].line = i /\ out[j].status # "+"

(* A STARTTLS the client is still waiting on: RFC 3501 6.2.1 forbids     *)
(* further commands before its tagged response.                           *)
StartTLSPending ==
    \E i \in 1..Len(input) : input[i] \in {"starttls", "starttls_junk"} /\ ~TaggedAnswered(i)

(* The client is inside a literal: it has written the header and not yet  *)
(* the bytes.                                                             *)
LiteralPending == \E i \in 1..Len(input) : input[i] = "literal" /\ i \notin bodySent

(* After a ClientHello a TLS client waits for the ServerHello.            *)
HelloSent == \E i \in 1..Len(input) : input[i] \in HelloKinds

(* The continuation for line i has been written.                          *)
Continued(i) == \E j \in 1..Len(out) : out[j].line = i /\ out[j].status = "+"

Init ==
    /\ input = <<>>
    /\ eof = FALSE
    /\ closed = FALSE
    /\ tls = FALSE
    /\ bodySent = {}
    /\ pos = 1
    /\ rpc = "parse"
    /\ slot = NoCmd
    /\ hpc = "wait"
    /\ hcmd = NoCmd
    /\ ctxDone = FALSE
    /\ out = <<>>

-----------------------------------------------------------------------------
(* Client.                                                                *)

ClientWrite(kind) ==
    /\ ~eof /\ ~closed
    /\ Len(input) < MaxLines
    /\ ~StartTLSPending /\ ~LiteralPending /\ ~HelloSent
    /\ kind \in {"starttls", "starttls_junk"} /\ ~PipelineStartTLS =>
           \A i \in 1..Len(input) : TaggedAnswered(i)
    /\ input' = Append(input, kind)
    /\ UNCHANGED <<eof, closed, tls, bodySent, pos, rpc, slot, hpc, hcmd, ctxDone, out>>

(* The client writes the bytes of its literal once "+ Ready" arrived.    *)
ClientSendBody ==
    /\ ~eof /\ ~closed
    /\ \E i \in 1..Len(input) :
          /\ input[i] = "literal" /\ i \notin bodySent /\ Continued(i)
          /\ bodySent' = bodySent \cup {i}
    /\ UNCHANGED <<input, eof, closed, tls, pos, rpc, slot, hpc, hcmd, ctxDone, out>>

ClientClose ==
    /\ ~eof
    /\ eof' = TRUE
    /\ UNCHANGED <<input, closed, tls, bodySent, pos, rpc, slot, hpc, hcmd, ctxDone, out>>

-----------------------------------------------------------------------------
(* Reader goroutine: one iteration of the for loop up to the select.      *)

(* Whether the scanner has the bytes the reader needs next: the literal's *)
(* bytes inside a literal, else a whole line (ConsumeInvalidInput reads   *)
(* up to CRLF, which a ClientHello may not hold).                         *)
Available ==
    IF rpc = "body" THEN pos \in bodySent
    ELSE pos <= Len(input) /\ input[pos] # "hello_nocrlf"

(* Mutant: EOF is reported as soon as the client closed, before the      *)
(* lines it wrote are parsed.                                             *)
ReaderEndEarly ==
    /\ rpc \in {"parse", "body"}
    /\ eof \/ closed
    /\ rpc' = "exited"
    /\ UNCHANGED <<input, eof, closed, tls, bodySent, pos, slot, hpc, hcmd, ctxDone, out>>

(* Parse, or ConsumeInvalidInput or ConsumeBytes inside it, finds no more *)
(* bytes: EOF after the client's close, or a read error (not an          *)
(* *rfcparser.Error) once the session closed the connection: return.     *)
ReaderEnd ==
    /\ rpc \in {"parse", "body"}
    /\ (~Available /\ eof) \/ closed
    /\ rpc' = "exited"
    /\ UNCHANGED <<input, eof, closed, tls, bodySent, pos, slot, hpc, hcmd, ctxDone, out>>

(* Mutant: the early returns ignore the TLS record header.               *)
ReaderExitsNoHello(p) == p.err = "other"

(* The early returns of the error branch: an error that is not an        *)
(* *rfcparser.Error, and a line starting with a TLS record header.        *)
ReaderExits(p) == p.err = "other" \/ p.hello

(* The reader parses line pos.  An error it does not return on is logged; *)
(* then a StartTLS payload is handled inline (tagged OK, upgrade,         *)
(* continue) whatever the error, and any other result is published.      *)
ReaderParse ==
    /\ rpc = "parse"
    /\ Available /\ ~closed
    /\ input[pos] # "literal"
    /\ LET p == Parse(input[pos]) IN
         /\ pos' = pos + 1
         /\ CASE ReaderExits(p) ->
                   /\ rpc' = "exited"
                   /\ UNCHANGED <<slot, tls, out>>
              [] p.startTLS ->
                   /\ out' = Append(out, Respond(pos, "OK"))
                   /\ tls' = TRUE
                   /\ UNCHANGED <<rpc, slot>>
              [] OTHER ->
                   /\ slot' = [line |-> pos, err |-> p.err # "none"]
                   /\ rpc' = "publish"
                   /\ UNCHANGED <<tls, out>>
    /\ UNCHANGED <<input, eof, closed, bodySent, hpc, hcmd, ctxDone>>

(* Mutant: the continuation is written after Consume(LF), whose Advance  *)
(* already waits for the first byte of the literal.                       *)
ReaderLiteralHeaderAfterLF ==
    /\ rpc = "parse"
    /\ Available /\ ~closed
    /\ input[pos] = "literal" /\ pos \in bodySent
    /\ out' = Append(out, Respond(pos, "+"))
    /\ rpc' = "body"
    /\ UNCHANGED <<input, eof, closed, tls, bodySent, pos, slot, hpc, hcmd, ctxDone>>

(* ParseLiteral reaches the CR of the header with LF next: the callback  *)
(* installed by the reader writes "+ Ready" on the connection, from the  *)
(* reader goroutine; the parser then waits for the literal's bytes.      *)
ReaderLiteralHeader ==
    /\ rpc = "parse"
    /\ Available /\ ~closed
    /\ input[pos] = "literal"
    /\ out' = Append(out, Respond(pos, "+"))
    /\ rpc' = "body"
    /\ UNCHANGED <<input, eof, closed, tls, bodySent, pos, slot, hpc, hcmd, ctxDone>>

(* ConsumeBytes reads the literal; the rest of the line parses and the    *)
(* command is published.                                                  *)
ReaderLiteralBody ==
    /\ rpc = "body"
    /\ Available /\ ~closed
    /\ pos' = pos + 1
    /\ slot' = [line |-> pos, err |-> FALSE]
    /\ rpc' = "publish"
    /\ UNCHANGED <<input, eof, closed, tls, bodySent, hpc, hcmd, ctxDone, out>>

(* The select: cmdCh <- result, a rendezvous with the waiting handler.    *)
Publish ==
    /\ rpc = "publish" /\ hpc = "wait"
    /\ hcmd' = slot
    /\ hpc' = "exec"
    /\ rpc' = "parse"
    /\ slot' = NoCmd
    /\ UNCHANGED <<input, eof, closed, tls, bodySent, pos, ctxDone, out>>

(* Mutant: the select has no ctx.Done() case.                            *)
ReaderCancelledNever == FALSE

(* The select: <-ctx.Done(): return.                                      *)
ReaderCancelled ==
    /\ rpc = "publish" /\ ctxDone
    /\ rpc' = "exited"
    /\ slot' = NoCmd
    /\ UNCHANGED <<input, eof, closed, tls, bodySent, pos, hpc, hcmd, ctxDone, out>>

-----------------------------------------------------------------------------
(* Session handler (spec_modelled).                                       *)

(* A parse error is answered BAD, LOGOUT with OK after which ctx is       *)
(* cancelled and the session ends; any other command OK.                  *)
HandlerExec ==
    /\ hpc = "exec"
    /\ LET logout == ~hcmd.err /\ input[hcmd.line] = "logout" IN
         /\ out' = Append(out, Respond(hcmd.line, IF hcmd.err THEN "BAD" ELSE "OK"))
         /\ hpc' = IF logout THEN "ended" ELSE "wait"
         /\ ctxDone' = (ctxDone \/ logout)
         /\ closed' = (closed \/ logout)
    /\ hcmd' = NoCmd
    /\ UNCHANGED <<input, eof, tls, bodySent, pos, rpc, slot>>

(* cmdCh was closed by the returning reader: the session ends, cancels    *)
(* its context and closes the connection.                                 *)
HandlerChannelClosed ==
    /\ hpc = "wait" /\ rpc = "exited"
    /\ hpc' = "ended"
    /\ ctxDone' = TRUE
    /\ closed' = TRUE
    /\ UNCHANGED <<input, eof, tls, bodySent, pos, rpc, slot, hcmd, out>>

Next ==
    \/ \E k \in LineKinds : ClientWrite(k)
    \/ ClientSendBody \/ ClientClose
    \/ ReaderEnd \/ ReaderParse \/ ReaderLiteralHeader \/ ReaderLiteralBody
    \/ Publish \/ ReaderCancelled
    \/ HandlerExec \/ HandlerChannelClosed

Spec == Init /\ [][Next]_vars

(* Goroutines that can run do run; the client is not obliged to write,   *)
(* to send a literal's bytes or to close.                                 *)
Fairness ==
    /\ WF_vars(ReaderEnd) /\ WF_vars(ReaderParse)
    /\ WF_vars(ReaderLiteralHeader) /\ WF_vars(ReaderLiteralBody)
    /\ WF_vars(Publish) /\ WF_vars(ReaderCancelled)
    /\ WF_vars(HandlerExec) /\ WF_vars(HandlerChannelClosed)

FairSpec == Spec /\ Fairness

-----------------------------------------------------------------------------
(* Properties.                                                            *)

TypeOK ==
    /\ input \in Seq(LineKinds) /\ Len(input) <= MaxLines
    /\ {eof, closed, tls, ctxDone} \subseteq BOOLEAN
    /\ bodySent \subseteq 1..Len(input)
    /\ pos \in 1..MaxLines + 1
    /\ rpc \in {"parse", "body", "publish", "exited"}
    /\ hpc \in {"wait", "exec", "ended"}
    /\ \A j \in 1..Len(out) : out[j].line \in 1..Len(input)
                              /\ out[j].status \in {"OK", "BAD", "+"}

SessionOver == hpc = "ended" /\ rpc = "exited"

Malformed(i) == Parse(input[i]).err # "none"

(* Lines after which the session stops answering (spec 4.1, 4.7): LOGOUT, *)
(* a raw TLS ClientHello, and a literal whose bytes never came.           *)
Stops == {i \in 1..Len(input) : \/ input[i] \in {"logout"} \cup HelloKinds
                                \/ input[i] = "literal" /\ i \notin bodySent}
FirstStop == IF Stops = {} THEN Len(input) + 1
             ELSE CHOOSE i \in Stops : \A j \in Stops : i <= j

(* The lines the session answers: those before the first stop, and the  *)
(* stop itself when it is LOGOUT.                                         *)
LastAnswered ==
    IF FirstStop <= Len(input) /\ input[FirstStop] = "logout"
    THEN FirstStop ELSE FirstStop - 1

(* The tagged responses spec 4.1 and 4.7 call for, in line order: BAD for *)
(* a parse error, OK otherwise, over TLS after a STARTTLS was answered.   *)
Expected ==
    [i \in 1..LastAnswered |->
        [line   |-> i,
         status |-> IF Malformed(i) THEN "BAD" ELSE "OK",
         tls    |-> \E j \in 1..i - 1 : input[j] = "starttls"]]

Tagged == SelectSeq(out, LAMBDA r : r.status # "+")

(* The tagged responses written, by the reader inline (STARTTLS) or by    *)
(* the handler after the cmdCh rendezvous, are at every moment a prefix  *)
(* of what the spec calls for, in the order of the pipelined lines and   *)
(* on the right side of the TLS upgrade; once the session is over they   *)
(* are all of it, however the client interleaved lines, literals and its *)
(* close.                                                                 *)
ResponsesPerSpec ==
    /\ IsPrefix(Tagged, Expected)
    /\ SessionOver => Tagged = Expected

(* Once the client has closed its side, both goroutines finish: neither   *)
(* the reader blocked on cmdCh after LOGOUT nor the handler waiting on    *)
(* a reader that returned is left behind.                                 *)
SessionEnds == eof ~> SessionOver

(* A client that sent a literal's header is sent "+ Ready" unless the     *)
(* session ends first: the reader, blocked behind earlier commands on     *)
(* cmdCh, reaches the header and writes the continuation before it waits *)
(* for the bytes, so client and server never wait on each other.          *)
LiteralContinued ==
    \A i \in 1..MaxLines :
        (i <= Len(input) /\ input[i] = "literal") ~> (Continued(i) \/ SessionOver)

(* Spec 4.1 / 8: a raw TLS ClientHello on the plaintext port drops the    *)
(* session, without the client having to close its side.                  *)
HelloDropped ==
    \A i \in 1..MaxLines :
        (i <= Len(input) /\ input[i] \in HelloKinds) ~> SessionOver

=============================================================================
