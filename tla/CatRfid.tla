------------------------------ MODULE CatRfid ------------------------------
(***************************************************************************)
(* The RFID readers (catcierge_rfid.c), each on a serial port, and what    *)
(* the program makes of the tags they report (rfid_set_direction and       *)
(* catcierge_init_rfid_readers, catcierge_fsm.c).  A port is shared by all *)
(* processes that open it.                                                 *)
(*                                                                         *)
(* A reader sends lines of text.  A line is a sequence of parts, and a     *)
(* read returns the parts that have arrived, so a tag may be cut in two    *)
(* or stuck to the next one.  A part is a record; k says what it is:       *)
(*   "head", "tail"   the two halves of a tag                              *)
(*   "error"          an error reply, "?1"                                 *)
(*   "crlf"           the end of a line                                    *)
(* A file descriptor that was not opened is -1: it is never selected, and  *)
(* FD_ISSET of it is undefined, which either finds the bit not set or ends *)
(* the process (CatGrabber's Crash).                                       *)
(***************************************************************************)
EXTENDS Integers, Sequences, FiniteSets

CONSTANTS
  Process,      \* who may open the ports
  Tag,
  AllowedTag,   \* args->rfid_allowed
  MaxPending    \* bound: how many parts wait in a port

Reader == {"inner", "outer"}

ASSUME RfidAssumption == AllowedTag \subseteq Tag /\ MaxPending \in Nat \ {0}

VARIABLES
  port,         \* what has arrived at the port of a reader and was not read
  line,         \* what the reader has yet to send of the current line
  device,       \* "ok", "hangup" (reads find the end of file), "error"
  sentAllowed,  \* the reader has sent the whole of an allowed tag
  rfid,         \* catcierge_rfid_t of each process and reader: fd and state
  match,        \* grb->rfid_in_match, grb->rfid_out_match
  direction,    \* grb->rfid_direction
  service       \* the catcierge_rfid_ctx_service call of a process in progress

deviceVars == <<line, device, sentAllowed>>
rfidVars == <<port, deviceVars, rfid, match, direction, service>>

NotServing == [ready |-> {}, failed |-> FALSE, todo |-> <<>>]
NoMatch == [triggered |-> FALSE, complete |-> FALSE, data_len |-> 0, data_ok |-> FALSE,
            is_allowed |-> FALSE]
NotOpened == [fd |-> "none", state |-> "disconnected"]

RfidInit ==
  /\ port = [r \in Reader |-> <<>>]
  /\ line = [r \in Reader |-> <<>>]
  /\ device = [r \in Reader |-> "ok"]
  /\ sentAllowed = [r \in Reader |-> FALSE]
  /\ rfid = [p \in Process |-> [r \in Reader |-> NotOpened]]
  /\ match = [p \in Process |-> [r \in Reader |-> NoMatch]]
  /\ direction = [p \in Process |-> "in"]
  /\ service = [p \in Process |-> NotServing]

---------------------------------------------------------------------------
(* The device                                                              *)

Crlf == [k |-> "crlf"]
TagLine(t) == << [k |-> "head", tag |-> t], [k |-> "tail", tag |-> t], Crlf >>
ErrorLine == << [k |-> "error"], Crlf >>

\* The next part of a line arrives at the port; the tags are those that come by
\* and pending bounds what waits in the port.
Send(r, tags, pending) ==
  /\ device[r] = "ok"
  /\ Len(port[r]) < pending
  /\ \E text \in IF line[r] = <<>> THEN {TagLine(t) : t \in tags} \cup {ErrorLine}
                ELSE {line[r]} :
       /\ port' = [port EXCEPT ![r] = Append(@, Head(text))]
       /\ line' = [line EXCEPT ![r] = Tail(text)]
       /\ sentAllowed' = [sentAllowed EXCEPT
                            ![r] = @ \/ (Head(text).k = "tail" /\ Head(text).tag \in AllowedTag)]
  /\ UNCHANGED <<device, rfid, match, direction, service>>

\* The cable is pulled or the line breaks; the port is not opened again.
Break(r) ==
  /\ device[r] = "ok"
  /\ \E fault \in {"hangup", "error"} : device' = [device EXCEPT ![r] = fault]
  /\ UNCHANGED <<port, line, sentAllowed, rfid, match, direction, service>>

---------------------------------------------------------------------------
(* catcierge_init_rfid_readers and catcierge_rfid_open                     *)

\* What comes of opening a port: an fcntl that fails leaves the number of a
\* closed file in rfid->fd, a RAT request that fails destroys the reader.
OpenResult == [ok |-> [fd |-> "open", state |-> "connected"],
               no_port |-> NotOpened,
               no_fcntl |-> [fd |-> "closed", state |-> "disconnected"],
               no_rat |-> NotOpened]

InitRfidReaders(p, readers, io_errors) ==
  /\ \E outcome \in [readers -> DOMAIN OpenResult] :
       /\ \A r \in readers :
            /\ outcome[r] # "ok" => io_errors \/ device[r] # "ok"
            /\ outcome[r] = "ok" => device[r] = "ok"
       /\ rfid' = [rfid EXCEPT ![p] =
                     [r \in Reader |-> IF r \in readers THEN OpenResult[outcome[r]] ELSE NotOpened]]
       \* tcflush throws away what has arrived, for every process.
       /\ port' = [r \in Reader |-> IF r \in readers /\ outcome[r] \in {"ok", "no_rat"}
                                   THEN <<>> ELSE port[r]]
  /\ match' = [match EXCEPT ![p] = [r \in Reader |-> NoMatch]]
  /\ UNCHANGED <<deviceVars, direction, service>>

---------------------------------------------------------------------------
(* catcierge_rfid_ctx_service                                              *)

HasFd(p, r) == rfid[p][r].fd # "none"
Selected_Mutant(p) == {r \in {"inner"} : HasFd(p, r)}
Selected(p) == {r \in Reader : HasFd(p, r)}
Readable(r) == port[r] # <<>> \/ device[r] # "ok"

\* select does not wait.  It fails for a closed file, and it is interrupted when a
\* signal arrives whose handler returns.  Only its 0 is looked at: after a failure the
\* set of files is as it was and taken for the set of those with input.
SelectReaders(p, signals) ==
  \E interrupted \in {FALSE, signals} :
    LET failed == interrupted \/ \E r \in Selected(p) : rfid[p][r].fd = "closed"
        ready == {r \in Selected(p) : failed \/ Readable(r)}
    IN /\ service[p].todo = <<>>
       /\ service' = [service EXCEPT ![p] =
                        IF ready = {} THEN NotServing
                        ELSE [ready |-> ready, failed |-> failed, todo |-> <<"inner", "outer">>]]
       /\ UNCHANGED <<port, deviceVars, rfid, match, direction>>

Serving(p, r) == service[p].todo # <<>> /\ Head(service[p].todo) = r
ServiceNext(p) == service' = [service EXCEPT ![p].todo = Tail(@)]
ServiceEnds(p) == service' = [service EXCEPT ![p] = NotServing]

IsReady_Mutant(p, r) == HasFd(p, r)
IsReady(p, r) == r \in service[p].ready

\* FD_ISSET says that there is no input.
SkipReader(p, r) ==
  /\ Serving(p, r)
  /\ ~ IsReady(p, r)
  /\ ServiceNext(p)
  /\ UNCHANGED <<port, deviceVars, rfid, match, direction>>

Reads(p, r) == Serving(p, r) /\ IsReady(p, r)

\* The read fails: the other reader is not served in this call.
ReadFails(p, r) ==
  /\ Reads(p, r)
  /\ rfid[p][r].fd = "closed" \/ (port[r] = <<>> /\ device[r] = "error")
  /\ ServiceEnds(p)
  /\ UNCHANGED <<port, deviceVars, rfid, match, direction>>

\* The end of the file: nothing is read, now or ever again.
ReadNothing(p, r) ==
  /\ Reads(p, r)
  /\ rfid[p][r].fd = "open"
  /\ port[r] = <<>> /\ device[r] = "hangup"
  /\ ServiceNext(p)
  /\ UNCHANGED <<port, deviceVars, rfid, match, direction>>

\* The port is in blocking mode: the process waits for input, and a signal does not
\* end the read (signal restarts it).
Blocked(p) ==
  \E r \in Reader : Reads(p, r) /\ rfid[p][r].fd = "open" /\ ~ Readable(r)

\* What is left of a text without its last end of line.
Trim(text) == IF text # <<>> /\ text[Len(text)] = Crlf
              THEN SubSeq(text, 1, Len(text) - 1) ELSE text

\* Half a tag has 8 characters, an error reply and the end of a line have 2.
TagHalves(text) == {i \in DOMAIN text : text[i].k \in {"head", "tail"}}
TextLength(text) == 2 * Len(text) + 6 * Cardinality(TagHalves(text))

IsComplete(text) == TextLength(text) >= 15

MatchAllowedRfid_Mutant(text) == \E t \in AllowedTag : text[1] = TagLine(t)[1]
MatchAllowedRfid(text) == \E t \in AllowedTag : text = SubSeq(TagLine(t), 1, 2)

\* rfid_set_direction: the first text decides; a later complete one only
\* replaces the data, if it is longer than what the other reader has.
NewMatch(p, r, text) ==
  IF ~ match[p][r].triggered
  THEN [triggered |-> TRUE, complete |-> IsComplete(text), data_len |-> TextLength(text),
        data_ok |-> MatchAllowedRfid(text), is_allowed |-> MatchAllowedRfid(text)]
  ELSE IF \E other \in Reader \ {r} :
            IsComplete(text) /\ TextLength(text) > match[p][other].data_len
  THEN [match[p][r] EXCEPT !.complete = TRUE, !.data_len = TextLength(text),
                           !.data_ok = MatchAllowedRfid(text)]
  ELSE match[p][r]

SetsDirection_Mutant(p, r) == \E other \in Reader \ {r} : match[p][other].triggered
SetsDirection(p, r) ==
  ~ match[p][r].triggered /\ \E other \in Reader \ {r} : match[p][other].triggered

DirectionOf(r) == IF r = "inner" THEN "in" ELSE "out"

RfidSetDirection(p, r, text) ==
  /\ match' = [match EXCEPT ![p][r] = NewMatch(p, r, text)]
  /\ direction' = [direction EXCEPT ![p] = IF SetsDirection(p, r) THEN DirectionOf(r) ELSE @]

\* An error reply or an empty line is no tag.
IsTag_Mutant(text) == text = <<>> \/ text[1].k # "error"
IsTag(text) == text # <<>> /\ text[1].k # "error"

\* catcierge_rfid_read: the first text after the port was opened is the reply to
\* the RAT request, whatever it is.
ReadText(p, r) ==
  /\ Reads(p, r)
  /\ rfid[p][r].fd = "open"
  /\ port[r] # <<>>
  /\ LET text == Trim(port[r])
         first == rfid[p][r].state = "connected"
     IN /\ rfid' = IF text # <<>> /\ first
                   THEN [rfid EXCEPT ![p][r].state = "awaiting_tag"] ELSE rfid
        /\ IF ~ first /\ IsTag(text)
           THEN RfidSetDirection(p, r, text)
           ELSE UNCHANGED <<match, direction>>
  /\ port' = [port EXCEPT ![r] = <<>>]
  /\ ServiceNext(p)
  /\ UNCHANGED deviceVars

CtxService(p, signals) ==
  \/ SelectReaders(p, signals)
  \/ \E r \in Reader : SkipReader(p, r) \/ ReadFails(p, r) \/ ReadNothing(p, r) \/ ReadText(p, r)

\* The process ends; the readers go on.
RfidAtEnd(p) ==
  /\ rfid' = [rfid EXCEPT ![p] = [r \in Reader |-> NotOpened]]
  /\ match' = [match EXCEPT ![p] = [r \in Reader |-> NoMatch]]
  /\ direction' = [direction EXCEPT ![p] = "in"]
  /\ service' = [service EXCEPT ![p] = NotServing]
  /\ UNCHANGED <<port, deviceVars>>
=============================================================================
