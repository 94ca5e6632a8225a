------------------------------ MODULE LiveGrant ------------------------------
(***************************************************************************)
(* The broker's decision on a CONNECT.  The files of the global layer, of  *)
(* the project and of the run are read one after the other, without the    *)
(* lock, while commands grant and revoke, a hand edit makes a file         *)
(* unreadable, and the run is retired with its directory.                  *)
(*                                                                         *)
(* A file is the set of its authorities or Unreadable; a command replaces  *)
(* it as a whole.  Left out: the handshake and the dial, which Broker and  *)
(* Tunnel have.                                                            *)
(***************************************************************************)
EXTENDS Integers, Sequences, SequencesExt

CONSTANTS
  Authorities,
  Calls        \* the connections

Layers == <<"global", "project", "run">>
Unreadable == {"unreadable"}
Contents == (SUBSET Authorities) \cup {Unreadable}

VARIABLES
  files,    \* the file of each layer
  retired,  \* whether the run has been retired
  call,     \* of each connection: its authority, the next file, what has been found
  during    \* what each file has been to a connection since it began

vars == <<files, retired, call, during>>

NoCall == [step |-> "new", wants |-> "none", at |-> 1, read |-> <<>>]
\* A file has the authority, does not have it or cannot be read.
State(contents, a) ==
  IF contents = Unreadable THEN "unreadable" ELSE IF a \in contents THEN "with" ELSE "without"

Init ==
  /\ files = [l \in ToSet(Layers) |-> {}]
  /\ retired = FALSE
  /\ call = [c \in Calls |-> NoCall]
  /\ during = [c \in Calls |-> [l \in ToSet(Layers) |-> {}]]

Witness(now) ==
  during' = [c \in Calls |-> IF call[c].step = "read"
                             THEN [l \in ToSet(Layers) |-> during[c][l] \cup {State(now[l], call[c].wants)}] ELSE during[c]]

------------------------------------------------------------------------------
(* The files change.                                                       *)

\* A command grants or revokes, or a hand edit spoils or repairs a file.
Replace(l, contents) ==
  /\ l = "run" => ~retired
  /\ files' = [files EXCEPT ![l] = contents]
  /\ Witness(files')
  /\ UNCHANGED <<retired, call>>

Retire ==
  /\ ~retired /\ retired' = TRUE
  /\ files' = [files EXCEPT !["run"] = Unreadable]
  /\ Witness(files')
  /\ UNCHANGED call

------------------------------------------------------------------------------
(* A connection asks.                                                      *)

Begin(c, a) ==
  /\ call[c].step = "new"
  /\ call' = [call EXCEPT ![c] = [NoCall EXCEPT !.step = "read", !.wants = a]]
  /\ during' = [during EXCEPT ![c] = [l \in ToSet(Layers) |-> {State(files[l], a)}]]
  /\ UNCHANGED <<files, retired>>

Ends(c, how) == call' = [call EXCEPT ![c].step = how]

read_loopback_authorities(l) == files[l]

\* A variant in which the last file decides.
AllowsLast(c, read) == call[c].wants \in read[Len(Layers)]

Allows(c, read) == \E i \in DOMAIN read : call[c].wants \in read[i]

\* Every file is read, whatever the ones before it say, and one that cannot be ends the call.
loopback_allows_live(c) ==
  /\ call[c].step = "read"
  /\ LET contents == read_loopback_authorities(Layers[call[c].at])
         read == Append(call[c].read, contents)
     IN IF contents = Unreadable THEN Ends(c, "error")
        ELSE IF call[c].at < Len(Layers)
        THEN call' = [call EXCEPT ![c].read = read, ![c].at = @ + 1]
        ELSE Ends(c, IF Allows(c, read) THEN "granted" ELSE "denied")
  /\ UNCHANGED <<files, retired, during>>

Next ==
  \/ \E l \in ToSet(Layers), contents \in Contents : Replace(l, contents)
  \/ Retire
  \/ \E c \in Calls : loopback_allows_live(c) \/ (\E a \in Authorities : Begin(c, a))

Spec == Init /\ [][Next]_vars

------------------------------------------------------------------------------
\* A connection that is granted has had its authority in one of the files at a moment of
\* the call, however the commands move it between the layers: a revocation that was complete
\* before the call is never overlooked.
GrantedWasThere ==
  \A c \in Calls : call[c].step = "granted" => \E l \in ToSet(Layers) : "with" \in during[c][l]

\* One that is denied had no file in which its authority stayed for the whole call.
SteadyGrantIsSeen ==
  \A c \in Calls : call[c].step = "denied" => \A l \in ToSet(Layers) : during[c][l] # {"with"}

\* A file that is unreadable for the whole call refuses it, though another grants it: so does
\* the run's own once the run is retired.
UnreadableRefuses ==
  \A c \in Calls : call[c].step = "granted" => \A l \in ToSet(Layers) : during[c][l] # {"unreadable"}

\* What the broker decides is what the files said.
GrantIsLive == GrantedWasThere /\ SteadyGrantIsSeen /\ UnreadableRefuses
==============================================================================
