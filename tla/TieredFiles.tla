----------------------------- MODULE TieredFiles -----------------------------
(***************************************************************************)
(* What the daemon and the preloaded library promise together to the       *)
(* applications: tiering "while maintaining the POSIX semantics"           *)
(* (README.md).  A file has a content, which only applications change, and *)
(* a place, which only open() waits for.  Nothing is promised any more of  *)
(* a file that an application could change while it was on its way.        *)
(***************************************************************************)
CONSTANTS
  Files,    \* files of the mount point
  Clients,  \* applications, one open() at a time
  Values,   \* contents an application writes
  Empty,    \* the content of a truncated file
  NoFile    \* the file of a client that has none open

VARIABLES
  content,  \* what each file holds, wherever that is, or Spoiled
  here,     \* whether that is in the file itself
  phase,    \* where each client is: closed, truncating, opening or open
  cfile,    \* the file it opens
  cmode     \* the flags it opens it with

Modes   == {"read", "write", "trunc"}
Spoiled == "spoiled"

Init ==
  /\ content \in [Files -> Values]
  /\ here = [f \in Files |-> TRUE]
  /\ phase = [c \in Clients |-> "closed"]
  /\ cfile = [c \in Clients |-> NoFile]
  /\ cmode = [c \in Clients |-> "read"]

Becomes(f, v) == content' = [content EXCEPT ![f] = IF @ = Spoiled THEN Spoiled ELSE v]

\* The O_TRUNC of every client that opens f has taken effect.
Settled(f) ==
  [c \in Clients |-> IF cfile[c] = f /\ phase[c] = "truncating" THEN "opening" ELSE phase[c]]

\* A file is evicted or fetched: its content stays what it is.
Move(f) ==
  /\ here' = [here EXCEPT ![f] = ~@]
  /\ UNCHANGED <<content, phase, cfile, cmode>>

\* A file on its way is open for writing, or is being truncated.
Spoil(f) ==
  /\ \E c \in Clients :
       /\ cfile[c] = f
       /\ (cmode[c] = "trunc" /\ phase[c] # "closed") \/ (cmode[c] = "write" /\ phase[c] = "open")
  /\ Becomes(f, Spoiled)
  /\ phase' = Settled(f)
  /\ UNCHANGED <<here, cfile, cmode>>

\* O_TRUNC empties a file that is here at once, and another one before open() returns.
Open(c, f, m) ==
  /\ phase[c] = "closed"
  /\ cfile' = [cfile EXCEPT ![c] = f]
  /\ cmode' = [cmode EXCEPT ![c] = m]
  /\ \/ m # "trunc" /\ phase' = [phase EXCEPT ![c] = "opening"] /\ UNCHANGED content
     \/ /\ m = "trunc" /\ ~here[f]
        /\ phase' = [phase EXCEPT ![c] = "truncating"] /\ UNCHANGED content
     \/ /\ m = "trunc" /\ phase' = [phase EXCEPT ![c] = "opening"]
        /\ Becomes(f, Empty) \/ Becomes(f, Spoiled)
  /\ UNCHANGED here

Truncate(f) ==
  /\ \E c \in Clients : cfile[c] = f /\ phase[c] = "truncating"
  /\ Becomes(f, Empty)
  /\ here' = [here EXCEPT ![f] = TRUE]
  /\ phase' = Settled(f)
  /\ UNCHANGED <<cfile, cmode>>

\* open() returns a descriptor.
Return(c) ==
  /\ phase[c] = "opening"
  /\ phase' = [phase EXCEPT ![c] = "open"]
  /\ \/ (here[cfile[c]] \/ content[cfile[c]] = Spoiled) /\ UNCHANGED content
     \/ cmode[c] = "write" /\ Becomes(cfile[c], Spoiled)
  /\ UNCHANGED <<here, cfile, cmode>>

Write(c, v) ==
  /\ phase[c] = "open" /\ cmode[c] # "read"
  /\ Becomes(cfile[c], v)
  /\ UNCHANGED <<here, phase, cfile, cmode>>

\* close(), an error of open() or the end of the process: an O_TRUNC that fails may
\* have emptied the file or not.
Close(c) ==
  /\ phase[c] # "closed"
  /\ cfile' = [cfile EXCEPT ![c] = NoFile]
  /\ cmode' = [cmode EXCEPT ![c] = "read"]
  /\ \/ phase' = [phase EXCEPT ![c] = "closed"] /\ UNCHANGED content
     \/ /\ phase[c] = "truncating" /\ Becomes(cfile[c], Empty)
        /\ phase' = [Settled(cfile[c]) EXCEPT ![c] = "closed"]
  /\ UNCHANGED here

Next ==
  \/ \E f \in Files : Move(f) \/ Spoil(f) \/ Truncate(f)
  \/ \E c \in Clients : Return(c) \/ Close(c)
  \/ \E c \in Clients, f \in Files, m \in Modes : Open(c, f, m)
  \/ \E c \in Clients, v \in Values : Write(c, v)

Spec == Init /\ [][Next]_<<content, here, phase, cfile, cmode>>
=============================================================================
