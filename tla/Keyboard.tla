------------------------------ MODULE Keyboard ------------------------------
(***************************************************************************)
(* What the keyboard of lab8 promises its readers (stdin of                *)
(* kern/fs/devs/dev_stdin.c): the keys typed are handed out in the order   *)
(* they came, each to one reader.  When STDIN_BUFSIZE keys are unread the  *)
(* next one takes the place of the oldest of them.                         *)
(***************************************************************************)
EXTENDS Naturals, Sequences

CONSTANTS Readers, Keys, STDIN_BUFSIZE, MaxLen

VARIABLES unread,  \* the keys that nobody has read
          buf      \* what each reader has got in its present call

TypedFirst ==
    /\ unread = <<>>
    /\ buf = [p \in Readers |-> <<>>]

Type(c) ==
    /\ unread' = IF Len(unread) < STDIN_BUFSIZE THEN Append(unread, c)
                                               ELSE <<c>> \o Tail(unread)
    /\ UNCHANGED buf

Give(p) ==
    /\ unread # <<>>
    /\ Len(buf[p]) < MaxLen
    /\ buf' = [buf EXCEPT ![p] = Append(@, Head(unread))]
    /\ unread' = Tail(unread)

Ask(p) ==
    /\ buf' = [buf EXCEPT ![p] = <<>>]
    /\ UNCHANGED unread

KeyboardNext ==
    \/ \E c \in Keys : Type(c)
    \/ \E p \in Readers : Give(p) \/ Ask(p)

KeyboardSpec == TypedFirst /\ [][KeyboardNext]_<<unread, buf>>

=============================================================================
