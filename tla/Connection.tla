----------------------------- MODULE Connection -----------------------------
(***************************************************************************)
(* The two ends of a connection: what ConnectionImplBoilerplate            *)
(* (transport/connection_impl_boilerplate.h) does around the code of a     *)
(* transport, which the constant operators stand for.  An end is a record  *)
(* with the fields                                                         *)
(*   error       error_ is set                                             *)
(*   calls[d]    how many reads or writes the user has asked for           *)
(*   answers[d]  the callbacks called for them, in order: which call,      *)
(*               whether it succeeded and, for a read, the bytes           *)
(* and those that its transport adds.  An action is a task of the loop of  *)
(* an end, or as much of one as nothing else can get in between of.        *)
(***************************************************************************)
EXTENDS Naturals, Sequences

CONSTANTS
  Ends,         \* the two ends
  Calls,        \* Calls[e][d][n]: the n-th read or write at e
  Closers,      \* the ends that may be closed
  Failing,      \* the ends whose socket may fail in initImplFromLoop
  ReadImplFromLoop(_, _, _, _),   \* the ends after read n at e: (s, e, n, call)
  WriteImplFromLoop(_, _, _, _),
  HandleErrorImpl(_, _),          \* the ends after handleErrorImpl at e
  Busy(_),                        \* the loop of this end is inside a task
  NewConnection,                  \* an end as it is constructed
  InitImplFromLoop(_, _, _)       \* the ends after initImplFromLoop at e, which
                                  \* returns early if its socket is not ok

VARIABLE conn

Directions == {"read", "write"}

Peer(e) == CHOOSE f \in Ends : f # e

(* fn(error, ...) for call n                                               *)
Answer(s, e, d, n, ok, bytes) ==
  [s EXCEPT ![e].answers[d] = Append(@, [n |-> n, ok |-> ok, bytes |-> bytes])]

SetError(s, e) ==
  IF s[e].error THEN s ELSE HandleErrorImpl([s EXCEPT ![e].error = TRUE], e)

RECURSIVE InitFromLoop(_, _, _)
InitFromLoop(s, es, failed) ==
  IF es = {} THEN s
  ELSE LET e == CHOOSE f \in es : TRUE
       IN InitFromLoop(InitImplFromLoop(s, e, e \notin failed), es \ {e}, failed)

(* A connection whose context has been closed in the meantime is in error  *)
(* from the start, without handleError.                                    *)
Init ==
  \E closed \in SUBSET Closers, failed \in SUBSET Failing :
    conn = InitFromLoop([e \in Ends |-> [NewConnection EXCEPT !.error = e \in closed]],
                        Ends \ closed, failed)

(* readFromLoop, writeFromLoop                                             *)
NextCall(e, d) == conn[e].calls[d] + 1
Called(e, d) == [conn EXCEPT ![e].calls[d] = @ + 1]

Call(e, d, called) ==
  /\ ~Busy(conn[e]) /\ conn[e].calls[d] < Len(Calls[e][d])
  /\ conn' = IF conn[e].error THEN Answer(Called(e, d), e, d, NextCall(e, d), FALSE, <<>>)
             ELSE called

Read(e) ==
  LET n == NextCall(e, "read")
  IN Call(e, "read", ReadImplFromLoop(Called(e, "read"), e, n, Calls[e]["read"][n]))

Write(e) ==
  LET n == NextCall(e, "write")
  IN Call(e, "write", WriteImplFromLoop(Called(e, "write"), e, n, Calls[e]["write"][n]))

Close(e) ==
  /\ e \in Closers /\ ~Busy(conn[e]) /\ ~conn[e].error
  /\ conn' = SetError(conn, e)

-----------------------------------------------------------------------------

(* AnsweredInOrder: the callbacks of reads, and those of writes, are       *)
(* called in the order of the calls, each at most once, failed or not.     *)
AnsweredInOrder ==
  \A e \in Ends, d \in Directions : \A i \in 1 .. Len(conn[e].answers[d]) :
    conn[e].answers[d][i].n = i

(* AnsweredOnce: no callback is called twice.                              *)
AnsweredOnce ==
  \A e \in Ends, d \in Directions :
    LET answers == conn[e].answers[d]
    IN \A i, j \in 1 .. Len(answers) : answers[i].n = answers[j].n => i = j

(* AnsweredOnError: once an end is in error and its loop between tasks,    *)
(* every callback has been called.                                         *)
AnsweredOnError ==
  \A e \in Ends, d \in Directions : conn[e].error /\ ~Busy(conn[e]) =>
    Len(conn[e].answers[d]) = conn[e].calls[d]

(* ReadsWhatWasWritten: the n-th read, if it succeeds, has the bytes of    *)
(* the n-th write at the other end, all and in order, and so that write    *)
(* was asked for.                                                          *)
ReadsWhatWasWritten ==
  \A e \in Ends : \A i \in 1 .. Len(conn[e].answers.read) :
    LET answer == conn[e].answers.read[i]
    IN answer.ok =>
         /\ answer.n <= conn[Peer(e)].calls.write
         /\ answer.bytes = [j \in 1 .. Calls[Peer(e)].write[answer.n].len |-> <<answer.n, j>>]
=============================================================================
