------------------------------ MODULE TapPort ------------------------------
(***************************************************************************)
(* What the operations of ITapDev (drivers/ITapDev.h) promise the rest of  *)
(* the probe, whatever the CPU of the target: an operation changes the     *)
(* words, the flash cells or the register it names, one after the other    *)
(* and in that order, and nothing else; it returns what the target holds;  *)
(* and only ReleaseDevice lets the target run, where the context says.     *)
(***************************************************************************)
EXTENDS Integers, Sequences

CONSTANTS Effects(_, _),    \* the changes an operation makes, on a part
          Answer(_, _, _),  \* what it returns, given the memory and registers
          Resume(_, _),     \* where it lets the CPU go on
          Program(_, _),    \* a flash word after another is programmed over it
          NoCall

VARIABLES part, mem, reg, call, left, answer, running

vars == <<part, mem, reg, call, left, answer, running>>

NotRunning == -1

Init == call = NoCall /\ left = <<>> /\ answer = <<>> /\ running = NotRunning

Begin ==
    /\ call = NoCall /\ running = NotRunning
    /\ call' # NoCall
    /\ left' = Effects(part, call')
    /\ answer' = <<>>
    /\ UNCHANGED <<part, mem, reg, running>>

\* One change: of a cell or several, or of a register.
Change ==
    /\ call # NoCall /\ left # <<>>
    /\ left' = Tail(left)
    /\ LET e == Head(left)
       IN  \/ e.k = "write" /\ reg' = reg /\ mem' = [mem EXCEPT ![e.at] = e.v]
           \/ e.k = "program" /\ reg' = reg /\ mem' = [mem EXCEPT ![e.at] = Program(@, e.v)]
           \/ e.k = "erase" /\ reg' = reg
              /\ mem' = [a \in DOMAIN mem |-> IF a \in e.at THEN \hFFFF ELSE mem[a]]
           \/ e.k = "reg" /\ mem' = mem /\ reg' = [reg EXCEPT ![e.at] = e.v]
    /\ UNCHANGED <<part, call, answer, running>>

Release ==
    /\ call # NoCall /\ left = <<>> /\ call.op = "ReleaseDevice" /\ running = NotRunning
    /\ running' = Resume(part, call)
    /\ UNCHANGED <<part, mem, reg, call, left, answer>>

End ==
    /\ call # NoCall /\ left = <<>>
    /\ call.op = "ReleaseDevice" => running # NotRunning
    /\ answer' = Answer(part, call, <<mem, reg>>)
    /\ call' = NoCall /\ left' = <<>>
    /\ UNCHANGED <<part, mem, reg, running>>

\* The probe stops the target again: its program has run meanwhile.
Capture ==
    /\ call = NoCall /\ running # NotRunning
    /\ running' = NotRunning
    /\ answer' = <<>>
    /\ UNCHANGED <<part, call, left>>

Next == Begin \/ Change \/ Release \/ End \/ Capture

Spec == Init /\ [][Next]_vars

=============================================================================
