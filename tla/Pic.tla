--------------------------------- MODULE Pic ---------------------------------
(***************************************************************************)
(* The two 8259 interrupt controllers and i8259.c, as operators on a       *)
(* record: what the kernel believes is masked (master_mask, slave_mask),   *)
(* what the devices mask (imr), and the requests and interrupts in service *)
(* of the sixteen lines.  Lines 8..15 come through line 2.                 *)
(***************************************************************************)
EXTENDS Integers

AllLines == 0 .. 15
OfMaster == 0 .. 7
OfSlave == 8 .. 15
Cascade == 2

PicState == [mask : SUBSET AllLines, imr : SUBSET AllLines,
             requested : SUBSET AllLines, in_service : SUBSET AllLines]

\* Which lines one write to the data port of irq's controller sets.
\* SamePort_Master: the port is always the first controller's.
SamePort_Master(irq) == OfMaster
SamePort(irq) == IF irq < 8 THEN OfMaster ELSE OfSlave

\* What is then masked on them: the kernel's mask of that controller.
Written(p, irq) ==
  LET own == IF irq < 8 THEN OfMaster ELSE OfSlave
      bits == {l % 8 : l \in p.mask \cap own}
  IN {l \in SamePort(irq) : l % 8 \in bits}

\* enable_irq: clear the bit in the kernel's mask and write the mask out.
enable_irq(p, irq) ==
  LET q == [p EXCEPT !.mask = @ \ {irq}]
  IN IF irq > 15 THEN p
     ELSE [q EXCEPT !.imr = (@ \ SamePort(irq)) \cup Written(q, irq)]

\* send_eoi: a specific end of interrupt, to both controllers for 8..15.
send_eoi(p, irq) ==
  [p EXCEPT !.in_service =
     @ \ (IF irq >= 8 THEN {Cascade, irq} ELSE {irq})]

\* i8259_init: ICW1 clears the devices' masks; only the first one's is then
\* written, by enable_irq(2).  Lines requested before stay requested.
i8259_init(requested) ==
  enable_irq([mask |-> AllLines, imr |-> {}, requested |-> requested,
              in_service |-> {}], Cascade)

(***************************************************************************)
(* The controllers' side (external): a request is presented when it is not *)
(* masked and nothing of the same or a higher priority is in service; a    *)
(* lower number is a higher priority, and the second controller has the    *)
(* priority of line 2.                                                     *)
(***************************************************************************)
Free(p, l) == \A s \in p.in_service : l < s \/ (s < 8) # (l < 8)

Presented(p, l) ==
  /\ l \in p.requested /\ l \notin p.imr /\ Free(p, l)
  /\ l \in OfSlave => Cascade \notin p.imr /\ Free(p, Cascade)

Priority(l) == IF l \in OfSlave THEN 2 * 100 + l ELSE l * 100

Delivered(p, l) ==
  /\ Presented(p, l)
  /\ \A m \in p.requested : Presented(p, m) => Priority(l) <= Priority(m)

Acknowledge(p, l) ==
  [p EXCEPT !.requested = @ \ {l},
            !.in_service = @ \cup {l} \cup (IF l \in OfSlave THEN {Cascade} ELSE {})]

Request(p, l) == [p EXCEPT !.requested = @ \cup {l}]

=============================================================================
