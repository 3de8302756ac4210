---------------------------- MODULE MCNovelFlow ----------------------------
(* Small instances of NovelFlow.                                           *)
EXTENDS NovelFlow

\* An event that cites its chapter, another with the same id, a foreshadow that an
\* earlier chapter's canonical copy pays off, one that comes back, an operation of
\* another ledger, a derived source, knowledge that cites the working state, and
\* something that is no proposal.
P(target, operation, source, of, event, from, to) ==
    [ok |-> TRUE, target |-> target, operation |-> operation, source |-> source, of |-> of,
     event |-> event, from |-> from, to |-> to]

Event == P("timeline", "append_event", "draft", 1, 1, "none", "none")
LaterEvent == P("timeline", "correction", "draft", 2, 1, "none", "none")
PayOff == P("foreshadowing", "pay_off_foreshadow", "canon", 1, 0, "introduced", "paid_off")
ComeBack == P("foreshadowing", "develop_foreshadow", "draft", 1, 0, "paid_off", "developed")
Misplaced == P("timeline", "append_knowledge", "draft", 1, 0, "none", "none")
Derived == P("timeline", "append_event", "derived", 1, 2, "none", "none")
Learns == P("character_knowledge", "append_knowledge", "working", 1, 0, "none", "none")
Shapeless == [Event EXCEPT !.ok = FALSE]

AllProposals == {Event, LaterEvent, PayOff, ComeBack, Misplaced, Derived, Learns,
                 Shapeless}

G(synthetic, decision, evidence, level) ==
    [synthetic |-> synthetic, decision |-> decision, evidence |-> evidence, level |-> level]

Approved == G(FALSE, "approved", "long", "strict")
Rejected == G(FALSE, "rejected", "short", "lightweight")
Feigned == G(TRUE, "approved", "long", "lightweight")

AllGates == {Approved, Rejected, Feigned}

R(start, total, mode, dryRun, gate) ==
    [start |-> start, total |-> total, mode |-> mode, dryRun |-> dryRun, gate |-> gate]

\* Whole arcs and the second chapter only, in each mode, with every gate.
AllRequests ==
    {R(1, 2, "retrieval_active", FALSE, Approved), R(2, 2, "retrieval_shadow", FALSE, Approved),
     R(1, 2, "legacy", FALSE, Rejected), R(1, 1, "arc_active", FALSE, Feigned),
     R(1, 1, "legacy", FALSE, NoGate), R(1, 2, "legacy", TRUE, NoGate),
     R(3, 2, "legacy", TRUE, NoGate)}
=============================================================================
