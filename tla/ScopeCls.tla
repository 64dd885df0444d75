------------------------------ MODULE ScopeCls ------------------------------
(* scopecls.cpp: the SCOPE object, what its readouts ask the bus for and what *)
(* they show; for a scope that does not compress (m_compressed = FALSE).  An  *)
(* object is a record of its fields; m_scoplen = 0 means not asked yet, and   *)
(* the words of m_data come one by one.  They are names of samples: what a    *)
(* sample's word is, a readout only looks at where it compares two.           *)
EXTENDS Integers, Sequences

NewScope == [m_scoplen |-> 0, m_holdoff |-> 0, m_data |-> <<>>]

\* ready and scoplen keep the length and the holdoff of the first word they see.
Learn(scope, word) ==
    IF scope.m_scoplen = 0
    THEN [scope EXCEPT !.m_scoplen = 2^word.lgmem, !.m_holdoff = word.holdoff]
    ELSE scope

\* The answer of ready: the bits 30 and 29 of the word.
Ready(word) == word.status.stopped /\ word.status.triggered

\* rawread: it takes the memory of a scope of more than four words, and only once.
ToRead(scope) == IF scope.m_scoplen <= 4 THEN 0 ELSE scope.m_scoplen - Len(scope.m_data)
Keep(scope, word) == [scope EXCEPT !.m_data = Append(@, word.data)]

getaddresslen(scope) == scope.m_scoplen

\* The offset of the trigger that print and writevcd compute: negative when the
\* holdoff has pushed the trigger out of the memory.
Offset(scope) == getaddresslen(scope) - scope.m_holdoff - 1

\* Positions count from 0; m_data[i] of the code is Word(scope, i).
Word(scope, i) == scope.m_data[i + 1]
Positions(scope) == 0 .. scope.m_scoplen - 1

\* print leaves a line out when its word repeats the one before it, unless it is the
\* last; signal[w] is the value of the sample w.
Printed(scope, signal) ==
    {i \in Positions(scope) : \/ i = 0 \/ i >= scope.m_scoplen - 1
                              \/ signal[Word(scope, i)] # signal[Word(scope, i - 1)]}

\* The lines that say TRIGGER, and the times at which the trace raises _trigger.
PrintMarks(scope, signal) == {i \in Printed(scope, signal) : i = Offset(scope)}
VcdMarks(scope) == {i \in Positions(scope) : i = Offset(scope)}
=============================================================================
