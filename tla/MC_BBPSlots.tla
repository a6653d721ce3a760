---------------------------- MODULE MC_BBPSlots ----------------------------
EXTENDS BBPSlots, TLC

CONSTANTS t1, t2, n1

MCThreads == {t1, t2}
MCNames == {n1}

\* The build: one free list.
MCthreadmask0(t) == 0
\* BBP_THREADMASK = 1 with the two threads hashing to different lists.
MCthreadmask1(t) == IF t = t1 THEN 0 ELSE 1

\* With one free list the threads are interchangeable.
MCSymmetry == Permutations(MCThreads)
====
