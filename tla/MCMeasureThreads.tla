-------------------------- MODULE MCMeasureThreads --------------------------
(* TLC instances of MeasureThreads.                                        *)
EXTENDS MeasureThreads

\* Two kinds with threads, and between them one built with the stub.
MCRealAndStub == {1, 3}

\* All of two kinds with threads.
MCBothReal == {1, 2}

\* One kind with threads and one with the stub.
MCOneReal == {1}
=============================================================================
