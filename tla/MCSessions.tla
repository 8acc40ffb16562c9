----------------------------- MODULE MCSessions -----------------------------
EXTENDS Sessions

MCProcesses == {"web", "ai", "job"}
MCServes == [web |-> {"r1", "r2"}, ai |-> {"r1"}, job |-> {}]
=============================================================================
