----------------------------- MODULE MCSmartReq -----------------------------
(* Three threads, two of which ask about replacing a file.                  *)
EXTENDS SmartReq

CONSTANTS t1, t2

MCThreads == {t1, t2}
MCReplaces == {t1, t2}
=============================================================================
