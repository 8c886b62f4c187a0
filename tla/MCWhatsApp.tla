----------------------------- MODULE MCWhatsApp ------------------------------
EXTENDS WhatsApp

\* Three messages, two of them from the same sender.
MCFrom == [r \in Requests |-> IF r = 3 THEN 1 ELSE r]
=============================================================================
