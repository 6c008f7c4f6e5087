---------------------------- MODULE MCEvidenceTrace ----------------------------
EXTENDS EvidenceTrace
===============================================================================
