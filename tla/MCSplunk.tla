------------------------------ MODULE MCSplunk ------------------------------
(* Small instances of Splunk.                                              *)
EXTENDS Splunk
=============================================================================
