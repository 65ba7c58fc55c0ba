-------------------------- MODULE MCMeetingAnalysis --------------------------
EXTENDS MeetingAnalysis
CONSTANTS t1, t2
DocumentsDef == {<<t1, "summary">>, <<t2, "report">>}
=============================================================================
