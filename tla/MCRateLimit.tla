---------------------------- MODULE MCRateLimit ----------------------------
\* RateLimit for TLC: windows of two and three ticks, limits of two and one requests.
EXTENDS RateLimit
SettingChoices == [max : {1, 2}, window : {2, 3}]
DefaultSetting == [max |-> 2, window |-> 2]
Socket == [max |-> 1, window |-> 2]
=============================================================================
