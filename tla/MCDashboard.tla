----------------------------- MODULE MCDashboard -----------------------------
\* A Portuguese Android and an English tester: the language of the system differs from
\* the one that is chosen, and both from the fallback of an unknown locale.
EXTENDS Dashboard
MCTranslated == {"en", "pt"}
MCAndroid == <<"pt", "br">>
MCSystem == << <<"c">>, <<>>, <<"xx", "en">>, <<"en", "us">> >>
=============================================================================
