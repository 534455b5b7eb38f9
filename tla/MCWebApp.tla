------------------------------- MODULE MCWebApp -------------------------------
\* The parts of the web front end with small sets of mails, folders, users, languages and pages.
EXTENDS WebApp, TLC
CONSTANTS m1, m2, a2, f1, f2, u1, u2, t1, t2, a1
MCByLabel   == <<f1, "Inbox", "Spam", "sendQueue", f2>>
MCWrittenIn == (m1 :> "en") @@ (m2 :> "zh")
=============================================================================
