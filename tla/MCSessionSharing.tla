--------------------------- MODULE MCSessionSharing ---------------------------
(***************************************************************************)
(* Small instances of SessionSharing.                                      *)
(***************************************************************************)
EXTENDS SessionSharing

CONSTANTS w1, w2, t1, t2, b1

TwoWorkers == {w1, w2}
OneWorker == {w1}
OneToken == {t1}
OneBasic == {b1}

AllMethods == {"xtoken", "cookie", "sessionToken", "basic"}
NoSessionToken == AllMethods \ {"sessionToken"}

By(m, t) == [by |-> m, token |-> t]

\* A token of no session that is followed by Basic; a cookie, and a method that
\* is switched off.
SharedRequests ==
    {<<By("xtoken", None), By("basic", None)>>}
        \cup {<<By("cookie", t), By("sessionToken", None)>> : t \in Tokens}

\* Only token requests.
TokenRequests == {<<By("xtoken", t)>> : t \in Tokens}

BmcSession == "configCurrentBmcSession"

EmptyFiles == {[s \in StorageTypes |-> Json({})]}

\* As bmcweb leaves them with one user logged in.
OneLogin == [s \in StorageTypes |-> IF s = BmcSession THEN Json({t1}) ELSE Json({})]

\* Or the first boot, with no file yet.
NoFiles == [s \in StorageTypes |-> Missing]

FirstBootOrLogin == {OneLogin, NoFiles}
================================================================================
