------------------------- MODULE MCGroupValidation -------------------------
(***************************************************************************)
(* Contents of leaves and group contexts for GroupValidation.              *)
(***************************************************************************)
EXTENDS GroupValidation, TLC

(* Knows everything; knows what the library supports by default, with       *)
(* GREASE; has a credential few know; uses an extension it does not list.   *)
FullCaps == NewCapabilities(None, {"Unknown", "LastResort"}, {"SelfRemove", "Custom"},
                            {"Basic", "X509"})
Full == [credential |-> "Basic", caps |-> FullCaps, exts |-> {}]
Plain == [credential |-> "Basic", caps |-> WithGrease(DefaultCapabilities), exts |-> {}]
Certified == [credential |-> "X509", caps |-> FullCaps, exts |-> {"Unknown"}]
Inconsistent == [credential |-> "X509", caps |-> DefaultCapabilities, exts |-> {"ApplicationId"}]

MCParams == {Full, Plain, Certified, Inconsistent}
MCPathParams == {None, Plain, Certified, Inconsistent}

Requires(extensions, proposals, credentials) ==
    [extensions |-> extensions, proposals |-> proposals, credentials |-> credentials]

Bare == [exts |-> {}, required |-> None]
WithUnknown == [exts |-> {"Unknown", "RequiredCapabilities"},
                required |-> Requires({"Unknown"}, {}, {})]
WithRest == [exts |-> {"RequiredCapabilities"},
             required |-> Requires({}, {"Custom"}, {"X509"})]
Undeclared == [exts |-> {"Unknown"}, required |-> None]

MCContexts == {Bare, WithUnknown, WithRest, Undeclared}
MCFounding == {[params |-> Full, context |-> Bare], [params |-> Plain, context |-> Undeclared],
               [params |-> Full, context |-> WithRest]}

(* Clients other than the creator are interchangeable. *)
MCSymmetry == Permutations(Users \ {Creator})
=============================================================================
