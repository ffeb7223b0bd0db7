------------------------------- MODULE MCDemo -------------------------------
(* Instances of Demo for TLC. *)
EXTENDS Demo, TLC

Blank ==
    [oauth_private_key |-> "", service_private_key |-> "", client |-> "a", webhook |-> "",
     types |-> <<>>, share |-> FALSE, created |-> {}]
Service == [Blank EXCEPT !.service_private_key = "k1"]

\* The app's key file is also a service's.
MCSetup ==
    ("2" :> {Blank})
    @@ ("3" :> {[Blank EXCEPT !.oauth_private_key = "k1"]})
    @@ ("4" :> {[Service EXCEPT !.oauth_private_key = "k1"]})
    @@ ("5" :> {Blank, [Blank EXCEPT !.oauth_private_key = "k2"]})
    @@ ("8" :> {Service})
    @@ ("flow:run" :> {Service})
    @@ ("companydata:read" :> {Service})
    @@ ("companydata:changes" :> {Service})
    @@ ("companydata:webhook" :> {[Service EXCEPT !.webhook = "w1"],
                                  [Service EXCEPT !.webhook = "w2"]})
    @@ ("companydata:documents" :>
          {[Service EXCEPT !.types = <<"all", "person">>, !.share = TRUE],
           [Service EXCEPT !.types = <<"person">>, !.client = "b"]})

MCVisits ==
    {{"2"}, {"3", "companydata:read"}, {"4"}, {"5"}, {"8"}, {"flow:run"},
     {"companydata:changes", "companydata:webhook"}, {"companydata:documents"}}

MCWaits ==
    ("2" :> {"detached_signin"}) @@ ("3" :> {"redirect"}) @@ ("4" :> {"redirect"})
    @@ ("5" :> {"redirect"})
    @@ ("8" :> {"enroll_redirect", "detached_enroll", "challenge"})

Company(field) == [party |-> "company", field |-> field]
Customer == [party |-> "customer", field |-> "none"]
MCFlows ==
    {<<Company("email"), Customer, Company("plain")>>,
     <<Company("none"), Customer>>,
     <<Company("plain"), Company("unfit")>>}
=============================================================================
