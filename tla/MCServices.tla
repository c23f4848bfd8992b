----------------------------- MODULE MCServices -----------------------------
(* Services with small sets for TLC. *)
EXTENDS Services

\* One mode of the environment, one provider of last resort, and every other setting.
MCDeployments ==
  [routing : {"hybrid", "local", "cloud"}, key : BOOLEAN, scan : {"nvidia", "lmstudio"},
   provider : {"nvidia", "openai", "lmstudio"}, openai : {TRUE}, rca : BOOLEAN, vision : BOOLEAN,
   mode : {"single"}]
\* A package with a component in a component, another one with a component of the same name, in a
\* folder named like the project's; and a folder that is taken for another one when its name is dropped.
Lwc == <<"force-app", "lwc">>
MCFolders ==
  {Lwc, Lwc \o <<"a">>, Lwc \o <<"a", "b">>, <<"force-app", "classes">>,
   <<"p">> \o Lwc \o <<"a">>, <<"p", "c">>, <<"c">>}

=============================================================================
