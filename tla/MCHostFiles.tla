---------------------------- MODULE MCHostFiles ----------------------------
\* HostFiles with settings that disagree
EXTENDS HostFiles

MCSettings == {
    [ini |-> <<<<"section", "daemon">>, <<"enable_hooks", "on">>, <<"section", "common">>,
               <<"enable_hooks", "off">>>>,
     environ |-> <<>>],
    [ini |-> <<<<"enable_hooks", "off">>, <<"section", "common">>, <<"enable_hooks", "0">>, <<"comment", "">>,
               <<"enable_hooks", "1">>, <<"section", "other">>, <<"enable_hooks", "0">>>>,
     environ |-> <<>>],
    [ini |-> <<<<"section", "daemon">>, <<"enable_hooks", "yes">>>>, environ |-> <<"true", "no">>]}
=============================================================================
