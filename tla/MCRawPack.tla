------------------------------ MODULE MCRawPack ------------------------------
\* Six sources, one of them not enabled and two that share a page.
EXTENDS RawPack

Source(id, collector, pages, reports, enabled) ==
    [id |-> id, collector |-> collector, pages |-> pages, reports |-> reports,
     enabled |-> enabled]
Found(text) == [access |-> "DOWNLOAD_OK", text |-> text]
Not(access) == [access |-> access, text |-> ""]

MCManifest ==
    <<Source("SRC001", "sse_disclosure", <<>>, <<"annual">>, TRUE),
      Source("SRC016", "status_probe", <<"registry">>, <<>>, TRUE),
      Source("SRC037", "company_website", <<"investors">>, <<>>, TRUE),
      Source("SRC039", "company_website", <<"investors">>, <<>>, TRUE),
      Source("SRC043", "roadshow_seed", <<>>, <<>>, FALSE),
      Source("SRC003", "index_probe", <<"cninfo">>, <<>>, TRUE)>>
MCAnswers ==
    [annual |-> {Not("TIMEOUT")},
     registry |-> {Not("HTTP_403")},
     investors |-> {Found("named"), Found("plain")},
     cninfo |-> {Found("plain")}]
=============================================================================
